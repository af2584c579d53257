--------------------------- MODULE ToolExecutions ---------------------------
(***************************************************************************)
(* The tools and their executions in ToolService                           *)
(* (pkg/grpc/tool_service.go).                                             *)
(*                                                                         *)
(* ToolRegistry.mu and ExecutionRegistry.mu guard the maps, every tool and *)
(* every execution has a mutex of its own.  An ExecuteTool call keeps no   *)
(* lock while the executor runs, so that cancellation, DisableTool and     *)
(* StreamTool change the status of its execution meanwhile.  Executions    *)
(* are never removed.  One tool name is enough: registering it again with  *)
(* force replaces the object the name stands for.                          *)
(***************************************************************************)
EXTENDS Naturals, FiniteSets

CONSTANTS
    Execs,          \* ExecuteTool calls, named by the execution they add
    Disablers,      \* DisableTool calls that cancel active executions
    ToolStreams,    \* StreamTool handlers
    MaxObjects      \* how often the tool is registered (bound)

ASSUME TsAssumption == MaxObjects \in Nat

VARIABLES
    tsExecutor,     \* the service has an executor
    tsMade,         \* registrations so far: the objects are 1..tsMade
    tsTool,         \* the object registered under the name, 0 for none
    tsEnabled,      \* ToolInfo.Enabled of the registered object, FALSE without
    tsTotal,        \* UsageStats.TotalExecutions
    tsGood,         \* UsageStats.SuccessfulExecutions
    tsBad,          \* UsageStats.FailedExecutions
    tsCall,         \* the ExecuteTool calls; with the object it checked or records on
    tsStatus,       \* ExecutionInfo.Status, "none" before Add
    tsResult,       \* ExecutionInfo.Result: its status, "none" without
    tsDisable,      \* the DisableTool calls
    tsWatch,        \* the StreamTool handlers
    tsStreams       \* ToolService.streams

regVars == <<tsMade, tsTool, tsEnabled>>
statVars == <<tsTotal, tsGood, tsBad>>
execVars == <<tsCall, tsStatus, tsResult>>
watchVars == <<tsWatch, tsStreams>>
tsVars == <<tsExecutor, regVars, statVars, execVars, tsDisable, watchVars>>

ToolObjects == 1..MaxObjects
ActiveStates == {"pending", "running"}
\* What the executor reports; its timeout and cancelled count like failed.
EndStates == {"completed", "failed"}

TsInit ==
    /\ tsExecutor \in BOOLEAN
    /\ tsMade = 0 /\ tsTool = 0
    /\ tsEnabled = FALSE
    /\ tsTotal = [o \in ToolObjects |-> 0]
    /\ tsGood = tsTotal /\ tsBad = tsTotal
    /\ tsCall = [e \in Execs |-> [pc |-> "new", of |-> 0]]
    /\ tsStatus = [e \in Execs |-> "none"]
    /\ tsResult = tsStatus
    /\ tsDisable = [d \in Disablers |-> [pc |-> "new", left |-> {}, at |-> {}, seen |-> {}]]
    /\ tsWatch = [x \in ToolStreams |-> "unused"]
    /\ tsStreams = {}

-----------------------------------------------------------------------------
(* The registry of tools.                                                  *)

\* EnterTool: a name in use is refused unless force is set, and then gets a
\* new object with statistics of its own.
EnterTool(enabled, force) ==
    /\ tsMade < MaxObjects
    /\ tsTool = 0 \/ force
    /\ tsMade' = tsMade + 1
    /\ tsTool' = tsMade + 1
    /\ tsEnabled' = enabled
    /\ UNCHANGED <<tsExecutor, statVars, execVars, tsDisable, watchVars>>

RemoveTool ==
    /\ tsTool # 0
    /\ tsTool' = 0 /\ tsEnabled' = FALSE
    /\ UNCHANGED <<tsExecutor, tsMade, statVars, execVars, tsDisable, watchVars>>

\* EnableTool, UpdateTool with either value, and DisableTool that cancels nothing.
SetEnabled(enabled) ==
    /\ tsTool # 0
    /\ tsEnabled' = enabled
    /\ UNCHANGED <<tsExecutor, tsMade, tsTool, statVars, execVars, tsDisable, watchVars>>

\* DisableTool, then it lists the executions.
DisableTool(d) ==
    /\ tsDisable[d].pc = "new" /\ tsTool # 0
    /\ tsEnabled' = FALSE
    /\ tsDisable' = [tsDisable EXCEPT ![d].pc = "list"]
    /\ UNCHANGED <<tsExecutor, tsMade, tsTool, statVars, execVars, watchVars>>

ListExecutions(d) ==
    /\ tsDisable[d].pc = "list"
    /\ tsDisable' = [tsDisable EXCEPT ![d].pc = "sweep",
                                      ![d].left = {e \in Execs : tsStatus[e] # "none"}]
    /\ UNCHANGED <<tsExecutor, regVars, statVars, execVars, watchVars>>

\* It looks at the next execution, and cancels it in a second step if it was
\* active ("at"); "seen" keeps those it found running.
SweepExecution(d, e) ==
    LET active == tsStatus[e] \in ActiveStates IN
    /\ tsDisable[d].pc = "sweep" /\ e \in tsDisable[d].left
    /\ tsDisable' = [tsDisable EXCEPT
            ![d].pc = IF active THEN "cancel" ELSE @,
            ![d].left = @ \ {e},
            ![d].at = IF active THEN {e} ELSE @,
            ![d].seen = IF tsStatus[e] = "running" THEN @ \cup {e} ELSE @]
    /\ UNCHANGED <<tsExecutor, regVars, statVars, execVars, watchVars>>

\* ExecutionRegistry.Cancel: whatever the status is by now.
SetCanceled(e) == tsStatus' = [tsStatus EXCEPT ![e] = "cancelled"]

SweepCancel(d, e) ==
    /\ tsDisable[d].pc = "cancel" /\ e \in tsDisable[d].at
    /\ SetCanceled(e)
    /\ tsDisable' = [tsDisable EXCEPT ![d].pc = "sweep", ![d].at = {}]
    /\ UNCHANGED <<tsExecutor, regVars, statVars, tsCall, tsResult, watchVars>>

-----------------------------------------------------------------------------
(* ExecuteTool.                                                            *)

CallGoes(e, from, to, o) ==
    /\ tsCall[e].pc = from
    /\ tsCall' = [tsCall EXCEPT ![e] = [pc |-> to, of |-> o]]

\* The tool is looked up and was enabled; no lock is kept.
CheckTool(e) ==
    /\ tsTool # 0 /\ tsEnabled
    /\ CallGoes(e, "new", "add", tsTool)
    /\ UNCHANGED <<tsExecutor, regVars, statVars, tsStatus, tsResult, tsDisable, watchVars>>

\* Without an executor the call ends here and the execution stays pending.
AddExecution(e) ==
    /\ CallGoes(e, "add", IF tsExecutor THEN "start" ELSE "done", 0)
    /\ tsStatus' = [tsStatus EXCEPT ![e] = "pending"]
    /\ UNCHANGED <<tsExecutor, regVars, statVars, tsResult, tsDisable, watchVars>>

\* The status becomes running, also when it was canceled meanwhile.
StartExecution(e) ==
    /\ CallGoes(e, "start", "execute", 0)
    /\ tsStatus' = [tsStatus EXCEPT ![e] = "running"]
    /\ UNCHANGED <<tsExecutor, regVars, statVars, tsResult, tsDisable, watchVars>>

\* The executor reports an error: nothing is recorded.
ExecutionFails(e) ==
    /\ CallGoes(e, "execute", "done", 0)
    /\ tsStatus' = [tsStatus EXCEPT ![e] = "failed"]
    /\ UNCHANGED <<tsExecutor, regVars, statVars, tsResult, tsDisable, watchVars>>

\* Result and status are those of the executor, also after a cancellation.
ExecutionEnds(e, result) ==
    /\ CallGoes(e, "execute", "look", 0)
    /\ tsStatus' = [tsStatus EXCEPT ![e] = result]
    /\ tsResult' = [tsResult EXCEPT ![e] = result]
    /\ UNCHANGED <<tsExecutor, regVars, statVars, tsDisable, watchVars>>

\* RecordExecution looks the tool up again, by name; none is no error.
LookForTool(e) ==
    /\ CallGoes(e, "look", IF tsTool = 0 THEN "done" ELSE "record", tsTool)
    /\ UNCHANGED <<tsExecutor, regVars, statVars, tsStatus, tsResult, tsDisable, watchVars>>

\* Under the mutex of the tool, which may have been removed from the map.
CountExecution(e) ==
    LET o == tsCall[e].of  good == tsResult[e] = "completed" IN
    /\ CallGoes(e, "record", "done", o)
    /\ tsTotal' = [tsTotal EXCEPT ![o] = @ + 1]
    /\ tsGood' = IF good THEN [tsGood EXCEPT ![o] = @ + 1] ELSE tsGood
    /\ tsBad' = IF good THEN tsBad ELSE [tsBad EXCEPT ![o] = @ + 1]
    /\ UNCHANGED <<tsExecutor, regVars, tsStatus, tsResult, tsDisable, watchVars>>

\* Mutant of CancelExecution: a cancellation throws the result away.
CancelExecutionClears(e) ==
    /\ tsStatus[e] # "none"
    /\ SetCanceled(e)
    /\ tsResult' = [tsResult EXCEPT ![e] = "none"]
    /\ UNCHANGED <<tsExecutor, regVars, statVars, tsCall, tsDisable, watchVars>>

\* CancelExecution does not look at the status, nor does it stop the executor.
CancelExecution(e) ==
    /\ tsStatus[e] # "none"
    /\ SetCanceled(e)
    /\ UNCHANGED <<tsExecutor, regVars, statVars, tsCall, tsResult, tsDisable, watchVars>>

-----------------------------------------------------------------------------
(* StreamTool and Close.                                                   *)

OpenToolStream(x) ==
    /\ tsWatch[x] = "unused"
    /\ tsWatch' = [tsWatch EXCEPT ![x] = "open"]
    /\ tsStreams' = tsStreams \cup {x}
    /\ UNCHANGED <<tsExecutor, regVars, statVars, execVars, tsDisable>>

\* The client leaves, names no existing execution, or cannot be answered.
EndToolStream(x) ==
    /\ tsWatch[x] = "open"
    /\ tsWatch' = [tsWatch EXCEPT ![x] = "ended"]
    /\ tsStreams' = tsStreams \ {x}
    /\ UNCHANGED <<tsExecutor, regVars, statVars, execVars, tsDisable>>

\* A cancel command for the execution its first message named ends the handler.
CancelByToolStream(x, e) ==
    /\ tsWatch[x] = "open" /\ tsStatus[e] # "none"
    /\ SetCanceled(e)
    /\ tsWatch' = [tsWatch EXCEPT ![x] = "ended"]
    /\ tsStreams' = tsStreams \ {x}
    /\ UNCHANGED <<tsExecutor, regVars, statVars, tsCall, tsResult, tsDisable>>

CloseToolService ==
    /\ tsStreams # {}
    /\ tsStreams' = {}
    /\ UNCHANGED <<tsExecutor, regVars, statVars, execVars, tsDisable, tsWatch>>

TsNext ==
    \/ \E enabled, force \in BOOLEAN : EnterTool(enabled, force)
    \/ RemoveTool
    \/ \E enabled \in BOOLEAN : SetEnabled(enabled)
    \/ \E d \in Disablers : DisableTool(d) \/ ListExecutions(d)
    \/ \E d \in Disablers, e \in Execs : SweepExecution(d, e) \/ SweepCancel(d, e)
    \/ \E e \in Execs :
         \/ CheckTool(e) \/ AddExecution(e) \/ StartExecution(e) \/ ExecutionFails(e)
         \/ \E result \in EndStates : ExecutionEnds(e, result)
         \/ LookForTool(e) \/ CountExecution(e) \/ CancelExecution(e)
    \/ \E x \in ToolStreams : OpenToolStream(x) \/ EndToolStream(x)
    \/ \E x \in ToolStreams, e \in Execs : CancelByToolStream(x, e)
    \/ CloseToolService

TsSpec == TsInit /\ [][TsNext]_tsVars

-----------------------------------------------------------------------------
(* Properties                                                              *)

\* Statistics add up, on every object ever registered.
TsTypeOK ==
    /\ tsExecutor \in BOOLEAN
    /\ tsMade \in 0..MaxObjects /\ tsTool \in 0..tsMade
    /\ tsEnabled \in BOOLEAN /\ (tsEnabled => tsTool # 0)
    /\ tsTotal \in [ToolObjects -> Nat] /\ tsGood \in [ToolObjects -> Nat] /\ tsBad \in [ToolObjects -> Nat]
    /\ \A o \in ToolObjects : tsTotal[o] = tsGood[o] + tsBad[o]
    /\ tsCall \in [Execs -> [pc : {"new", "add", "start", "execute", "look", "record", "done"},
                             of : 0..MaxObjects]]
    /\ tsStatus \in [Execs -> {"none", "cancelled"} \cup ActiveStates \cup EndStates]
    /\ tsResult \in [Execs -> {"none"} \cup EndStates]
    /\ tsDisable \in [Disablers -> [pc : {"new", "list", "sweep", "cancel"},
                                    left : SUBSET Execs, at : SUBSET Execs,
                                    seen : SUBSET Execs]]
    /\ tsWatch \in [ToolStreams -> {"unused", "open", "ended"}]
    /\ tsStreams \subseteq ToolStreams

\* The calls that returned after they recorded on an object.
CountedOn(o, R) == {e \in Execs : tsCall[e].pc = "done" /\ tsCall[e].of = o /\ tsResult[e] \in R}

\* The statistics of a tool count the calls that returned with a result of the
\* executor, by that result: whatever cancellations did to their status
\* (tool_service.go:846).
StatsMatch ==
    \A o \in ToolObjects :
        /\ tsTotal[o] = Cardinality(CountedOn(o, EndStates))
        /\ tsGood[o] = Cardinality(CountedOn(o, {"completed"}))

\* What GetStats and HealthCheck call an active execution is a call under way:
\* with an executor, none stays pending or running once its call returned.
ActiveIsUnderway ==
    tsExecutor => \A e \in Execs : tsStatus[e] \in ActiveStates => tsCall[e].pc \notin {"new", "done"}

\* Once its call returned, the status of an execution changes by a cancellation
\* only, and its result never.
ResultsStay ==
    [][\A e \in Execs : tsCall[e].pc = "done" =>
            tsStatus'[e] \in {tsStatus[e], "cancelled"} /\ tsResult'[e] = tsResult[e]]_tsVars

\* An execution DisableTool found running does not go on as active after it was
\* swept (tool_service.go:637); one it found pending does when its call only
\* then sets it running.
DisableStopsRunning ==
    \A d \in Disablers, e \in Execs :
        e \in tsDisable[d].seen \ tsDisable[d].at => tsStatus[e] \notin ActiveStates

\* ToolService.streams holds no stream whose handler has returned.
ToolStreamsAreOpen == \A x \in tsStreams : tsWatch[x] = "open"

\* Executions, their cancellation and the disabling of their tool overlap: statistics
\* match the results, what is shown active is under way, and a result stays
\* (tool_service.go).
ExecutionsSafe ==
    /\ [](/\ TsTypeOK
          /\ StatsMatch
          /\ ActiveIsUnderway
          /\ DisableStopsRunning
          /\ ToolStreamsAreOpen)
    /\ ResultsStay
=============================================================================
