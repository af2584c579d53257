--------------------------- MODULE WorkerExecutor ---------------------------
(***************************************************************************)
(* The tool containers of a worker: Executor of pkg/worker/executor.go.    *)
(*                                                                         *)
(* The processes are the ExecuteTask calls, the CancelTask calls (one for  *)
(* each task: a second finds no entry) and the container engine.  Executor *)
(* .mu guards runningTasks and the fields of its entries only; every call  *)
(* of the runtime is made without it.  A call is named by the task ID it   *)
(* generates.  The name of a container is made of the tool and the session *)
(* of the executor, so that two calls of one tool share it.  A runtime is  *)
(* configured; what the container prints is left out.                      *)
(***************************************************************************)
EXTENDS Naturals, FiniteSets

CONSTANTS
    Calls,          \* ExecuteTask calls
    ToolOf          \* the tool each of them runs

VARIABLES
    exClosed,       \* Executor.closed
    exRunning,      \* the keys of Executor.runningTasks
    exKnown,        \* the calls whose entry has a container ID
    exCanceled,     \* the calls whose context was canceled
    exCall,         \* the ExecuteTask calls
    exResult,       \* TaskResult: how each ended
    exCancel,       \* the CancelTask calls
    exBox,          \* the container of each call, in the engine
    exStray         \* containers the engine kept though it reported an error

exVars == <<exClosed, exRunning, exKnown, exCanceled, exCall, exResult,
            exCancel, exBox, exStray>>

ExInit ==
    /\ exClosed = FALSE
    /\ exRunning = {} /\ exKnown = {} /\ exCanceled = {}
    /\ exCall = [c \in Calls |-> "new"]
    /\ exResult = [c \in Calls |-> "none"]
    /\ exCancel = [c \in Calls |-> [pc |-> "none", force |-> FALSE]]
    /\ exBox = [c \in Calls |-> "none"]
    /\ exStray = {}

Present(c) == exBox[c] \in {"created", "running", "exited"}

\* The call goes on to pc.
Step(c, from, to) == exCall[c] = from /\ exCall' = [exCall EXCEPT ![c] = to]

\* An error return, whose deferred functions run from pc on.
Fails(c, from, to) ==
    /\ Step(c, from, to)
    /\ exResult' = [exResult EXCEPT ![c] = "error"]

-----------------------------------------------------------------------------
(* ExecuteTask.                                                            *)

BeginExecute(c) ==
    /\ IF exClosed
       THEN Fails(c, "new", "done") /\ UNCHANGED exRunning
       ELSE /\ Step(c, "new", "create")
            /\ exRunning' = exRunning \cup {c}
            /\ UNCHANGED exResult
    /\ UNCHANGED <<exClosed, exKnown, exCanceled, exCancel, exBox, exStray>>

\* The tool is unknown, the policy refuses the configuration, or the engine
\* fails to create the container, as it must when the name is in use.  A
\* request given up when the context ends may still leave a container.
CreateFails(c) ==
    /\ Fails(c, "create", "untrack")
    /\ \/ UNCHANGED <<exBox, exStray>>
       \/ /\ c \in exCanceled
          /\ \A d \in Calls : ToolOf[d] = ToolOf[c] => ~Present(d)
          /\ exBox' = [exBox EXCEPT ![c] = "created"]
          /\ exStray' = exStray \cup {c}
    /\ UNCHANGED <<exClosed, exRunning, exKnown, exCanceled, exCancel>>

CreateBox(c) ==
    /\ Step(c, "create", "record")
    /\ c \notin exCanceled
    /\ \A d \in Calls : ToolOf[d] = ToolOf[c] => ~Present(d)
    /\ exBox' = [exBox EXCEPT ![c] = "created"]
    /\ UNCHANGED <<exClosed, exRunning, exKnown, exCanceled, exResult, exCancel, exStray>>

\* The entry, which CancelTask may have taken out by now, gets the container.
RecordBox(c) ==
    /\ Step(c, "record", "start")
    /\ exKnown' = exKnown \cup {c}
    /\ UNCHANGED <<exClosed, exRunning, exCanceled, exResult, exCancel, exBox, exStray>>

StartBox(c) ==
    /\ exBox[c] = "created"
    /\ c \notin exCanceled
    /\ Step(c, "start", "wait")
    /\ exBox' = [exBox EXCEPT ![c] = "running"]
    /\ UNCHANGED <<exClosed, exRunning, exKnown, exCanceled, exResult, exCancel, exStray>>

\* The engine refuses, the context has ended, or the timeout is over.
StartBoxFails(c) ==
    /\ Fails(c, "start", "destroy")
    /\ UNCHANGED <<exClosed, exRunning, exKnown, exCanceled, exCancel, exBox, exStray>>

\* Wait sees the exit of the container, also when the context has ended.
WaitReturns(c) ==
    /\ exBox[c] = "exited"
    /\ Step(c, "wait", "logs")
    /\ UNCHANGED <<exClosed, exRunning, exKnown, exCanceled, exResult, exCancel, exBox, exStray>>

\* The timeout of the tool, a canceled context or a container that is gone.
WaitFails(c) ==
    /\ Fails(c, "wait", "destroy")
    /\ UNCHANGED <<exClosed, exRunning, exKnown, exCanceled, exCancel, exBox, exStray>>

\* The logs are read with a context of their own; a failure is only logged.
ReadLogs(c) ==
    /\ Step(c, "logs", "destroy")
    /\ exResult' = [exResult EXCEPT ![c] = "ok"]
    /\ UNCHANGED <<exClosed, exRunning, exKnown, exCanceled, exCancel, exBox, exStray>>

\* Destroy by ID.  The engine may refuse, and without force it does while the
\* container runs; that is only logged.
RemoveBox(c, force) ==
    \/ /\ exBox[c] # "running" \/ force
       /\ exBox' = [exBox EXCEPT ![c] = "gone"]
       /\ exStray' = exStray \ {c}
    \/ /\ exStray' = IF force /\ Present(c) THEN exStray \cup {c} ELSE exStray
       /\ UNCHANGED exBox

\* The deferred removal, under a context nobody cancels.
DestroyBox(c) ==
    /\ Step(c, "destroy", "untrack")
    /\ RemoveBox(c, TRUE)
    /\ UNCHANGED <<exClosed, exRunning, exKnown, exCanceled, exResult, exCancel>>

\* The first deferred function runs last: the entry goes, the context ends.
Untrack(c) ==
    /\ Step(c, "untrack", "done")
    /\ exRunning' = exRunning \ {c}
    /\ exCanceled' = exCanceled \cup {c}
    /\ UNCHANGED <<exClosed, exKnown, exResult, exCancel, exBox, exStray>>

-----------------------------------------------------------------------------
(* CancelTask, Close and the engine.                                       *)

CancelGoes(c, from, to) ==
    /\ exCancel[c].pc = from
    /\ exCancel' = [exCancel EXCEPT ![c].pc = to]

\* The entry is taken out under the lock, unless the executor is closed or the
\* task has none.
TakeEntry(c, force) ==
    /\ ~exClosed
    /\ c \in exRunning
    /\ exRunning' = exRunning \ {c}
    /\ exCancel' = [exCancel EXCEPT ![c] = [pc |-> "cancel", force |-> force]]
    /\ UNCHANGED <<exClosed, exKnown, exCanceled, exCall, exResult, exBox, exStray>>

\* The context is canceled; the entry's container is stopped and removed when
\* it is known by now, stopped first unless force is asked for.
CancelContext(c) ==
    /\ CancelGoes(c, "cancel", IF c \notin exKnown THEN "done"
                               ELSE IF exCancel[c].force THEN "remove" ELSE "stop")
    /\ exCanceled' = exCanceled \cup {c}
    /\ UNCHANGED <<exClosed, exRunning, exKnown, exCall, exResult, exBox, exStray>>

\* The container stops within its 2 s, or the error is logged.
StopCanceled(c) ==
    /\ CancelGoes(c, "stop", "remove")
    /\ \/ UNCHANGED exBox
       \/ exBox[c] = "running" /\ exBox' = [exBox EXCEPT ![c] = "exited"]
    /\ UNCHANGED <<exClosed, exRunning, exKnown, exCanceled, exCall, exResult, exStray>>

\* Mutant of RemoveCanceled: removes whatever has the name.
RemoveNamed(c) ==
    /\ CancelGoes(c, "remove", "done")
    /\ exBox' = [d \in Calls |-> IF ToolOf[d] = ToolOf[c] /\ Present(d) THEN "gone"
                                 ELSE exBox[d]]
    /\ UNCHANGED <<exClosed, exRunning, exKnown, exCanceled, exCall, exResult, exStray>>

RemoveCanceled(c) ==
    /\ CancelGoes(c, "remove", "done")
    /\ IF Present(c) THEN RemoveBox(c, exCancel[c].force) ELSE UNCHANGED <<exBox, exStray>>
    /\ UNCHANGED <<exClosed, exRunning, exKnown, exCanceled, exCall, exResult>>

\* Close refuses new work.  Running tasks go on, and can no longer be canceled.
CloseExecutor ==
    /\ ~exClosed
    /\ exClosed' = TRUE
    /\ UNCHANGED <<exRunning, exKnown, exCanceled, exCall, exResult, exCancel, exBox, exStray>>

\* The tool ends.
BoxExits(c) ==
    /\ exBox[c] = "running"
    /\ exBox' = [exBox EXCEPT ![c] = "exited"]
    /\ UNCHANGED <<exClosed, exRunning, exKnown, exCanceled, exCall, exResult, exCancel, exStray>>

ExecuteStep(c) ==
    \/ CreateFails(c) \/ CreateBox(c) \/ RecordBox(c) \/ StartBox(c) \/ StartBoxFails(c)
    \/ WaitReturns(c) \/ WaitFails(c) \/ ReadLogs(c) \/ DestroyBox(c) \/ Untrack(c)

CancelStep(c) == CancelContext(c) \/ StopCanceled(c) \/ RemoveCanceled(c)

ExNext ==
    \/ \E c \in Calls : \/ BeginExecute(c) \/ ExecuteStep(c) \/ CancelStep(c) \/ BoxExits(c)
    \/ \E c \in Calls, force \in BOOLEAN : TakeEntry(c, force)
    \/ CloseExecutor

ExSpec == ExInit /\ [][ExNext]_exVars

\* Calls of the runtime end: each has a context with a timeout, or the answer
\* of the engine.
ExFairness == \A c \in Calls : WF_exVars(ExecuteStep(c)) /\ WF_exVars(CancelStep(c))

-----------------------------------------------------------------------------
(* Properties                                                              *)

\* A call that returned has a result.
ExTypeOK ==
    /\ exClosed \in BOOLEAN
    /\ exRunning \subseteq Calls /\ exKnown \subseteq Calls /\ exCanceled \subseteq Calls
    /\ exCall \in [Calls -> {"new", "create", "record", "start", "wait", "logs",
                             "destroy", "untrack", "done"}]
    /\ exResult \in [Calls -> {"none", "ok", "error"}]
    /\ exCancel \in [Calls -> [pc : {"none", "cancel", "stop", "remove", "done"},
                               force : BOOLEAN]]
    /\ exBox \in [Calls -> {"none", "created", "running", "exited", "gone"}]
    /\ exStray \subseteq Calls
    /\ \A c \in Calls : exCall[c] = "done" => exResult[c] # "none"

\* A call that returned left no container behind, however it failed or was
\* canceled, unless the engine kept one it reported an error for
\* (executor.go:453 removes it under a context of its own).
NothingRemains ==
    \A c \in Calls : exCall[c] = "done" /\ Present(c) => c \in exStray

\* runningTasks has an entry for exactly the calls that are under way and not
\* canceled, so that CancelTask finds each once (executor.go:618).
RunningIsListed ==
    exRunning = {c \in Calls : exCall[c] \notin {"new", "done"} /\ exCancel[c].pc = "none"}

\* Only its own call and its own cancellation remove a container, though
\* containers of one tool have the same name.
OthersUntouched ==
    [][\A c \in Calls : Present(c) /\ exBox'[c] = "gone" =>
            exCall'[c] # exCall[c] \/ exCancel'[c] # exCancel[c]]_exVars

\* Close leaves the running tasks to their end: it neither cancels them nor
\* lets anyone cancel them (executor.go:605).
ClosedRunsOut ==
    [][exClosed => \A c \in Calls : exCancel[c].pc = "none" => exCancel'[c].pc = "none"]_exVars

\* Every call returns: by the exit of its container, its timeout, or because it
\* was canceled, whatever the engine refuses.
CallsReturn == \A c \in Calls : exCall[c] = "create" ~> exCall[c] = "done"
=============================================================================
