---------------------------- MODULE ServiceProofs ----------------------------
(***************************************************************************)
(* Proofs about the services of the orchestrator, about the LLM gateway    *)
(* behind them and about the calls of one of its providers, for any number *)
(* of agents, tasks, executions, streams, calls and providers.  The        *)
(* modules share no state, and every section is about the specification of *)
(* one of them.                                                            *)
(***************************************************************************)
EXTENDS AgentTasks, ToolExecutions, LLMRequests, LlmGateway, ProviderCalls,
        FiniteSetTheorems, SequenceTheorems, WellFoundedInduction, TLAPS

-----------------------------------------------------------------------------
(* The tasks of agents.                                                    *)

\* A heartbeat that has not listed its tasks has no answer yet, so that the
\* handler that starts from it forgets nobody who was named.
AnswersAreBuilt == \A b \in Heartbeats : atBeat[b].pc # "mark" => atBeat[b].answer = {}

\* What nobody was to start yet was handed to nobody.
DueWasKept == \A t \in TaskIDs : atState[t] \in {"none", "pending"} => atHanded[t] = 0

\* An open task stream named a task that exists.
OpenNamesTask ==
    \A x \in TaskStreams :
        atStream[x].pc = "open" => atStream[x].task \in TaskIDs /\ atState[atStream[x].task] # "none"

AtTInv == AtTypeOK /\ OpenNamesTask

\* The inductive invariant: HandedOnce needs to know that a task that is due was
\* not handed out before, StartedWasHanded that no answer is overwritten.
AtIInv ==
    /\ AtTInv /\ HandedOnce /\ StartedWasHanded /\ StreamsAreOpen
    /\ AnswersAreBuilt /\ DueWasKept

\* A service without agents and tasks satisfies it.
LEMMA AtInitIInv == AtInit => AtIInv
  BY AtAssumption DEF AtInit, AtIInv, AtTInv, AtTypeOK, OpenNamesTask, HandedOnce, StartedWasHanded, StreamsAreOpen,
     AnswersAreBuilt, DueWasKept, NoBeat, NoTaskStream

\* The handlers, as AtTypeOK has them.
BeatStates == [Heartbeats -> [pc : {"idle", "list", "mark"}, of : WorkerIDs \cup {0},
                              left : SUBSET TaskIDs, answer : SUBSET TaskIDs]]

\* What ListAgentTasks and HandOut do to a handler leaves a handler.
LEMMA BeatLists ==
    ASSUME atBeat \in BeatStates, NEW b \in Heartbeats, NEW S \in SUBSET TaskIDs
    PROVE  [atBeat EXCEPT ![b].pc = "mark", ![b].left = S] \in BeatStates
<1> DEFINE r == [atBeat[b] EXCEPT !.pc = "mark", !.left = S]
<1>1. r \in [pc : {"idle", "list", "mark"}, of : WorkerIDs \cup {0}, left : SUBSET TaskIDs, answer : SUBSET TaskIDs]
  BY DEF BeatStates
<1>2. [atBeat EXCEPT ![b].pc = "mark", ![b].left = S] = [atBeat EXCEPT ![b] = r]
  BY DEF BeatStates
<1> HIDE DEF r
<1> QED
  BY <1>1, <1>2 DEF BeatStates

\* A heartbeat that goes on to the next task of its list stays typed.
LEMMA BeatNames ==
    ASSUME atBeat \in BeatStates, NEW b \in Heartbeats, NEW t \in TaskIDs, NEW due
    PROVE  [atBeat EXCEPT ![b].left = @ \ {t}, ![b].answer = IF due THEN @ \cup {t} ELSE @]
             \in BeatStates
<1> DEFINE n == IF due THEN atBeat[b].answer \cup {t} ELSE atBeat[b].answer
<1> DEFINE r == [atBeat[b] EXCEPT !.left = @ \ {t}, !.answer = n]
<1>1. /\ atBeat[b] \in [pc : {"idle", "list", "mark"}, of : WorkerIDs \cup {0}, left : SUBSET TaskIDs, answer : SUBSET TaskIDs]
      /\ n \in SUBSET TaskIDs
  BY DEF BeatStates
<1>2. [atBeat EXCEPT ![b].left = @ \ {t}, ![b].answer = IF due THEN @ \cup {t} ELSE @] = [atBeat EXCEPT ![b] = r]
  BY DEF BeatStates
<1> HIDE DEF n
<1>3. r \in [pc : {"idle", "list", "mark"}, of : WorkerIDs \cup {0}, left : SUBSET TaskIDs, answer : SUBSET TaskIDs]
  BY <1>1
<1> HIDE DEF r
<1> QED
  BY <1>2, <1>3 DEF BeatStates

\* Every step preserves the types and the owners of the tasks.
LEMMA AtTypeStep == AtTInv /\ [AtNext]_atVars => AtTInv'
<1> SUFFICES ASSUME AtTInv, [AtNext]_atVars PROVE AtTInv'
  OBVIOUS
<1> USE AtAssumption DEF AtTInv, AtTypeOK, OpenNamesTask, RegisteredAgents, NoBeat, NoTaskStream, SetCancelled
<1>0. atBeat \in BeatStates
  BY DEF BeatStates
<1>1. ASSUME NEW w \in WorkerIDs, RegisterAgent(w) \/ UnregisterAgent(w) PROVE AtTInv'
  BY <1>1, SMTT(20) DEF RegisterAgent, UnregisterAgent
<1>2. ASSUME NEW t \in TaskIDs, NEW w \in WorkerIDs, ExecuteAgentTask(t, w) PROVE AtTInv'
  BY <1>2 DEF ExecuteAgentTask
<1>3. ASSUME NEW b \in Heartbeats, NEW w \in WorkerIDs, BeginHeartbeat(b, w) PROVE AtTInv'
  BY <1>3 DEF BeginHeartbeat
<1>4. ASSUME NEW b \in Heartbeats, ListAgentTasks(b) PROVE AtTInv'
  <2>1. atBeat' \in BeatStates
    <3> DEFINE listed == IF atBeat[b].of \in RegisteredAgents
                         THEN {t \in TaskIDs : atOwner[t] = atBeat[b].of} ELSE {}
    <3>1. atBeat' = [atBeat EXCEPT ![b].pc = "mark", ![b].left = listed]
      BY <1>4 DEF ListAgentTasks
    <3>2. listed \in SUBSET TaskIDs
      OBVIOUS
    <3> HIDE DEF listed
    <3> QED
      BY <1>0, <3>1, <3>2, BeatLists
  <2> QED
    BY <1>4, <2>1 DEF ListAgentTasks, BeatStates
<1>5. ASSUME NEW b \in Heartbeats, NEW t \in TaskIDs, HandOut(b, t) PROVE AtTInv'
  <2>1. atBeat' \in BeatStates
    <3> DEFINE due == atState[t] = "pending"
    <3>1. atBeat' = [atBeat EXCEPT ![b].left = @ \ {t}, ![b].answer = IF due THEN @ \cup {t} ELSE @]
      BY <1>5 DEF HandOut
    <3> HIDE DEF due
    <3> QED
      BY <1>0, <3>1, BeatNames
  <2>2. /\ atState' \in [TaskIDs -> {"none", "pending", "started", "cancelled"}]
        /\ \A u \in TaskIDs : atState'[u] = "none" <=> atState[u] = "none"
        /\ atHanded' \in [TaskIDs -> Nat]
    BY <1>5 DEF HandOut
  <2> QED
    BY <1>5, <2>1, <2>2 DEF HandOut, BeatStates
<1>6. ASSUME NEW b \in Heartbeats, NEW arrives \in BOOLEAN, AnswerHeartbeat(b, arrives) PROVE AtTInv'
  BY <1>6 DEF AnswerHeartbeat
<1>7. ASSUME NEW t \in TaskIDs, CancelAgentTask(t) PROVE AtTInv'
  BY <1>7 DEF CancelAgentTask
<1>8. ASSUME NEW x \in TaskStreams, OpenTaskStream(x) \/ EndTaskStream(x) \/ CancelByStream(x) PROVE AtTInv'
  <2>1. CASE OpenTaskStream(x)
    BY <2>1 DEF OpenTaskStream
  <2>2. CASE EndTaskStream(x)
    BY <2>2 DEF EndTaskStream
  <2>3. CASE CancelByStream(x)
    BY <2>3 DEF CancelByStream
  <2> QED
    BY <1>8, <2>1, <2>2, <2>3
<1>9. ASSUME NEW x \in TaskStreams, NEW t \in TaskIDs, NameTask(x, t) PROVE AtTInv'
  BY <1>9 DEF NameTask
<1>10. CASE CloseAgentService
  BY <1>10 DEF CloseAgentService
<1>11. CASE UNCHANGED atVars
  BY <1>11 DEF atVars
<1> QED
  BY <1>1, <1>2, <1>3, <1>4, <1>5, <1>6, <1>7, <1>8, <1>9, <1>10, <1>11 DEF AtNext

\* Every step preserves the invariant.
LEMMA AtStep == AtIInv /\ [AtNext]_atVars => AtIInv'
<1> SUFFICES ASSUME AtIInv, [AtNext]_atVars PROVE AtIInv'
  OBVIOUS
<1> DEFINE Rest == HandedOnce /\ StartedWasHanded /\ StreamsAreOpen /\ AnswersAreBuilt /\ DueWasKept
<1>1. AtTInv /\ AtTInv'
  BY AtTypeStep DEF AtIInv
<1>2. Rest
  BY DEF AtIInv
<1> HIDE DEF Rest
<1> SUFFICES Rest'
  BY <1>1 DEF AtIInv, Rest
<1>3. \A b \in Heartbeats : atBeat[b].answer \subseteq TaskIDs /\ atBeat[b].left \subseteq TaskIDs
  BY <1>1 DEF AtTInv, AtTypeOK
\* What a step leaves alone that touches none of the variables a part reads.
<1>4. ASSUME UNCHANGED <<atState, atBeat, atHanded, atReached, atMissed, atStream, atStreams>>
      PROVE  Rest'
  BY <1>2, <1>4 DEF Rest, HandedOnce, StartedWasHanded, StreamsAreOpen, AnswersAreBuilt, DueWasKept
<1>5. ASSUME NEW w \in WorkerIDs, RegisterAgent(w) \/ UnregisterAgent(w) PROVE Rest'
  BY <1>4, <1>5 DEF RegisterAgent, UnregisterAgent
<1>6. ASSUME NEW t \in TaskIDs, NEW w \in WorkerIDs, ExecuteAgentTask(t, w) PROVE Rest'
  BY <1>1, <1>2, <1>6 DEF ExecuteAgentTask, Rest, HandedOnce, StartedWasHanded, StreamsAreOpen,
     AnswersAreBuilt, DueWasKept, AtTInv, AtTypeOK
<1>7. ASSUME NEW b \in Heartbeats, NEW w \in WorkerIDs, BeginHeartbeat(b, w) PROVE Rest'
  <2>1. /\ atBeat'[b] = [pc |-> "list", of |-> w, left |-> {}, answer |-> {}]
        /\ \A c \in Heartbeats \ {b} : atBeat'[c] = atBeat[c]
        /\ atBeat[b].answer = {}
    BY <1>1, <1>2, <1>7, ZenonT(40) DEF BeginHeartbeat, Rest, AnswersAreBuilt, AtTInv, AtTypeOK, NoBeat
  <2>2. \A c \in Heartbeats : atBeat'[c].answer = atBeat[c].answer
    BY <2>1
  <2>3. AnswersAreBuilt'
    BY <1>2, <2>1 DEF Rest, AnswersAreBuilt
  <2>4. UNCHANGED <<atState, atHanded, atReached, atMissed, atStream, atStreams>>
    BY <1>7 DEF BeginHeartbeat
  <2> QED
    BY <1>2, <2>2, <2>3, <2>4 DEF Rest, HandedOnce, StartedWasHanded, StreamsAreOpen, DueWasKept
<1>8. ASSUME NEW b \in Heartbeats, ListAgentTasks(b) PROVE Rest'
  <2>1. PICK listed : atBeat' = [atBeat EXCEPT ![b].pc = "mark", ![b].left = listed]
    BY <1>8 DEF ListAgentTasks
  <2>2. /\ atBeat'[b].pc = "mark" /\ \A c \in Heartbeats \ {b} : atBeat'[c] = atBeat[c]
        /\ \A c \in Heartbeats : atBeat'[c].answer = atBeat[c].answer
    BY <1>1, <2>1 DEF AtTInv, AtTypeOK
  <2>3. AnswersAreBuilt'
    BY <1>2, <2>2 DEF Rest, AnswersAreBuilt
  <2>4. UNCHANGED <<atState, atHanded, atReached, atMissed, atStream, atStreams>>
    BY <1>8 DEF ListAgentTasks
  <2> QED
    BY <1>2, <2>2, <2>3, <2>4 DEF Rest, HandedOnce, StartedWasHanded, StreamsAreOpen, DueWasKept
<1>9. ASSUME NEW b \in Heartbeats, NEW t \in TaskIDs, HandOut(b, t) PROVE Rest'
  <2>1. /\ atBeat[b].pc = "mark" /\ atBeat'[b].pc = "mark"
        /\ \A c \in Heartbeats \ {b} : atBeat'[c] = atBeat[c]
        /\ UNCHANGED <<atReached, atMissed, atStream, atStreams>>
    BY <1>1, <1>9 DEF HandOut, AtTInv, AtTypeOK
  <2>2. CASE atState[t] = "pending"
    <3>1. /\ atState' = [atState EXCEPT ![t] = "started"]
          /\ atHanded' = [atHanded EXCEPT ![t] = @ + 1]
          /\ atBeat'[b].answer = atBeat[b].answer \cup {t}
      BY <1>1, <1>9, <2>2 DEF HandOut, AtTInv, AtTypeOK
    <3>2. atHanded[t] = 0 /\ atHanded'[t] = 1
      BY <1>1, <1>2, <2>2, <3>1 DEF Rest, DueWasKept, AtTInv, AtTypeOK
    <3>3. /\ \A u \in TaskIDs \ {t} : atHanded'[u] = atHanded[u] /\ atState'[u] = atState[u]
          /\ \A c \in Heartbeats : \A u \in TaskIDs \ {t} : u \in atBeat'[c].answer <=> u \in atBeat[c].answer
      BY <1>1, <2>1, <3>1 DEF AtTInv, AtTypeOK
    <3>4. StartedWasHanded'
      BY <1>2, <2>1, <3>1, <3>2, <3>3 DEF Rest, StartedWasHanded
    <3>5. HandedOnce' /\ DueWasKept'
      BY <1>1, <1>2, <3>1, <3>2, <3>3 DEF Rest, HandedOnce, DueWasKept, AtTInv, AtTypeOK
    <3> QED
      BY <1>2, <2>1, <3>4, <3>5 DEF Rest, StreamsAreOpen, AnswersAreBuilt
  <2>3. CASE atState[t] # "pending"
    <3>1. /\ UNCHANGED <<atState, atHanded>>
          /\ atBeat'[b].answer = atBeat[b].answer
      BY <1>1, <1>9, <2>3 DEF HandOut, AtTInv, AtTypeOK
    <3>2. \A c \in Heartbeats : atBeat'[c].answer = atBeat[c].answer
      BY <2>1, <3>1
    <3> QED
      BY <1>2, <2>1, <3>1, <3>2 DEF Rest, HandedOnce, StartedWasHanded, StreamsAreOpen, AnswersAreBuilt, DueWasKept
  <2> QED
    BY <2>2, <2>3
<1>10. ASSUME NEW b \in Heartbeats, NEW arrives \in BOOLEAN, AnswerHeartbeat(b, arrives) PROVE Rest'
  <2>1. /\ atBeat'[b].answer = {} /\ atBeat'[b].pc = "idle"
        /\ \A c \in Heartbeats \ {b} : atBeat'[c] = atBeat[c]
        /\ atReached' \cup atMissed' = (atReached \cup atMissed) \cup atBeat[b].answer
        /\ UNCHANGED <<atState, atHanded, atStream, atStreams>>
    BY <1>1, <1>10 DEF AnswerHeartbeat, AtTInv, AtTypeOK, NoBeat
  <2>2. StartedWasHanded'
    BY <1>2, <2>1 DEF Rest, StartedWasHanded
  <2> QED
    BY <1>2, <2>1, <2>2 DEF Rest, HandedOnce, StreamsAreOpen, AnswersAreBuilt, DueWasKept
<1>11. ASSUME NEW t \in TaskIDs, CancelAgentTask(t) PROVE Rest'
  BY <1>1, <1>2, <1>11 DEF CancelAgentTask, SetCancelled, Rest, HandedOnce, StartedWasHanded, StreamsAreOpen,
     AnswersAreBuilt, DueWasKept, AtTInv, AtTypeOK
<1>12. ASSUME NEW x \in TaskStreams, OpenTaskStream(x) \/ EndTaskStream(x) PROVE Rest'
  <2>1. StreamsAreOpen'
    BY <1>1, <1>2, <1>12 DEF OpenTaskStream, EndTaskStream, Rest, StreamsAreOpen, AtTInv, AtTypeOK
  <2>2. UNCHANGED <<atState, atBeat, atHanded, atReached, atMissed>>
    BY <1>12 DEF OpenTaskStream, EndTaskStream
  <2> QED
    BY <1>2, <2>1, <2>2 DEF Rest, HandedOnce, StartedWasHanded, AnswersAreBuilt, DueWasKept
<1>13. ASSUME NEW x \in TaskStreams, CancelByStream(x) PROVE Rest'
  BY <1>1, <1>2, <1>13 DEF CancelByStream, SetCancelled, Rest, HandedOnce, StartedWasHanded, StreamsAreOpen,
     AnswersAreBuilt, DueWasKept, AtTInv, AtTypeOK, OpenNamesTask
<1>14. ASSUME NEW x \in TaskStreams, NEW t \in TaskIDs, NameTask(x, t) PROVE Rest'
  BY <1>1, <1>2, <1>14 DEF NameTask, Rest, HandedOnce, StartedWasHanded, StreamsAreOpen,
     AnswersAreBuilt, DueWasKept, AtTInv, AtTypeOK
<1>15. CASE CloseAgentService
  BY <1>1, <1>2, <1>15 DEF CloseAgentService, Rest, HandedOnce, StartedWasHanded, StreamsAreOpen,
     AnswersAreBuilt, DueWasKept
<1>16. CASE UNCHANGED atVars
  BY <1>4, <1>16 DEF atVars
<1> QED
  BY <1>5, <1>6, <1>7, <1>8, <1>9, <1>10, <1>11, <1>12, <1>13, <1>14, <1>15, <1>16 DEF AtNext

\* Nothing hands out or restarts a canceled task: HandOut finds it not pending,
\* and ExecuteTask only meets new tasks.
LEMMA AtCancelledStep ==
    ASSUME AtIInv, [AtNext]_atVars, NEW t \in TaskIDs, atState[t] = "cancelled"
    PROVE  atState'[t] = "cancelled" /\ atHanded'[t] = atHanded[t]
<1> USE DEF AtIInv, AtTInv, AtTypeOK
<1>1. ASSUME NEW u \in TaskIDs, NEW w \in WorkerIDs, ExecuteAgentTask(u, w)
      PROVE  atState'[t] = "cancelled" /\ atHanded'[t] = atHanded[t]
  BY <1>1 DEF ExecuteAgentTask
<1>2. ASSUME NEW b \in Heartbeats, NEW u \in TaskIDs, HandOut(b, u)
      PROVE  atState'[t] = "cancelled" /\ atHanded'[t] = atHanded[t]
  BY <1>2 DEF HandOut
<1>3. ASSUME NEW u \in TaskIDs, CancelAgentTask(u)
      PROVE  atState'[t] = "cancelled" /\ atHanded'[t] = atHanded[t]
  BY <1>3 DEF CancelAgentTask, SetCancelled
<1>4. ASSUME NEW x \in TaskStreams, CancelByStream(x)
      PROVE  atState'[t] = "cancelled" /\ atHanded'[t] = atHanded[t]
  BY <1>4 DEF CancelByStream, SetCancelled, OpenNamesTask
<1>5. ASSUME UNCHANGED <<atState, atHanded>>
      PROVE  atState'[t] = "cancelled" /\ atHanded'[t] = atHanded[t]
  BY <1>5
<1> QED
  BY <1>1, <1>2, <1>3, <1>4, <1>5 DEF AtNext, atVars, RegisterAgent, UnregisterAgent, BeginHeartbeat,
     ListAgentTasks, AnswerHeartbeat, OpenTaskStream, EndTaskStream, NameTask, CloseAgentService

\* However heartbeats of the same agent, cancellations, streams and the end of
\* agents overlap, and whichever answers are lost: no task is handed to a worker
\* twice, none is started without anybody being told, a canceled one stays so, and
\* no stream outlives its handler in AgentService.streams (agent_service.go:702).
THEOREM AgentTasksStaySafe == AtSpec => AgentTasksSafe
<1>1. AtIInv => AtTypeOK /\ HandedOnce /\ StartedWasHanded /\ StreamsAreOpen
  BY DEF AtIInv, AtTInv
<1>2. AtIInv /\ [AtNext]_atVars =>
        [\A t \in TaskIDs : atState[t] = "cancelled" =>
            atState'[t] = "cancelled" /\ atHanded'[t] = atHanded[t]]_atVars
  BY AtCancelledStep
<1> QED
  BY AtInitIInv, AtStep, <1>1, <1>2, PTL DEF AtSpec, AgentTasksSafe, CancelledStays

-----------------------------------------------------------------------------
(* The executions of tools.                                                *)

\* An execution is known to the registry once its call has added it.
AddedHasStatus == \A e \in Execs : tsCall[e].pc \in {"new", "add"} <=> tsStatus[e] = "none"

\* Only the executor's part of a call has its execution running.
RunningIsExecuted == \A e \in Execs : tsStatus[e] = "running" => tsCall[e].pc = "execute"

\* A call that is past the executor has left an end state or a cancellation.
EndedIsInactive ==
    tsExecutor => \A e \in Execs : tsCall[e].pc \in {"look", "record", "done"} => tsStatus[e] \notin ActiveStates

\* What a call records, and on what.
RecordHasResult ==
    \A e \in Execs :
        /\ tsCall[e].pc \in {"look", "record"} => tsResult[e] \in EndStates
        /\ tsCall[e].pc = "record" => tsCall[e].of \in ToolObjects

\* What DisableTool found running does not start again.
SeenHasStarted ==
    \A d \in Disablers : \A e \in tsDisable[d].seen : tsCall[e].pc \notin {"new", "add", "start"}

\* DisableTool is about to cancel one execution at most, one that was added.
SweepsOne ==
    \A d \in Disablers :
        /\ tsDisable[d].pc # "cancel" => tsDisable[d].at = {}
        /\ \A e, f \in tsDisable[d].at : e = f
        /\ \A e \in tsDisable[d].at : tsStatus[e] # "none"

\* Only finitely many calls have returned at any time.
CountedIsFinite == \A o \in ToolObjects : IsFiniteSet(CountedOn(o, EndStates))

\* The inductive invariant: StatsMatch needs to know what the calls that are about
\* to record will count, DisableStopsRunning that a running call does not start again.
TsIInv ==
    /\ TsTypeOK /\ AddedHasStatus /\ RunningIsExecuted /\ EndedIsInactive /\ RecordHasResult
    /\ SeenHasStarted /\ SweepsOne /\ CountedIsFinite
    /\ StatsMatch /\ DisableStopsRunning /\ ToolStreamsAreOpen

\* A service without executions satisfies it.
LEMMA TsInitIInv == TsInit => TsIInv
<1> SUFFICES ASSUME TsInit PROVE TsIInv
  OBVIOUS
<1> USE TsAssumption DEF TsInit
<1>1. \A o, R : CountedOn(o, R) = {}
  BY DEF CountedOn
<1>2. CountedIsFinite /\ StatsMatch
  BY <1>1, FS_EmptySet DEF CountedIsFinite, StatsMatch
<1>3. TsTypeOK
  <2>1. 0 \in 0..MaxObjects /\ 0 = 0 + 0 /\ 0 \in 0..0
    OBVIOUS
  <2> QED
    BY <2>1 DEF TsTypeOK
<1> QED
  BY <1>2, <1>3 DEF TsIInv, AddedHasStatus, RunningIsExecuted, EndedIsInactive, RecordHasResult, SeenHasStarted,
     SweepsOne, DisableStopsRunning, ToolStreamsAreOpen, ActiveStates

\* A call that returned is counted on its object, and on no other.
LEMMA TsCountOne ==
    ASSUME TsIInv, NEW e \in Execs, CountExecution(e), NEW o \in ToolObjects, NEW R \in SUBSET EndStates
    PROVE  CountedOn(o, R)' =
              IF o = tsCall[e].of /\ tsResult[e] \in R THEN CountedOn(o, R) \cup {e} ELSE CountedOn(o, R)
<1>1. /\ tsCall[e].pc = "record" /\ tsCall'[e].pc = "done" /\ tsCall'[e].of = tsCall[e].of
      /\ \A f \in Execs \ {e} : tsCall'[f] = tsCall[f]
      /\ tsResult' = tsResult
  BY DEF CountExecution, CallGoes, TsIInv, TsTypeOK
<1> QED
  BY <1>1 DEF CountedOn

\* A step that records nothing leaves the statistics and what they count.
LEMMA TsCountKept ==
    ASSUME TsIInv, UNCHANGED statVars,
           \A o \in ToolObjects : \A R \in SUBSET EndStates : CountedOn(o, R)' = CountedOn(o, R)
    PROVE  StatsMatch' /\ CountedIsFinite'
  BY DEF TsIInv, StatsMatch, CountedIsFinite, statVars, EndStates

\* The DisableTool calls, as TsTypeOK has them.
SweepStates == [Disablers -> [pc : {"new", "list", "sweep", "cancel"}, left : SUBSET Execs, at : SUBSET Execs,
                              seen : SUBSET Execs]]

\* A DisableTool call that begins its sweep stays typed.
LEMMA SweepLists ==
    ASSUME tsDisable \in SweepStates, NEW d \in Disablers, NEW S \in SUBSET Execs
    PROVE  [tsDisable EXCEPT ![d].pc = "sweep", ![d].left = S] \in SweepStates
  BY DEF SweepStates

\* Every step preserves the types.
LEMMA TsTypeStep == TsIInv /\ [TsNext]_tsVars => TsTypeOK'
<1> SUFFICES ASSUME TsIInv, [TsNext]_tsVars PROVE TsTypeOK'
  OBVIOUS
<1> USE TsAssumption DEF CallGoes, regVars, statVars, execVars, watchVars, SetCanceled
<1>0. TsTypeOK /\ RecordHasResult
  BY DEF TsIInv
<1>1. ASSUME NEW enabled \in BOOLEAN, NEW force \in BOOLEAN, EnterTool(enabled, force) PROVE TsTypeOK'
  BY <1>0, <1>1 DEF EnterTool, TsTypeOK, ToolObjects
<1>2. CASE RemoveTool
  <2>1. tsTool' \in 0..tsMade'
    BY <1>0, <1>2 DEF RemoveTool, TsTypeOK
  <2> QED
    BY <1>0, <1>2, <2>1 DEF RemoveTool, TsTypeOK
<1>3. ASSUME NEW enabled \in BOOLEAN, SetEnabled(enabled) PROVE TsTypeOK'
  BY <1>0, <1>3 DEF SetEnabled, TsTypeOK, ToolObjects
<1>4. ASSUME NEW d \in Disablers, DisableTool(d) PROVE TsTypeOK'
  BY <1>0, <1>4, ZenonT(40) DEF DisableTool, TsTypeOK
<1>5. ASSUME NEW d \in Disablers, ListExecutions(d) PROVE TsTypeOK'
  <2>1. PICK listed \in SUBSET Execs : tsDisable' = [tsDisable EXCEPT ![d].pc = "sweep", ![d].left = listed]
    BY <1>5 DEF ListExecutions
  <2>2. tsDisable \in SweepStates
    BY <1>0 DEF TsTypeOK, SweepStates
  <2>3. tsDisable' \in SweepStates
    BY <2>1, <2>2, SweepLists
  <2> QED
    BY <1>0, <1>5, <2>3 DEF ListExecutions, TsTypeOK, SweepStates
<1>6. ASSUME NEW d \in Disablers, NEW e \in Execs, SweepExecution(d, e) PROVE TsTypeOK'
  BY <1>0, <1>6 DEF SweepExecution, TsTypeOK
<1>7. ASSUME NEW d \in Disablers, NEW e \in Execs, SweepCancel(d, e) PROVE TsTypeOK'
  BY <1>0, <1>7 DEF SweepCancel, TsTypeOK
<1>8. ASSUME NEW e \in Execs, CheckTool(e) PROVE TsTypeOK'
  BY <1>0, <1>8 DEF CheckTool, TsTypeOK
<1>9. ASSUME NEW e \in Execs, AddExecution(e) PROVE TsTypeOK'
  BY <1>0, <1>9 DEF AddExecution, TsTypeOK, ActiveStates
<1>10. ASSUME NEW e \in Execs, StartExecution(e) PROVE TsTypeOK'
  BY <1>0, <1>10 DEF StartExecution, TsTypeOK, ActiveStates
<1>11. ASSUME NEW e \in Execs, ExecutionFails(e) PROVE TsTypeOK'
  BY <1>0, <1>11 DEF ExecutionFails, TsTypeOK, EndStates
<1>12. ASSUME NEW e \in Execs, NEW result \in EndStates, ExecutionEnds(e, result) PROVE TsTypeOK'
  BY <1>0, <1>12 DEF ExecutionEnds, TsTypeOK
<1>13. ASSUME NEW e \in Execs, LookForTool(e) PROVE TsTypeOK'
  BY <1>0, <1>13 DEF LookForTool, TsTypeOK
<1>14. ASSUME NEW e \in Execs, CountExecution(e) PROVE TsTypeOK'
  <2> DEFINE o == tsCall[e].of
  <2>1. o \in ToolObjects /\ tsCall' \in [Execs -> [pc : {"new", "add", "start", "execute", "look", "record", "done"},
                                                    of : 0..MaxObjects]]
    BY <1>0, <1>14 DEF CountExecution, TsTypeOK, RecordHasResult
  <2>2. /\ tsTotal' = [tsTotal EXCEPT ![o] = @ + 1]
        /\ \/ tsGood' = [tsGood EXCEPT ![o] = @ + 1] /\ tsBad' = tsBad
           \/ tsGood' = tsGood /\ tsBad' = [tsBad EXCEPT ![o] = @ + 1]
    BY <1>14 DEF CountExecution
  <2> HIDE DEF o
  <2>3. /\ tsTotal' \in [ToolObjects -> Nat] /\ tsGood' \in [ToolObjects -> Nat] /\ tsBad' \in [ToolObjects -> Nat]
        /\ \A p \in ToolObjects : tsTotal'[p] = tsGood'[p] + tsBad'[p]
    <3>1. /\ tsTotal \in [ToolObjects -> Nat] /\ tsGood \in [ToolObjects -> Nat] /\ tsBad \in [ToolObjects -> Nat]
          /\ \A p \in ToolObjects : tsTotal[p] = tsGood[p] + tsBad[p]
      BY <1>0 DEF TsTypeOK
    <3>2. CASE tsGood' = [tsGood EXCEPT ![o] = @ + 1] /\ tsBad' = tsBad
      BY <2>1, <2>2, <3>1, <3>2
    <3>3. CASE tsGood' = tsGood /\ tsBad' = [tsBad EXCEPT ![o] = @ + 1]
      BY <2>1, <2>2, <3>1, <3>3
    <3> QED
      BY <2>2, <3>2, <3>3
  <2> QED
    BY <1>0, <1>14, <2>1, <2>3 DEF CountExecution, TsTypeOK
<1>15. ASSUME NEW e \in Execs, CancelExecution(e) PROVE TsTypeOK'
  BY <1>0, <1>15 DEF CancelExecution, TsTypeOK
<1>16. ASSUME NEW x \in ToolStreams, OpenToolStream(x) PROVE TsTypeOK'
  BY <1>0, <1>16 DEF OpenToolStream, TsTypeOK
<1>17. ASSUME NEW x \in ToolStreams, EndToolStream(x) PROVE TsTypeOK'
  BY <1>0, <1>17 DEF EndToolStream, TsTypeOK
<1>18. ASSUME NEW x \in ToolStreams, NEW e \in Execs, CancelByToolStream(x, e) PROVE TsTypeOK'
  BY <1>0, <1>18 DEF CancelByToolStream, TsTypeOK
<1>19. CASE CloseToolService
  BY <1>0, <1>19 DEF CloseToolService, TsTypeOK
<1>20. CASE UNCHANGED tsVars
  BY <1>0, <1>20 DEF tsVars, TsTypeOK
<1> QED
  BY <1>1, <1>2, <1>3, <1>4, <1>5, <1>6, <1>7, <1>8, <1>9, <1>10, <1>11, <1>12, <1>13, <1>14, <1>15, <1>16,
     <1>17, <1>18, <1>19, <1>20 DEF TsNext

\* Every step preserves the invariant.
LEMMA TsStep == TsIInv /\ [TsNext]_tsVars => TsIInv'
<1> SUFFICES ASSUME TsIInv, [TsNext]_tsVars PROVE TsIInv'
  OBVIOUS
<1> DEFINE Calls == AddedHasStatus /\ RunningIsExecuted /\ EndedIsInactive /\ RecordHasResult
           Stats == CountedIsFinite /\ StatsMatch
           Sweeps == SeenHasStarted /\ SweepsOne /\ DisableStopsRunning
<1>1. TsTypeOK /\ TsTypeOK' /\ Calls /\ Stats /\ Sweeps /\ ToolStreamsAreOpen
  BY TsTypeStep DEF TsIInv
<1> SUFFICES Calls' /\ Stats' /\ Sweeps' /\ ToolStreamsAreOpen'
  BY <1>1 DEF TsIInv
<1>0. \A d \in Disablers : tsDisable[d].seen \subseteq Execs /\ tsDisable[d].at \subseteq Execs
  BY <1>1 DEF TsTypeOK
<1>2. ASSUME UNCHANGED <<tsCall, tsStatus, tsExecutor, tsResult>> PROVE Calls'
  BY <1>1, <1>2 DEF AddedHasStatus, RunningIsExecuted, EndedIsInactive, RecordHasResult
<1>3. ASSUME UNCHANGED <<tsCall, tsResult, statVars>> PROVE Stats'
  <2>1. \A o, R : CountedOn(o, R)' = CountedOn(o, R)
    BY <1>3 DEF CountedOn
  <2> QED
    BY <1>3, <2>1, TsCountKept
<1>4. ASSUME UNCHANGED <<tsCall, tsStatus, tsDisable>> PROVE Sweeps'
  BY <1>1, <1>4 DEF SeenHasStarted, SweepsOne, DisableStopsRunning
<1>5. ASSUME UNCHANGED watchVars PROVE ToolStreamsAreOpen'
  BY <1>1, <1>5 DEF ToolStreamsAreOpen, watchVars
<1>6. ASSUME UNCHANGED <<tsExecutor, execVars, tsDisable, statVars, watchVars>>
      PROVE  Calls' /\ Stats' /\ Sweeps' /\ ToolStreamsAreOpen'
  <2>1. UNCHANGED <<tsExecutor, tsCall, tsStatus, tsResult, tsDisable, statVars, watchVars>>
    BY <1>6 DEF execVars
  <2> QED
    BY <2>1, <1>2, <1>3, <1>4, <1>5
\* The steps of the sweep, and a cancellation, touch no call.
<1>7. ASSUME NEW e \in Execs, tsStatus[e] # "none", SetCanceled(e), UNCHANGED <<tsExecutor, tsCall, tsResult>>
      PROVE  Calls'
  BY <1>1, <1>7 DEF SetCanceled, AddedHasStatus, RunningIsExecuted, EndedIsInactive, RecordHasResult, TsTypeOK, ActiveStates
<1>8. ASSUME NEW e \in Execs, SetCanceled(e), UNCHANGED <<tsCall, tsDisable>> PROVE Sweeps'
  BY <1>1, <1>8 DEF SetCanceled, SeenHasStarted, SweepsOne, DisableStopsRunning, TsTypeOK, ActiveStates
<1>9. ASSUME NEW d \in Disablers, DisableTool(d) PROVE Sweeps'
  BY <1>1, <1>9 DEF DisableTool, execVars, SeenHasStarted, SweepsOne, DisableStopsRunning, TsTypeOK
<1>10. ASSUME NEW d \in Disablers, ListExecutions(d) PROVE Sweeps'
  <2>1. PICK listed \in SUBSET Execs : tsDisable' = [tsDisable EXCEPT ![d].pc = "sweep", ![d].left = listed]
    BY <1>10 DEF ListExecutions
  <2> QED
    <3>1. /\ \A c \in Disablers : tsDisable'[c].seen = tsDisable[c].seen /\ tsDisable'[c].at = tsDisable[c].at
          /\ \A c \in Disablers \ {d} : tsDisable'[c] = tsDisable[c]
          /\ tsDisable[d].pc = "list" /\ UNCHANGED <<tsCall, tsStatus>>
      <4>1. tsDisable \in SweepStates
        BY <1>1 DEF TsTypeOK, SweepStates
      <4>2. /\ \A c \in Disablers : tsDisable'[c].seen = tsDisable[c].seen /\ tsDisable'[c].at = tsDisable[c].at
            /\ \A c \in Disablers \ {d} : tsDisable'[c] = tsDisable[c]
        BY <4>1, <2>1 DEF SweepStates
      <4> QED
        BY <1>10, <4>2 DEF ListExecutions, execVars
    <3> QED
      BY <1>1, <3>1 DEF SeenHasStarted, SweepsOne, DisableStopsRunning
<1>11. ASSUME NEW d \in Disablers, NEW e \in Execs, SweepExecution(d, e) PROVE Sweeps'
  <2>1. /\ tsDisable[d].pc = "sweep" /\ tsDisable[d].at = {}
        /\ \A c \in Disablers \ {d} : tsDisable'[c] = tsDisable[c]
        /\ UNCHANGED <<tsCall, tsStatus>>
    BY <1>1, <1>11 DEF SweepExecution, SweepsOne, TsTypeOK, execVars
  <2>2. CASE tsStatus[e] \in ActiveStates
    <3>1. /\ tsDisable'[d].pc = "cancel" /\ tsDisable'[d].at = {e}
          /\ tsDisable'[d].seen = tsDisable[d].seen \cup (IF tsStatus[e] = "running" THEN {e} ELSE {})
      BY <1>1, <1>11, <2>2 DEF SweepExecution, TsTypeOK
    <3> QED
      BY <1>1, <2>1, <2>2, <3>1 DEF SeenHasStarted, SweepsOne, DisableStopsRunning, RunningIsExecuted, ActiveStates
  <2>3. CASE tsStatus[e] \notin ActiveStates
    <3>1. tsDisable'[d].pc = "sweep" /\ tsDisable'[d].at = {} /\ tsDisable'[d].seen = tsDisable[d].seen
      BY <1>1, <1>11, <2>1, <2>3 DEF SweepExecution, TsTypeOK, ActiveStates
    <3> QED
      BY <1>1, <2>1, <3>1 DEF SeenHasStarted, SweepsOne, DisableStopsRunning
  <2> QED
    BY <2>2, <2>3
<1>12. ASSUME NEW d \in Disablers, NEW e \in Execs, SweepCancel(d, e) PROVE tsStatus[e] # "none" /\ Sweeps'
  <2>1. /\ tsDisable'[d].pc = "sweep" /\ tsDisable'[d].at = {} /\ tsDisable'[d].seen = tsDisable[d].seen
        /\ e \in tsDisable[d].at
        /\ \A c \in Disablers \ {d} : tsDisable'[c] = tsDisable[c]
        /\ tsStatus' = [tsStatus EXCEPT ![e] = "cancelled"] /\ tsCall' = tsCall
    BY <1>1, <1>12 DEF SweepCancel, SetCanceled, TsTypeOK
  <2>2. tsDisable[d].at = {e} /\ tsStatus[e] # "none"
    BY <1>1, <2>1 DEF SweepsOne
  <2>3. \A f \in Execs : tsStatus'[f] = IF f = e THEN "cancelled" ELSE tsStatus[f]
    BY <1>1, <2>1 DEF TsTypeOK
  <2>4. SeenHasStarted' /\ SweepsOne'
    BY <1>1, <1>0, <2>1, <2>2, <2>3 DEF SeenHasStarted, SweepsOne
  <2>5. DisableStopsRunning'
    BY <1>1, <2>1, <2>2, <2>3 DEF DisableStopsRunning, ActiveStates
  <2> QED
    BY <2>2, <2>4, <2>5
<1>13. ASSUME NEW e \in Execs, CheckTool(e) PROVE Calls' /\ Stats' /\ Sweeps'
  <2>1. /\ tsCall[e].pc = "new" /\ tsCall'[e].pc = "add" /\ \A f \in Execs \ {e} : tsCall'[f] = tsCall[f]
        /\ UNCHANGED <<tsExecutor, tsStatus, tsResult, tsDisable, statVars>>
    BY <1>1, <1>13 DEF CheckTool, CallGoes, TsTypeOK
  <2>2. Calls' /\ Sweeps'
    BY <1>0, <1>1, <2>1 DEF AddedHasStatus, RunningIsExecuted, EndedIsInactive, RecordHasResult, SeenHasStarted, SweepsOne,
       DisableStopsRunning
  <2>3. \A o, R : CountedOn(o, R)' = CountedOn(o, R)
    BY <2>1 DEF CountedOn
  <2> QED
    BY <2>1, <2>2, <2>3, TsCountKept
<1>14. ASSUME NEW e \in Execs, AddExecution(e) PROVE Calls' /\ Stats' /\ Sweeps'
  <2>1. /\ tsCall[e].pc = "add" /\ tsCall'[e].of = 0 /\ \A f \in Execs \ {e} : tsCall'[f] = tsCall[f]
        /\ tsCall'[e].pc = IF tsExecutor THEN "start" ELSE "done"
        /\ tsStatus' = [tsStatus EXCEPT ![e] = "pending"]
        /\ UNCHANGED <<tsExecutor, tsResult, tsDisable, statVars>>
    BY <1>1, <1>14 DEF AddExecution, CallGoes, TsTypeOK
  <2>2. Calls'
    BY <1>1, <2>1 DEF AddedHasStatus, RunningIsExecuted, EndedIsInactive, RecordHasResult, TsTypeOK
  <2>3. Sweeps'
    <3>1. \A f \in Execs : tsStatus'[f] = IF f = e THEN "pending" ELSE tsStatus[f]
      BY <1>1, <2>1 DEF TsTypeOK
    <3>2. \A d \in Disablers : e \notin tsDisable[d].seen
      BY <1>1, <2>1 DEF SeenHasStarted
    <3> QED
      BY <1>0, <1>1, <2>1, <3>1, <3>2 DEF SeenHasStarted, SweepsOne, DisableStopsRunning
  <2>4. \A o \in ToolObjects : \A R : CountedOn(o, R)' = CountedOn(o, R)
    BY <2>1 DEF CountedOn, ToolObjects
  <2> QED
    BY <2>1, <2>2, <2>3, <2>4, TsCountKept
<1>15. ASSUME NEW e \in Execs, StartExecution(e) PROVE Calls' /\ Stats' /\ Sweeps'
  <2>1. /\ tsCall[e].pc = "start" /\ tsCall'[e].pc = "execute" /\ \A f \in Execs \ {e} : tsCall'[f] = tsCall[f]
        /\ tsStatus' = [tsStatus EXCEPT ![e] = "running"]
        /\ UNCHANGED <<tsExecutor, tsResult, tsDisable, statVars>>
    BY <1>1, <1>15 DEF StartExecution, CallGoes, TsTypeOK
  <2>2. Calls'
    BY <1>1, <2>1 DEF AddedHasStatus, RunningIsExecuted, EndedIsInactive, RecordHasResult, TsTypeOK
  <2>3. Sweeps'
    <3>1. \A f \in Execs : tsStatus'[f] = IF f = e THEN "running" ELSE tsStatus[f]
      BY <1>1, <2>1 DEF TsTypeOK
    <3>2. \A d \in Disablers : e \notin tsDisable[d].seen
      BY <1>1, <2>1 DEF SeenHasStarted
    <3> QED
      BY <1>0, <1>1, <2>1, <3>1, <3>2 DEF SeenHasStarted, SweepsOne, DisableStopsRunning
  <2>4. \A o, R : CountedOn(o, R)' = CountedOn(o, R)
    BY <2>1 DEF CountedOn
  <2> QED
    BY <2>1, <2>2, <2>3, <2>4, TsCountKept
<1>16. ASSUME NEW e \in Execs, ExecutionFails(e) PROVE Calls' /\ Stats' /\ Sweeps'
  <2>1. /\ tsCall[e].pc = "execute" /\ tsCall'[e].pc = "done" /\ tsCall'[e].of = 0
        /\ \A f \in Execs \ {e} : tsCall'[f] = tsCall[f]
        /\ tsStatus' = [tsStatus EXCEPT ![e] = "failed"]
        /\ UNCHANGED <<tsExecutor, tsResult, tsDisable, statVars>>
    BY <1>1, <1>16 DEF ExecutionFails, CallGoes, TsTypeOK
  <2>2. Calls'
    BY <1>1, <2>1 DEF AddedHasStatus, RunningIsExecuted, EndedIsInactive, RecordHasResult, TsTypeOK, ActiveStates
  <2>3. Sweeps'
    BY <1>1, <2>1, SMTT(20) DEF SeenHasStarted, SweepsOne, DisableStopsRunning, TsTypeOK, ActiveStates
  <2>4. \A o \in ToolObjects : \A R : CountedOn(o, R)' = CountedOn(o, R)
    BY <2>1 DEF CountedOn, ToolObjects
  <2> QED
    BY <2>1, <2>2, <2>3, <2>4, TsCountKept
<1>17. ASSUME NEW e \in Execs, NEW result \in EndStates, ExecutionEnds(e, result) PROVE Calls' /\ Stats' /\ Sweeps'
  <2>1. /\ tsCall[e].pc = "execute" /\ tsCall'[e].pc = "look" /\ \A f \in Execs \ {e} : tsCall'[f] = tsCall[f]
        /\ tsStatus' = [tsStatus EXCEPT ![e] = result] /\ tsResult' = [tsResult EXCEPT ![e] = result]
        /\ UNCHANGED <<tsExecutor, tsDisable, statVars>>
    BY <1>1, <1>17 DEF ExecutionEnds, CallGoes, TsTypeOK
  <2>2. Calls'
    BY <1>1, <2>1 DEF AddedHasStatus, RunningIsExecuted, EndedIsInactive, RecordHasResult, TsTypeOK, ActiveStates, EndStates
  <2>3. Sweeps'
    BY <1>1, <2>1 DEF SeenHasStarted, SweepsOne, DisableStopsRunning, TsTypeOK, ActiveStates, EndStates
  <2>4. \A o, R : CountedOn(o, R)' = CountedOn(o, R)
    BY <1>1, <2>1 DEF CountedOn, TsTypeOK
  <2> QED
    BY <2>1, <2>2, <2>3, <2>4, TsCountKept
<1>18. ASSUME NEW e \in Execs, LookForTool(e) PROVE Calls' /\ Stats' /\ Sweeps'
  <2>1. /\ tsCall[e].pc = "look" /\ tsCall'[e].of = tsTool /\ \A f \in Execs \ {e} : tsCall'[f] = tsCall[f]
        /\ tsCall'[e].pc = IF tsTool = 0 THEN "done" ELSE "record"
        /\ tsTool \in {0} \cup ToolObjects
        /\ UNCHANGED <<tsExecutor, tsStatus, tsResult, tsDisable, statVars>>
    BY <1>1, <1>18, TsAssumption DEF LookForTool, CallGoes, TsTypeOK, ToolObjects
  <2>2. Calls'
    BY <1>1, <2>1 DEF AddedHasStatus, RunningIsExecuted, EndedIsInactive, RecordHasResult
  <2>3. Sweeps'
    BY <1>0, <1>1, <2>1 DEF SeenHasStarted, SweepsOne, DisableStopsRunning
  <2>4. \A o \in ToolObjects : \A R : CountedOn(o, R)' = CountedOn(o, R)
    BY <2>1 DEF CountedOn, ToolObjects
  <2> QED
    BY <2>1, <2>2, <2>3, <2>4, TsCountKept
<1>19. ASSUME NEW e \in Execs, CountExecution(e) PROVE Calls' /\ Stats' /\ Sweeps'
  <2> DEFINE p == tsCall[e].of
             good == tsResult[e] = "completed"
  <2>1. /\ tsCall[e].pc = "record" /\ tsCall'[e].pc = "done" /\ \A f \in Execs \ {e} : tsCall'[f] = tsCall[f]
        /\ p \in ToolObjects /\ tsResult[e] \in EndStates
        /\ tsTotal' = [tsTotal EXCEPT ![p] = @ + 1]
        /\ tsGood' = IF good THEN [tsGood EXCEPT ![p] = @ + 1] ELSE tsGood
        /\ UNCHANGED <<tsExecutor, tsStatus, tsResult, tsDisable>>
    BY <1>1, <1>19 DEF CountExecution, CallGoes, TsTypeOK, RecordHasResult
  <2>2. Calls' /\ Sweeps'
    BY <1>0, <1>1, <2>1 DEF AddedHasStatus, RunningIsExecuted, EndedIsInactive, RecordHasResult, SeenHasStarted, SweepsOne,
       DisableStopsRunning, ActiveStates
  <2>3. ASSUME NEW o \in ToolObjects
        PROVE  /\ IsFiniteSet(CountedOn(o, EndStates)')
               /\ tsTotal'[o] = Cardinality(CountedOn(o, EndStates)')
               /\ tsGood'[o] = Cardinality(CountedOn(o, {"completed"})')
    <3>1. \A R \in SUBSET EndStates : CountedOn(o, R)' = IF o = p /\ tsResult[e] \in R THEN CountedOn(o, R) \cup {e}
                                                                                   ELSE CountedOn(o, R)
      BY <1>19, TsCountOne
    <3>2. {"completed"} \in SUBSET EndStates /\ EndStates \in SUBSET EndStates /\ (tsResult[e] \in {"completed"} <=> good)
      BY DEF EndStates
    <3>3. \A R : e \notin CountedOn(o, R)
      BY <2>1 DEF CountedOn
    <3>4. IsFiniteSet(CountedOn(o, EndStates)) /\ IsFiniteSet(CountedOn(o, {"completed"}))
      <4>1. CountedOn(o, {"completed"}) \subseteq CountedOn(o, EndStates)
        BY DEF CountedOn, EndStates
      <4> QED
        BY <1>1, <4>1, FS_Subset DEF CountedIsFinite
    <3>5. /\ Cardinality(CountedOn(o, EndStates) \cup {e}) = tsTotal[o] + 1 /\ IsFiniteSet(CountedOn(o, EndStates) \cup {e})
          /\ Cardinality(CountedOn(o, {"completed"}) \cup {e}) = tsGood[o] + 1
      <4>1. /\ tsTotal[o] = Cardinality(CountedOn(o, EndStates))
            /\ tsGood[o] = Cardinality(CountedOn(o, {"completed"}))
        BY <1>1 DEF StatsMatch
      <4>2. /\ IsFiniteSet(CountedOn(o, EndStates) \cup {e})
            /\ Cardinality(CountedOn(o, EndStates) \cup {e}) = Cardinality(CountedOn(o, EndStates)) + 1
        BY <3>3, <3>4, FS_AddElement
      <4>3. Cardinality(CountedOn(o, {"completed"}) \cup {e}) = Cardinality(CountedOn(o, {"completed"})) + 1
        BY <3>3, <3>4, FS_AddElement
      <4> QED
        BY <4>1, <4>2, <4>3
    <3>6. /\ tsTotal'[o] = IF o = p THEN tsTotal[o] + 1 ELSE tsTotal[o]
          /\ tsGood'[o] = IF o = p /\ good THEN tsGood[o] + 1 ELSE tsGood[o]
      BY <1>1, <2>1 DEF TsTypeOK
    <3> HIDE DEF p, good
    <3>7. /\ CountedOn(o, EndStates)' = IF o = p THEN CountedOn(o, EndStates) \cup {e} ELSE CountedOn(o, EndStates)
          /\ CountedOn(o, {"completed"})' = IF o = p /\ good THEN CountedOn(o, {"completed"}) \cup {e}
                                            ELSE CountedOn(o, {"completed"})
      BY <2>1, <3>1, <3>2
    <3> QED
      BY <1>1, <3>4, <3>5, <3>6, <3>7 DEF StatsMatch
  <2>4. Stats'
    BY <2>3 DEF StatsMatch, CountedIsFinite
  <2> QED
    BY <2>2, <2>4
<1>20. ASSUME NEW x \in ToolStreams, OpenToolStream(x) \/ EndToolStream(x) PROVE ToolStreamsAreOpen'
  BY <1>1, <1>20 DEF OpenToolStream, EndToolStream, ToolStreamsAreOpen, TsTypeOK
<1>21. ASSUME NEW x \in ToolStreams, NEW e \in Execs, CancelByToolStream(x, e) PROVE ToolStreamsAreOpen'
  BY <1>1, <1>21 DEF CancelByToolStream, ToolStreamsAreOpen, TsTypeOK
<1>22. CASE CloseToolService
  BY <1>1, <1>2, <1>3, <1>4, <1>22 DEF CloseToolService, ToolStreamsAreOpen, execVars
<1> USE DEF execVars, watchVars
<1>31. CASE \/ \E enabled, force \in BOOLEAN : EnterTool(enabled, force)
            \/ RemoveTool \/ \E enabled \in BOOLEAN : SetEnabled(enabled)
  BY <1>6, <1>31 DEF EnterTool, RemoveTool, SetEnabled
<1>32. CASE \E d \in Disablers : DisableTool(d) \/ ListExecutions(d)
  BY <1>2, <1>3, <1>5, <1>9, <1>10, <1>32 DEF DisableTool, ListExecutions
<1>33. CASE \E d \in Disablers, e \in Execs : SweepExecution(d, e)
  BY <1>2, <1>3, <1>5, <1>11, <1>33, ZenonT(40) DEF SweepExecution
<1>34. CASE \E d \in Disablers, e \in Execs : SweepCancel(d, e)
  BY <1>3, <1>5, <1>7, <1>12, <1>34 DEF SweepCancel
<1>35. ASSUME NEW e \in Execs,
              \/ CheckTool(e) \/ AddExecution(e) \/ StartExecution(e) \/ ExecutionFails(e)
              \/ \E result \in EndStates : ExecutionEnds(e, result)
              \/ LookForTool(e) \/ CountExecution(e)
       PROVE  Calls' /\ Stats' /\ Sweeps' /\ ToolStreamsAreOpen'
  <2>1. UNCHANGED watchVars
    BY <1>35 DEF CheckTool, AddExecution, StartExecution, ExecutionFails, ExecutionEnds, LookForTool, CountExecution
  <2>2. ToolStreamsAreOpen'
    BY <2>1, <1>5
  <2> QED
    BY <2>2, <1>13, <1>14, <1>15, <1>16, <1>17, <1>18, <1>19, <1>35
<1>36. ASSUME NEW e \in Execs, CancelExecution(e) PROVE Calls' /\ Stats' /\ Sweeps' /\ ToolStreamsAreOpen'
  BY <1>3, <1>5, <1>7, <1>8, <1>36 DEF CancelExecution
<1>37. CASE \E x \in ToolStreams : OpenToolStream(x) \/ EndToolStream(x)
  BY <1>2, <1>3, <1>4, <1>20, <1>37 DEF OpenToolStream, EndToolStream
<1>38. CASE \E x \in ToolStreams, e \in Execs : CancelByToolStream(x, e)
  BY <1>3, <1>7, <1>8, <1>21, <1>38 DEF CancelByToolStream
<1>39. CASE UNCHANGED tsVars
  BY <1>6, <1>39 DEF tsVars
<1> QED
  BY <1>22, <1>31, <1>32, <1>33, <1>34, <1>35, <1>36, <1>37, <1>38, <1>39 DEF TsNext

\* After a call has returned, only cancellations reach its execution.
LEMMA TsResultStep ==
    ASSUME TsIInv, [TsNext]_tsVars, NEW e \in Execs, tsCall[e].pc = "done"
    PROVE  tsStatus'[e] \in {tsStatus[e], "cancelled"} /\ tsResult'[e] = tsResult[e]
<1> DEFINE Stays == tsStatus'[e] \in {tsStatus[e], "cancelled"} /\ tsResult'[e] = tsResult[e]
<1>1. TsTypeOK
  BY DEF TsIInv
<1>2. ASSUME NEW f \in Execs, SetCanceled(f), UNCHANGED tsResult PROVE Stays
  BY <1>1, <1>2 DEF SetCanceled, TsTypeOK
<1>3. ASSUME NEW f \in Execs, AddExecution(f) \/ StartExecution(f) \/ ExecutionFails(f) PROVE Stays
  BY <1>1, <1>3 DEF AddExecution, StartExecution, ExecutionFails, CallGoes, TsTypeOK
<1>4. ASSUME NEW f \in Execs, NEW result \in EndStates, ExecutionEnds(f, result) PROVE Stays
  BY <1>1, <1>4 DEF ExecutionEnds, CallGoes, TsTypeOK
<1>5. ASSUME UNCHANGED <<tsStatus, tsResult>> PROVE Stays
  BY <1>5
<1> QED
  BY <1>2, <1>3, <1>4, <1>5 DEF TsNext, tsVars, execVars, EnterTool, RemoveTool, SetEnabled, DisableTool, ListExecutions,
     SweepExecution, SweepCancel, CheckTool, LookForTool, CountExecution, CancelExecution, OpenToolStream, EndToolStream,
     CancelByToolStream, CloseToolService

\* However ExecuteTool calls, cancellations by RPC, stream or DisableTool, and the
\* registration of tools under the same name overlap: the statistics of every object
\* count the recorded results, nothing is shown active whose call has returned, what
\* DisableTool found running ends, and a result stays (tool_service.go:846, :637).
THEOREM ExecutionsStaySafe == TsSpec => ExecutionsSafe
<1>1. TsIInv => TsTypeOK /\ StatsMatch /\ ActiveIsUnderway /\ DisableStopsRunning /\ ToolStreamsAreOpen
  BY DEF TsIInv, ActiveIsUnderway, AddedHasStatus, EndedIsInactive, ActiveStates
<1>2. TsIInv /\ [TsNext]_tsVars =>
        [\A e \in Execs : tsCall[e].pc = "done" =>
            tsStatus'[e] \in {tsStatus[e], "cancelled"} /\ tsResult'[e] = tsResult[e]]_tsVars
  BY TsResultStep
<1> QED
  BY TsInitIInv, TsStep, <1>1, <1>2, PTL DEF TsSpec, ExecutionsSafe, ResultsStay

-----------------------------------------------------------------------------
(* Requests to language models.                                            *)

WireEvents == {"chunk", "usage", "complete", "error", "end"}
LlmPlaces == [pc : {"new", "first", "ready", "send", "relay", "count", "done"}, id : {0} \cup RequestIds]

\* A request the gateway works at is relayed by its handler, and the wire of one it
\* does not work at is empty; before it ends only chunks are written.
LinksAreRelayed ==
    \A x \in LlmUsers :
        /\ lqLink[x] # "none" => lqCall[x].pc = "relay"
        /\ lqLink[x] = "none" => lqWire[x] = << >>
        /\ lqLink[x] = "waiting" => \A k \in DOMAIN lqWire[x] : lqWire[x][k] = "chunk"

\* Who sends or relays has named a request.
RequestIsNamed ==
    \A x \in LlmUsers : lqCall[x].pc \in {"ready", "send", "relay", "count"} => lqCall[x].id \in RequestIds

CountedEvents == {"complete"}

\* An event that counts is on a wire once at most.
CountedOnce ==
    \A x \in LlmUsers : \A j, k \in DOMAIN lqWire[x] :
        lqWire[x][j] = lqWire[x][k] /\ lqWire[x][j] \in CountedEvents => j = k

\* What the gateway has counted and the service has not yet: events on their way, and
\* completions that were answered.
Owed(x, e) ==
    \/ \E k \in DOMAIN lqWire[x] : lqWire[x][k] = e
    \/ e = "complete" /\ lqCall[x].pc = "count"

Owes == {p \in LlmUsers \X CountedEvents : Owed(p[1], p[2])}

TotalsOwed ==
    /\ IsFiniteSet(Owes)
    /\ lqTotal + Cardinality(Owes) <= lqServed.streams + lqServed.completions

Waiting == {x \in LlmUsers : lqLink[x] = "waiting"}

\* The inductive invariant: what the service counts is on a wire before, and what is
\* on a wire the gateway has counted.
LqIInv ==
    /\ LqTypeOK /\ IsFiniteSet(Waiting)
    /\ LinksAreRelayed /\ RequestIsNamed /\ CountedOnce /\ RegisteredIsActive /\ TotalsOwed

\* A gateway without requests satisfies it.
LEMMA LqInitIInv == LqInit => LqIInv
<1> SUFFICES ASSUME LqInit PROVE LqIInv
  OBVIOUS
<1>1. Waiting = {} /\ Owes = {}
  BY DEF LqInit, Waiting, Owes, Owed
<1>2. /\ IsFiniteSet(Waiting) /\ Cardinality(Waiting) = 0
      /\ IsFiniteSet(Owes) /\ Cardinality(Owes) = 0
  BY <1>1, FS_EmptySet
<1>3. \A x \in LlmUsers : lqWire[x] \in Seq(WireEvents) /\ lqWire[x] = << >>
  BY EmptySeq DEF LqInit
<1>4. LqTypeOK
  <2>1. /\ lqActive \in 0..MaxConcurrent /\ lqTaken \in 0..MaxUpstream
        /\ lqActive = lqOrphans + Cardinality({x \in LlmUsers : lqLink[x] = "waiting"})
    BY <1>2, LqAssumption DEF LqInit, Waiting
  <2>2. lqWire \in [LlmUsers -> Seq(WireEvents)]
    BY <1>3 DEF LqInit
  <2> QED
    BY <2>1, <2>2 DEF LqInit, LqTypeOK, WireEvents
<1>5. TotalsOwed
  BY <1>2 DEF LqInit, TotalsOwed
<1> QED
  BY <1>2, <1>3, <1>4, <1>5 DEF LqInit, LqIInv, LinksAreRelayed, RequestIsNamed, CountedOnce, RegisteredIsActive

\* A step that adds nothing to what is owed, and counts nothing, keeps the totals.
LEMMA OwesLess ==
    ASSUME TotalsOwed, Owes' \subseteq Owes, UNCHANGED lqTotal,
           lqTotal \in Nat, lqServed \in [streams : Nat, completions : Nat],
           lqServed' \in [streams : Nat, completions : Nat],
           lqServed'.streams >= lqServed.streams, lqServed'.completions >= lqServed.completions
    PROVE  TotalsOwed'
<1>1. IsFiniteSet(Owes') /\ Cardinality(Owes') <= Cardinality(Owes)
  BY FS_Subset DEF TotalsOwed
<1>2. Cardinality(Owes) \in Nat /\ Cardinality(Owes') \in Nat
  BY <1>1, FS_CardinalityType DEF TotalsOwed
<1> QED
  BY <1>1, <1>2 DEF TotalsOwed

\* A step that counts what was owed, or lets it go, keeps the totals.
LEMMA OwesOneLess ==
    ASSUME TotalsOwed, NEW p \in Owes, Owes' = Owes \ {p}, lqTotal' \in {lqTotal, lqTotal + 1}, UNCHANGED lqServed,
           lqTotal \in Nat, lqServed \in [streams : Nat, completions : Nat]
    PROVE  TotalsOwed'
<1>1. IsFiniteSet(Owes') /\ Cardinality(Owes') = Cardinality(Owes) - 1
  BY FS_RemoveElement DEF TotalsOwed
<1>2. Cardinality(Owes) \in Nat /\ Cardinality(Owes') \in Nat
  BY <1>1, FS_CardinalityType DEF TotalsOwed
<1> QED
  BY <1>1, <1>2 DEF TotalsOwed

\* One more element makes a finite set larger by one at most.
LEMMA AddedAtMostOne ==
    ASSUME NEW S, IsFiniteSet(S), NEW e
    PROVE  IsFiniteSet(S \cup {e}) /\ Cardinality(S \cup {e}) <= Cardinality(S) + 1
           /\ Cardinality(S) \in Nat /\ Cardinality(S \cup {e}) \in Nat
<1>1. Cardinality(S) \in Nat
  BY FS_CardinalityType
<1>2. CASE e \in S
  <2> DEFINE T == S \cup {e}
  <2>1. T = S
    BY <1>2
  <2> HIDE DEF T
  <2>2. IsFiniteSet(T) /\ Cardinality(T) <= Cardinality(S) + 1 /\ Cardinality(T) \in Nat
    BY <1>1, <2>1
  <2> QED
    BY <1>1, <2>2 DEF T
<1>3. CASE e \notin S
  BY <1>1, <1>3, FS_AddElement
<1> QED
  BY <1>2, <1>3

\* Every step preserves the types, and the gateway counts whom it works for.
LEMMA LqTypeStep ==
    ASSUME LqIInv, [LqNext]_lqVars
    PROVE  LqTypeOK' /\ IsFiniteSet(Waiting)'
<1> DEFINE Kept == /\ lqRegistry' \subseteq RequestIds /\ lqFailed' \subseteq RequestIds
                   /\ lqCall' \in [LlmUsers -> LlmPlaces] /\ lqTracked' \subseteq LlmStreams
                   /\ lqTotal' \in Nat
           Gate == /\ lqLink' \in [LlmUsers -> {"none", "waiting", "events"}]
                   /\ lqWire' \in [LlmUsers -> Seq(WireEvents)]
                   /\ lqOrphans' \in Nat /\ lqTaken' \in 0..MaxUpstream
                   /\ lqServed' \in [streams : Nat, completions : Nat]
           Busy == /\ lqActive' \in 0..MaxConcurrent
                   /\ lqActive' = lqOrphans' + Cardinality(Waiting')
                   /\ IsFiniteSet(Waiting')
<1>1. /\ lqRegistry \subseteq RequestIds /\ lqFailed \subseteq RequestIds
      /\ lqCall \in [LlmUsers -> LlmPlaces] /\ lqTracked \subseteq LlmStreams
      /\ lqTotal \in Nat
  BY DEF LqIInv, LqTypeOK, LlmPlaces
<1>2. /\ lqLink \in [LlmUsers -> {"none", "waiting", "events"}]
      /\ lqWire \in [LlmUsers -> Seq(WireEvents)]
      /\ lqOrphans \in Nat /\ lqTaken \in 0..MaxUpstream
      /\ lqServed \in [streams : Nat, completions : Nat]
  BY DEF LqIInv, LqTypeOK, WireEvents
<1>3. /\ lqActive \in 0..MaxConcurrent
      /\ lqActive = lqOrphans + Cardinality(Waiting)
      /\ IsFiniteSet(Waiting)
  BY DEF LqIInv, LqTypeOK, Waiting
<1>4. LinksAreRelayed /\ RequestIsNamed
  BY DEF LqIInv
<1>5. /\ Cardinality(Waiting) \in Nat /\ lqActive \in Nat
      /\ \A x \in Waiting : Cardinality(Waiting) > 0 /\ Cardinality(Waiting \ {x}) = Cardinality(Waiting) - 1
      /\ \A x : IsFiniteSet(Waiting \ {x})
      /\ \A x \in LlmUsers : x \notin Waiting =>
            IsFiniteSet(Waiting \cup {x}) /\ Cardinality(Waiting \cup {x}) = Cardinality(Waiting) + 1
  <2>1. Cardinality(Waiting) \in Nat /\ lqActive \in Nat
    BY <1>3, FS_CardinalityType, LqAssumption
  <2>2. ASSUME NEW x \in Waiting
        PROVE  Cardinality(Waiting) > 0 /\ Cardinality(Waiting \ {x}) = Cardinality(Waiting) - 1
    <3>1. IsFiniteSet(Waiting \ {x}) /\ Cardinality(Waiting \ {x}) = Cardinality(Waiting) - 1
      BY <1>3, FS_RemoveElement
    <3>2. Cardinality(Waiting \ {x}) \in Nat
      BY <3>1, FS_CardinalityType
    <3> QED
      BY <2>1, <3>1, <3>2
  <2>3. ASSUME NEW x PROVE IsFiniteSet(Waiting \ {x})
    BY <1>3, FS_Subset
  <2>4. ASSUME NEW x \in LlmUsers, x \notin Waiting
        PROVE  IsFiniteSet(Waiting \cup {x}) /\ Cardinality(Waiting \cup {x}) = Cardinality(Waiting) + 1
    BY <1>3, <2>4, FS_AddElement
  <2> QED
    BY <2>1, <2>2, <2>3, <2>4
<1>6. << >> \in Seq(WireEvents) /\ <<"chunk">> \in Seq(WireEvents) /\ <<"complete">> \in Seq(WireEvents)
      /\ FinalEvents \in Seq(WireEvents) /\ ErrorEvents \in Seq(WireEvents)
  BY EmptySeq DEF WireEvents, FinalEvents, ErrorEvents
\* The callers' side alone.
<1>7. ASSUME NEW x \in LlmUsers, Abandon(x), Kept PROVE Gate /\ Busy
  <2>1. Gate
    BY <1>2, <1>6, <1>7 DEF Abandon
  <2>2. CASE lqLink[x] = "waiting"
    <3>1. x \in Waiting /\ Waiting' = Waiting \ {x}
      BY <1>2, <1>7, <2>2 DEF Abandon, Waiting
    <3>2. lqOrphans' = lqOrphans + 1 /\ lqActive' = lqActive
      BY <1>7, <2>2 DEF Abandon
    <3> QED
      <4>1. IsFiniteSet(Waiting') /\ Cardinality(Waiting') = Cardinality(Waiting) - 1
        BY <1>5, <3>1
      <4>2. lqActive' = lqOrphans' + Cardinality(Waiting') /\ lqActive' \in 0..MaxConcurrent
        BY <1>2, <1>3, <1>5, <3>2, <4>1
      <4> QED
        BY <2>1, <4>1, <4>2
  <2>3. CASE lqLink[x] # "waiting"
    <3>1. Waiting' = Waiting
      BY <1>2, <1>7, <2>3 DEF Abandon, Waiting
    <3>2. lqOrphans' = lqOrphans /\ lqActive' = lqActive
      BY <1>7, <2>3 DEF Abandon
    <3> QED
      BY <1>3, <2>1, <3>1, <3>2
  <2> QED
    BY <2>2, <2>3
<1>8. ASSUME UNCHANGED lqGateVars, UNCHANGED Waiting, lqLink' \in [LlmUsers -> {"none", "waiting", "events"}],
             lqWire' \in [LlmUsers -> Seq(WireEvents)]
      PROVE  Gate /\ Busy
  BY <1>2, <1>3, <1>8 DEF lqGateVars
<1>9. ASSUME NEW x \in LlmUsers, OpenLlmStream(x) \/ NextRequest(x) PROVE Kept /\ Gate /\ Busy
  <2>1. Kept
    BY <1>1, <1>9 DEF OpenLlmStream, NextRequest, LlmGoes, LlmPlaces
  <2>2. UNCHANGED <<lqLink, lqWire, lqGateVars>>
    BY <1>9 DEF OpenLlmStream, NextRequest
  <2> QED
    BY <1>2, <1>8, <2>1, <2>2 DEF Waiting
<1>10. ASSUME NEW x \in LlmUsers, NEW i \in RequestIds, FirstRequest(x, i) \/ BeginComplete(x, i)
       PROVE  Kept /\ Gate /\ Busy
  <2>1. Kept
    BY <1>1, <1>10 DEF FirstRequest, BeginComplete, LlmPlaces
  <2>2. UNCHANGED <<lqLink, lqWire, lqGateVars>>
    BY <1>10 DEF FirstRequest, BeginComplete
  <2> QED
    BY <1>2, <1>8, <2>1, <2>2 DEF Waiting
<1>11. ASSUME NEW x \in LlmUsers, RequestFails(x) \/ LlmClientLeaves(x) \/ CompleteFails(x) PROVE Kept /\ Gate /\ Busy
  <2>1. Kept
    BY <1>1, <1>4, <1>11 DEF RequestFails, LlmClientLeaves, CompleteFails, LlmPlaces, RequestIsNamed
  <2>2. Abandon(x)
    BY <1>11 DEF RequestFails, LlmClientLeaves, CompleteFails
  <2> QED
    BY <1>7, <2>1, <2>2
<1>12. ASSUME NEW x \in LlmUsers, RelayEvent(x) PROVE Kept /\ Gate /\ Busy
  <2>1. Kept
    BY <1>1, <1>12 DEF RelayEvent
  <2>2. lqWire' \in [LlmUsers -> Seq(WireEvents)]
    <3>1. Tail(lqWire[x]) \in Seq(WireEvents)
      BY <1>2, <1>12, HeadTailProperties DEF RelayEvent
    <3> QED
      BY <1>2, <1>12, <3>1 DEF RelayEvent
  <2>3. UNCHANGED <<lqLink, lqGateVars>>
    BY <1>12 DEF RelayEvent
  <2> QED
    BY <1>2, <1>8, <2>1, <2>2, <2>3 DEF Waiting
<1>13. ASSUME NEW x \in LlmUsers, RelayDone(x) \/ CompleteAnswered(x) PROVE Kept /\ Gate /\ Busy
  <2>1. Kept
    BY <1>1, <1>13 DEF RelayDone, CompleteAnswered, LlmGoes, LlmPlaces
  <2>2. x \notin Waiting
    <3>1. lqWire[x] \in {<<"end">>, <<"complete">>}
      BY <1>13 DEF RelayDone, CompleteAnswered
    <3>2. 1 \in DOMAIN lqWire[x] /\ lqWire[x][1] # "chunk"
      BY <3>1
    <3> QED
      BY <1>4, <3>2 DEF LinksAreRelayed, Waiting
  <2>3. /\ UNCHANGED lqGateVars /\ lqLink' = [lqLink EXCEPT ![x] = "none"]
        /\ lqWire' = [lqWire EXCEPT ![x] = << >>]
    BY <1>13 DEF RelayDone, CompleteAnswered
  <2>4. /\ lqLink' \in [LlmUsers -> {"none", "waiting", "events"}] /\ lqWire' \in [LlmUsers -> Seq(WireEvents)]
        /\ UNCHANGED Waiting
    BY <1>2, <1>6, <2>2, <2>3 DEF Waiting
  <2> QED
    BY <1>8, <2>1, <2>3, <2>4
<1>14. ASSUME NEW x \in LlmUsers, CountComplete(x) PROVE Kept /\ Gate /\ Busy
  <2>1. Kept
    BY <1>1, <1>14 DEF CountComplete, LlmGoes, LlmPlaces
  <2>2. UNCHANGED <<lqLink, lqWire, lqGateVars>>
    BY <1>14 DEF CountComplete
  <2> QED
    BY <1>2, <1>8, <2>1, <2>2 DEF Waiting
<1>15. ASSUME NEW x \in LlmUsers, Admit(x) PROVE Kept /\ Gate /\ Busy
  <2>1. Kept
    BY <1>1, <1>15 DEF Admit, LlmGoes, LlmPlaces
  <2>2. x \notin Waiting
    BY <1>4, <1>15 DEF Admit, LlmGoes, LinksAreRelayed, Waiting
  <2>3. Waiting' = Waiting \cup {x}
    BY <1>2, <1>15 DEF Admit, Waiting
  <2>4. lqActive < MaxConcurrent /\ lqActive' = lqActive + 1 /\ lqOrphans' = lqOrphans
    BY <1>15 DEF Admit
  <2>5. Gate
    <3>1. lqTaken' \in 0..MaxUpstream
      BY <1>2, <1>15, LqAssumption DEF Admit
    <3> QED
      BY <1>2, <1>15, <3>1 DEF Admit
  <2>6. Busy
    <3>1. IsFiniteSet(Waiting') /\ Cardinality(Waiting') = Cardinality(Waiting) + 1
      BY <1>5, <2>2, <2>3
    <3>2. lqActive' = lqOrphans' + Cardinality(Waiting')
      BY <1>2, <1>3, <1>5, <2>4, <3>1
    <3>3. lqActive' \in 0..MaxConcurrent
      BY <1>5, <2>4, LqAssumption
    <3> QED
      BY <3>1, <3>2, <3>3
  <2> QED
    BY <2>1, <2>5, <2>6
<1>16. ASSUME NEW x \in LlmUsers, UpstreamChunk(x) PROVE Kept /\ Gate /\ Busy
  <2>1. Kept
    BY <1>1, <1>16 DEF UpstreamChunk
  <2>2. UNCHANGED <<lqLink, lqGateVars>> /\ lqWire' \in [LlmUsers -> Seq(WireEvents)]
    BY <1>2, <1>6, <1>16 DEF UpstreamChunk
  <2> QED
    BY <1>2, <1>8, <2>1, <2>2 DEF Waiting
<1>17. ASSUME NEW x \in LlmUsers, UpstreamDone(x) \/ UpstreamFails(x) PROVE Kept /\ Gate /\ Busy
  <2>1. Kept
    BY <1>1, <1>17 DEF UpstreamDone, UpstreamFails
  <2>2. lqWire[x] \o FinalEvents \in Seq(WireEvents) /\ lqWire[x] \o ErrorEvents \in Seq(WireEvents)
    BY <1>2, <1>6, ConcatProperties
  <2>3. lqWire' \in [LlmUsers -> Seq(WireEvents)]
    <3>1. PICK w \in Seq(WireEvents) : lqWire' = [lqWire EXCEPT ![x] = w]
      BY <1>6, <1>17, <2>2 DEF UpstreamDone, UpstreamFails
    <3> QED
      BY <1>2, <3>1
  <2>4. Gate
    <3>1. lqServed' \in [streams : Nat, completions : Nat]
      BY <1>2, <1>17 DEF UpstreamDone, UpstreamFails
    <3>2. lqLink' \in [LlmUsers -> {"none", "waiting", "events"}]
      BY <1>2, <1>17 DEF UpstreamDone, UpstreamFails
    <3> QED
      BY <1>2, <1>17, <2>3, <3>1, <3>2 DEF UpstreamDone, UpstreamFails
  <2>5. x \in Waiting /\ Waiting' = Waiting \ {x}
    BY <1>2, <1>17 DEF UpstreamDone, UpstreamFails, Waiting
  <2>6. lqActive' = lqActive - 1 /\ lqOrphans' = lqOrphans
    BY <1>17 DEF UpstreamDone, UpstreamFails
  <2>7. Busy
    <3>1. IsFiniteSet(Waiting') /\ Cardinality(Waiting') = Cardinality(Waiting) - 1 /\ Cardinality(Waiting) > 0
      BY <1>5, <2>5
    <3>2. lqActive' = lqOrphans' + Cardinality(Waiting') /\ lqActive > 0
      BY <1>2, <1>3, <1>5, <2>6, <3>1
    <3>3. lqActive' \in 0..MaxConcurrent
      BY <1>3, <1>5, <2>6, <3>2, LqAssumption
    <3> QED
      BY <3>1, <3>2, <3>3
  <2> QED
    BY <2>1, <2>4, <2>7
<1>18. ASSUME NEW kind \in {"streams", "completions", "failed"}, OrphanEnds(kind) PROVE Kept /\ Gate /\ Busy
  <2>1. Kept
    BY <1>1, <1>18 DEF OrphanEnds
  <2>2. lqOrphans > 0 /\ lqActive' = lqActive - 1 /\ lqOrphans' = lqOrphans - 1 /\ Waiting' = Waiting
    BY <1>18 DEF OrphanEnds, Waiting
  <2>3. lqServed' \in [streams : Nat, completions : Nat]
    BY <1>2, <1>18 DEF OrphanEnds
  <2>4. Gate
    BY <1>2, <1>18, <2>2, <2>3 DEF OrphanEnds
  <2>5. Busy
    <3>1. IsFiniteSet(Waiting') /\ Cardinality(Waiting') = Cardinality(Waiting)
      BY <1>3, <2>2
    <3>2. lqActive' = lqOrphans' + Cardinality(Waiting') /\ lqActive > 0
      BY <1>2, <1>3, <1>5, <2>2, <3>1
    <3>3. lqActive' \in 0..MaxConcurrent
      BY <1>3, <1>5, <2>2, <3>2, LqAssumption
    <3> QED
      BY <3>1, <3>2, <3>3
  <2> QED
    BY <2>1, <2>4, <2>5
<1>19. ASSUME CloseLlmService \/ UNCHANGED lqVars PROVE Kept /\ Gate /\ Busy
  <2>1. Kept
    BY <1>1, <1>19 DEF CloseLlmService, lqVars
  <2>2. UNCHANGED <<lqLink, lqWire, lqGateVars>>
    BY <1>19 DEF CloseLlmService, lqVars
  <2> QED
    BY <1>2, <1>8, <2>1, <2>2 DEF Waiting
<1>20. Kept /\ Gate /\ Busy
  BY <1>9, <1>10, <1>11, <1>12, <1>13, <1>14, <1>15, <1>16, <1>17, <1>18, <1>19 DEF LqNext
<1>21. Waiting' = {x \in LlmUsers : lqLink'[x] = "waiting"}
  BY DEF Waiting
<1> HIDE DEF Waiting
<1> QED
  BY <1>20, <1>21 DEF LqTypeOK, LlmPlaces, WireEvents

\* A wire that loses its first event, and one that gets events that count.
LEMMA WireMoves ==
    ASSUME NEW w \in Seq(WireEvents)
    PROVE  /\ w # << >> => /\ Head(w) = w[1] /\ 1 \in DOMAIN w
                           /\ \A k \in DOMAIN Tail(w) : k + 1 \in DOMAIN w /\ Tail(w)[k] = w[k + 1]
                           /\ \A k \in DOMAIN w \ {1} : k - 1 \in DOMAIN Tail(w) /\ Tail(w)[k - 1] = w[k]
           /\ DOMAIN w \subseteq Nat \ {0}
<1>1. DOMAIN w = 1..Len(w) /\ Len(w) \in Nat
  BY LenProperties
<1>2. ASSUME w # << >>
      PROVE  /\ Head(w) = w[1] /\ 1 \in DOMAIN w
             /\ \A k \in DOMAIN Tail(w) : k + 1 \in DOMAIN w /\ Tail(w)[k] = w[k + 1]
             /\ \A k \in DOMAIN w \ {1} : k - 1 \in DOMAIN Tail(w) /\ Tail(w)[k - 1] = w[k]
  <2>1. /\ Len(w) >= 1 /\ Tail(w) \in Seq(WireEvents) /\ Len(Tail(w)) = Len(w) - 1
        /\ \A k \in 1..Len(Tail(w)) : Tail(w)[k] = w[k + 1]
    BY <1>1, <1>2, EmptySeq, HeadTailProperties
  <2>2. DOMAIN Tail(w) = 1..Len(Tail(w))
    BY <2>1, LenProperties
  <2>3. Head(w) = w[1]
    OBVIOUS
  <2> QED
    BY <1>1, <2>1, <2>2, <2>3
<1> QED
  BY <1>1, <1>2

\* A wire with chunks only that gets the last events: each event that counts once.
LEMMA WireEnds ==
    ASSUME NEW w \in Seq(WireEvents), \A k \in DOMAIN w : w[k] = "chunk"
    PROVE  /\ \A j, k \in DOMAIN (w \o FinalEvents) :
                 (w \o FinalEvents)[j] = (w \o FinalEvents)[k] /\ (w \o FinalEvents)[j] \in CountedEvents => j = k
           /\ \A k \in DOMAIN (w \o ErrorEvents) : (w \o ErrorEvents)[k] \notin CountedEvents
<1> DEFINE n == Len(w)
           f == w \o FinalEvents
           g == w \o ErrorEvents
<1>1. DOMAIN w = 1..n /\ n \in Nat
  BY LenProperties
<1>2. /\ FinalEvents \in Seq(WireEvents) /\ Len(FinalEvents) = 4
      /\ FinalEvents[1] = "usage" /\ FinalEvents[2] = "chunk" /\ FinalEvents[3] = "complete" /\ FinalEvents[4] = "end"
      /\ ErrorEvents \in Seq(WireEvents) /\ Len(ErrorEvents) = 2
      /\ ErrorEvents[1] = "error" /\ ErrorEvents[2] = "end"
  BY DEF FinalEvents, ErrorEvents, WireEvents
<1>3. /\ f \in Seq(WireEvents) /\ Len(f) = n + 4
      /\ \A k \in 1..n + 4 : f[k] = IF k <= n THEN w[k] ELSE FinalEvents[k - n]
  <2>1. /\ f \in Seq(WireEvents) /\ Len(f) = Len(w) + Len(FinalEvents)
        /\ \A k \in 1..Len(w) + Len(FinalEvents) : f[k] = IF k <= Len(w) THEN w[k] ELSE FinalEvents[k - Len(w)]
    BY <1>2, ConcatProperties, ZenonT(40)
  <2> HIDE DEF f
  <2> QED
    BY <1>2, <2>1
<1>4. /\ g \in Seq(WireEvents) /\ Len(g) = n + 2
      /\ \A k \in 1..n + 2 : g[k] = IF k <= n THEN w[k] ELSE ErrorEvents[k - n]
  <2>1. /\ g \in Seq(WireEvents) /\ Len(g) = Len(w) + Len(ErrorEvents)
        /\ \A k \in 1..Len(w) + Len(ErrorEvents) : g[k] = IF k <= Len(w) THEN w[k] ELSE ErrorEvents[k - Len(w)]
    BY <1>2, ConcatProperties, ZenonT(40)
  <2> HIDE DEF g
  <2> QED
    BY <1>2, <2>1
<1>5. DOMAIN f = 1..n + 4 /\ DOMAIN g = 1..n + 2
  BY <1>3, <1>4, LenProperties
<1> HIDE DEF f, g, n
<1>6. \A k \in 1..n + 4 :
         f[k] \in CountedEvents => k = n + 3
  <2> TAKE k \in 1..n + 4
  <2>1. CASE k <= n
    <3>1. f[k] = w[k] /\ k \in DOMAIN w
      BY <1>1, <1>3, <2>1
    <3>2. f[k] = "chunk"
      BY <3>1
    <3> QED
      BY <3>2 DEF CountedEvents
  <2>2. CASE k = n + 1 \/ k = n + 2 \/ k = n + 3 \/ k = n + 4
    <3>1. ~(k <= n) /\ k - n \in {1, 2, 3, 4}
      BY <1>1, <2>2
    <3>2. f[k] = FinalEvents[k - n]
      BY <1>3, <3>1
    <3>3. f[k] \in CountedEvents => k - n = 3
      <4> DEFINE i == k - n
      <4>1. i \in {1, 2, 3, 4} /\ f[k] = FinalEvents[i]
        BY <3>1, <3>2
      <4> HIDE DEF i
      <4>2. (i = 1 => f[k] = "usage") /\ (i = 2 => f[k] = "chunk") /\ (i = 3 => f[k] = "complete") /\ (i = 4 => f[k] = "end")
        BY <1>2, <4>1
      <4>3. f[k] \in CountedEvents => i = 3
        <5>1. i = 1 \/ i = 2 \/ i = 4 => f[k] \notin CountedEvents
          BY <4>2 DEF CountedEvents
        <5>2. i = 1 \/ i = 2 \/ i = 3 \/ i = 4
          BY <4>1
        <5> QED
          BY <5>1, <5>2
      <4> QED
        BY <4>3 DEF i
    <3>4. k - n = 3 => k = n + 3
      BY <1>1
    <3> QED
      BY <3>3, <3>4
  <2> QED
    BY <1>1, <2>1, <2>2
<1>7. \A k \in 1..n + 2 : g[k] \notin CountedEvents
  <2> TAKE k \in 1..n + 2
  <2>1. CASE k <= n
    BY <1>1, <1>4, <2>1 DEF CountedEvents
  <2>2. CASE k = n + 1 \/ k = n + 2
    <3>1. ~(k <= n) /\ k - n \in {1, 2}
      BY <1>1, <2>2
    <3>2. g[k] = ErrorEvents[k - n]
      BY <1>4, <3>1
    <3> QED
      BY <1>1, <1>2, <3>1, <3>2 DEF CountedEvents
  <2> QED
    BY <1>1, <2>1, <2>2
<1>8. \A j, k \in DOMAIN f : f[j] = f[k] /\ f[j] \in CountedEvents => j = k
  BY <1>5, <1>6
<1>9. \A k \in DOMAIN g : g[k] \notin CountedEvents
  BY <1>5, <1>7
<1> QED
  BY <1>8, <1>9 DEF f, g

\* Every step preserves the invariant.
LEMMA LqStep == LqIInv /\ [LqNext]_lqVars => LqIInv'
<1> SUFFICES ASSUME LqIInv, [LqNext]_lqVars PROVE LqIInv'
  OBVIOUS
<1> DEFINE Parts == LinksAreRelayed /\ RequestIsNamed /\ CountedOnce /\ RegisteredIsActive /\ TotalsOwed
<1>1. /\ lqRegistry \subseteq RequestIds /\ lqFailed \subseteq RequestIds
      /\ lqCall \in [LlmUsers -> LlmPlaces] /\ lqTotal \in Nat
      /\ lqLink \in [LlmUsers -> {"none", "waiting", "events"}]
      /\ lqWire \in [LlmUsers -> Seq(WireEvents)]
      /\ lqServed \in [streams : Nat, completions : Nat] /\ lqServed' \in [streams : Nat, completions : Nat]
      /\ lqWire' \in [LlmUsers -> Seq(WireEvents)] /\ lqCall' \in [LlmUsers -> LlmPlaces]
  BY LqTypeStep DEF LqIInv, LqTypeOK, LlmPlaces, WireEvents
<1>2. Parts
  BY DEF LqIInv
<1>3. lqServed.streams \in Nat /\ lqServed.completions \in Nat
  BY <1>1
<1> SUFFICES Parts'
  BY LqTypeStep DEF LqIInv
\* Steps that leave the gateway and the wires alone and count nothing.
<1>4. ASSUME UNCHANGED <<lqWire, lqTotal, lqServed>>,
             \A y \in LlmUsers : lqCall'[y].pc = "count" => lqCall[y].pc = "count"
      PROVE  CountedOnce' /\ TotalsOwed'
  <2>1. CountedOnce'
    BY <1>2, <1>4 DEF CountedOnce
  <2>2. Owes' \subseteq Owes
    BY <1>4 DEF Owes, Owed
  <2>3. lqServed'.streams >= lqServed.streams /\ lqServed'.completions >= lqServed.completions
    BY <1>3, <1>4
  <2> QED
    BY <1>1, <1>2, <1>4, <2>1, <2>2, <2>3, OwesLess
\* A user of which everything moves but nobody else.
<1>5. ASSUME NEW x \in LlmUsers, OpenLlmStream(x) \/ NextRequest(x) PROVE Parts'
  <2>1. /\ \A y \in LlmUsers \ {x} : lqCall'[y] = lqCall[y]
        /\ lqCall'[x].id = lqCall[x].id
        /\ \/ lqCall[x].pc = "new" /\ lqCall'[x].pc = "first"
           \/ lqCall[x].pc = "ready" /\ lqCall'[x].pc = "send"
        /\ UNCHANGED <<lqRegistry, lqLink, lqWire, lqTotal, lqServed, lqFailed>>
    BY <1>1, <1>5 DEF OpenLlmStream, NextRequest, LlmGoes, LlmPlaces, lqGateVars
  <2>2. CountedOnce' /\ TotalsOwed'
    BY <1>4, <2>1
  <2> QED
    BY <1>2, <2>1, <2>2 DEF LinksAreRelayed, RequestIsNamed, RegisteredIsActive
<1>6. ASSUME NEW x \in LlmUsers, NEW i \in RequestIds, FirstRequest(x, i) \/ BeginComplete(x, i) PROVE Parts'
  <2>1. /\ \A y \in LlmUsers \ {x} : lqCall'[y] = lqCall[y]
        /\ lqCall[x].pc \in {"new", "first"} /\ lqCall'[x].id = i /\ lqCall'[x].pc \in {"done", "send"}
        /\ lqRegistry' \subseteq lqRegistry \cup {i}
        /\ i \in lqRegistry \/ lqCall'[x].pc = "send"
        /\ UNCHANGED <<lqLink, lqWire, lqTotal, lqServed, lqFailed>>
    BY <1>1, <1>6 DEF FirstRequest, BeginComplete, LlmPlaces, lqGateVars
  <2>2. CountedOnce' /\ TotalsOwed'
    BY <1>4, <2>1
  <2>3. RegisteredIsActive'
    BY <1>2, <2>1 DEF RegisteredIsActive
  <2> QED
    BY <1>2, <2>1, <2>2, <2>3 DEF LinksAreRelayed, RequestIsNamed
<1>7. ASSUME NEW x \in LlmUsers, RequestFails(x) \/ LlmClientLeaves(x) \/ CompleteFails(x) PROVE Parts'
  <2>1. /\ \A y \in LlmUsers \ {x} : lqCall'[y] = lqCall[y] /\ lqLink'[y] = lqLink[y] /\ lqWire'[y] = lqWire[y]
        /\ lqCall'[x].id = lqCall[x].id /\ lqCall'[x].pc \in {"ready", "done"}
        /\ lqCall'[x].pc = "ready" => lqCall[x].pc \in {"send", "relay"}
        /\ lqLink'[x] = "none" /\ lqWire'[x] = << >>
        /\ UNCHANGED <<lqTotal, lqServed>>
    BY <1>1, <1>7 DEF RequestFails, LlmClientLeaves, CompleteFails, Abandon, LlmPlaces
  <2>2. LinksAreRelayed' /\ RequestIsNamed' /\ CountedOnce'
    BY <1>2, <2>1 DEF LinksAreRelayed, RequestIsNamed, CountedOnce
  <2>3. Owes' \subseteq Owes
    <3>1. \A y \in LlmUsers : \A e : Owed(y, e)' => Owed(y, e)
      BY <2>1 DEF Owed
    <3> QED
      BY <3>1 DEF Owes
  <2>4. TotalsOwed'
    <3>1. lqServed'.streams >= lqServed.streams /\ lqServed'.completions >= lqServed.completions
      BY <1>3, <2>1
    <3> QED
      BY <1>1, <1>2, <2>1, <2>3, <3>1, OwesLess
  <2>5. RegisteredIsActive'
    <3>1. /\ lqRegistry' \subseteq lqRegistry /\ lqFailed \subseteq lqFailed'
          /\ lqCall[x].pc \in {"send", "relay"} => lqCall[x].id \in lqFailed' \/ lqCall[x].id \notin lqRegistry'
      BY <1>7 DEF RequestFails, LlmClientLeaves, CompleteFails
    <3> QED
      BY <1>2, <2>1, <3>1 DEF RegisteredIsActive
  <2> QED
    BY <2>2, <2>4, <2>5
<1>8. ASSUME NEW x \in LlmUsers, RelayEvent(x) PROVE Parts'
  <2> DEFINE w == lqWire[x]
  <2>0. PICK h : h = Head(w)
    OBVIOUS
  <2>1. /\ \A y \in LlmUsers \ {x} : lqWire'[y] = lqWire[y]
        /\ w \in Seq(WireEvents) /\ w # << >> /\ lqWire'[x] = Tail(w)
        /\ lqCall[x].pc = "relay" /\ UNCHANGED <<lqRegistry, lqCall, lqLink, lqServed, lqFailed>>
        /\ (lqTotal' = lqTotal \/ (h \in CountedEvents /\ lqTotal' = lqTotal + 1))
    BY <1>1, <1>8, <2>0 DEF RelayEvent, lqGateVars, CountedEvents
  <2>2. /\ h = w[1] /\ 1 \in DOMAIN w /\ DOMAIN w \subseteq Nat \ {0}
        /\ \A k \in DOMAIN Tail(w) : k + 1 \in DOMAIN w /\ Tail(w)[k] = w[k + 1]
        /\ \A k \in DOMAIN w \ {1} : k - 1 \in DOMAIN Tail(w) /\ Tail(w)[k - 1] = w[k]
        /\ DOMAIN Tail(w) \subseteq Nat \ {0}
    <3>1. Tail(w) \in Seq(WireEvents)
      BY <2>1, HeadTailProperties
    <3> QED
      BY <2>0, <2>1, <3>1, WireMoves
  <2> HIDE DEF w
  <2>3. CountedOnce'
    <3> SUFFICES ASSUME NEW y \in LlmUsers, NEW j \in DOMAIN lqWire'[y], NEW k \in DOMAIN lqWire'[y],
                        lqWire'[y][j] = lqWire'[y][k], lqWire'[y][j] \in CountedEvents
                 PROVE  j = k
      BY DEF CountedOnce
    <3>1. CASE y = x
      <4>1. j + 1 \in DOMAIN w /\ k + 1 \in DOMAIN w /\ w[j + 1] = w[k + 1] /\ w[j + 1] \in CountedEvents
        BY <2>1, <2>2, <3>1
      <4>2. j + 1 = k + 1 /\ j \in Nat /\ k \in Nat
        BY <1>2, <2>1, <2>2, <3>1, <4>1 DEF CountedOnce, w
      <4> QED
        BY <4>2
    <3>2. CASE y # x
      BY <1>2, <2>1, <3>2 DEF CountedOnce
    <3> QED
      BY <3>1, <3>2
  <2>4. LinksAreRelayed'
    <3>1. lqLink[x] # "none"
      BY <1>2, <2>1 DEF LinksAreRelayed, w
    <3>2. lqLink[x] = "waiting" => \A k \in DOMAIN Tail(w) : Tail(w)[k] = "chunk"
      BY <1>2, <2>2 DEF LinksAreRelayed, w
    <3> QED
      BY <1>2, <2>1, <3>1, <3>2 DEF LinksAreRelayed
  <2>5. \A y \in LlmUsers : \A e : y # x => (Owed(y, e)' <=> Owed(y, e))
    BY <2>1 DEF Owed
  <2>6. \A e : Owed(x, e) <=> e = h \/ Owed(x, e)'
    <3>1. \A e : Owed(x, e) <=> \E k \in DOMAIN w : w[k] = e
      BY <2>1 DEF Owed, w
    <3>2. \A e : Owed(x, e)' <=> \E k \in DOMAIN Tail(w) : Tail(w)[k] = e
      BY <2>1 DEF Owed
    <3>3. ASSUME NEW e, NEW k \in DOMAIN w, w[k] = e PROVE e = h \/ \E j \in DOMAIN Tail(w) : Tail(w)[j] = e
      BY <2>2, <3>3
    <3>4. ASSUME NEW e, NEW k \in DOMAIN Tail(w), Tail(w)[k] = e PROVE \E j \in DOMAIN w : w[j] = e
      BY <2>2, <3>4
    <3> QED
      BY <2>2, <3>1, <3>2, <3>3, <3>4
  <2>7. TotalsOwed'
    <3>1. CASE h \in CountedEvents
      <4>1. ~Owed(x, h)'
        <5> SUFFICES ASSUME NEW k \in DOMAIN Tail(w), Tail(w)[k] = h PROVE FALSE
          BY <2>1 DEF Owed
        <5>1. k + 1 \in DOMAIN w /\ w[k + 1] = w[1] /\ k \in Nat \ {0}
          BY <2>2
        <5>2. k + 1 = 1
          BY <1>2, <2>2, <3>1, <5>1 DEF CountedOnce, w
        <5> QED
          BY <5>1, <5>2
      <4>2. Owes' = Owes \ {<<x, h>>} /\ <<x, h>> \in Owes
        <5>1. <<x, h>> \in Owes
          BY <2>6, <3>1 DEF Owes
        <5>2. \A p \in LlmUsers \X CountedEvents : p \in Owes' <=> p \in Owes /\ p # <<x, h>>
          <6> TAKE p \in LlmUsers \X CountedEvents
          <6>1. CASE p[1] = x
            BY <2>6, <4>1, <6>1 DEF Owes
          <6>2. CASE p[1] # x
            BY <2>5, <6>2 DEF Owes
          <6> QED
            BY <6>1, <6>2
        <5>3. Owes \subseteq LlmUsers \X CountedEvents /\ Owes' \subseteq LlmUsers \X CountedEvents
          BY DEF Owes
        <5> QED
          BY <5>1, <5>2, <5>3
      <4>3. lqTotal' \in {lqTotal, lqTotal + 1}
        BY <2>1
      <4> QED
        BY <1>1, <1>2, <2>1, <4>2, <4>3, OwesOneLess
    <3>2. CASE h \notin CountedEvents
      <4>1. Owes' \subseteq Owes
        BY <2>5, <2>6 DEF Owes
      <4>2. lqServed'.streams >= lqServed.streams /\ lqServed'.completions >= lqServed.completions
        BY <1>3, <2>1
      <4>3. lqTotal' = lqTotal
        BY <2>1, <3>2
      <4> QED
        BY <1>1, <1>2, <2>1, <4>1, <4>2, <4>3, OwesLess
    <3> QED
      BY <3>1, <3>2
  <2>8. RequestIsNamed' /\ RegisteredIsActive'
    BY <1>2, <2>1 DEF RequestIsNamed, RegisteredIsActive
  <2> QED
    BY <2>3, <2>4, <2>7, <2>8
<1>9. ASSUME NEW x \in LlmUsers, RelayDone(x) \/ CompleteAnswered(x) PROVE Parts'
  <2>1. /\ \A y \in LlmUsers \ {x} : lqCall'[y] = lqCall[y] /\ lqLink'[y] = lqLink[y] /\ lqWire'[y] = lqWire[y]
        /\ lqCall'[x].id = lqCall[x].id /\ lqCall[x].pc = "relay"
        /\ \/ lqCall'[x].pc = "ready"
           \/ lqCall'[x].pc = "count" /\ lqWire[x] = <<"complete">>
        /\ lqLink'[x] = "none" /\ lqWire'[x] = << >> /\ lqRegistry' = lqRegistry \ {lqCall[x].id}
        /\ UNCHANGED <<lqTotal, lqServed, lqFailed>>
    BY <1>1, <1>9 DEF RelayDone, CompleteAnswered, LlmGoes, LlmPlaces, lqGateVars
  <2>2. LinksAreRelayed' /\ RequestIsNamed' /\ CountedOnce' /\ RegisteredIsActive'
    BY <1>2, <2>1 DEF LinksAreRelayed, RequestIsNamed, CountedOnce, RegisteredIsActive
  <2>3. Owes' \subseteq Owes
    <3>1. \A y \in LlmUsers : \A e : y # x => (Owed(y, e)' => Owed(y, e))
      BY <2>1 DEF Owed
    <3>2. \A e : Owed(x, e)' => Owed(x, e)
      <4>1. \A e : Owed(x, e)' => e = "complete" /\ lqWire[x] = <<"complete">>
        BY <2>1 DEF Owed
      <4>2. lqWire[x] = <<"complete">> => 1 \in DOMAIN lqWire[x] /\ lqWire[x][1] = "complete"
        OBVIOUS
      <4> QED
        BY <4>1, <4>2 DEF Owed
    <3> QED
      BY <3>1, <3>2 DEF Owes
  <2>4. lqServed'.streams >= lqServed.streams /\ lqServed'.completions >= lqServed.completions
    BY <1>3, <2>1
  <2>5. TotalsOwed'
    BY <1>1, <1>2, <2>1, <2>3, <2>4, OwesLess
  <2> QED
    BY <2>2, <2>5
<1>10. ASSUME NEW x \in LlmUsers, CountComplete(x) PROVE Parts'
  <2>1. /\ \A y \in LlmUsers \ {x} : lqCall'[y] = lqCall[y]
        /\ lqCall'[x].id = lqCall[x].id /\ lqCall[x].pc = "count" /\ lqCall'[x].pc = "done"
        /\ lqTotal' = lqTotal + 1
        /\ UNCHANGED <<lqRegistry, lqLink, lqWire, lqServed, lqFailed>>
    BY <1>1, <1>10 DEF CountComplete, LlmGoes, LlmPlaces, lqGateVars
  <2>2. LinksAreRelayed' /\ RequestIsNamed' /\ CountedOnce' /\ RegisteredIsActive'
    BY <1>2, <2>1 DEF LinksAreRelayed, RequestIsNamed, CountedOnce, RegisteredIsActive
  <2>3. lqWire[x] = << >>
    BY <1>1, <1>2, <2>1 DEF LinksAreRelayed
  <2>4. Owes' = Owes \ {<<x, "complete">>} /\ <<x, "complete">> \in Owes
    <3>1. \A y \in LlmUsers : \A e : y # x => (Owed(y, e)' <=> Owed(y, e))
      BY <2>1 DEF Owed
    <3>2. \A e : ~Owed(x, e)' /\ (Owed(x, e) <=> e = "complete")
      BY <2>1, <2>3 DEF Owed
    <3>3. \A p \in LlmUsers \X CountedEvents : p \in Owes' <=> p \in Owes /\ p # <<x, "complete">>
      <4> TAKE p \in LlmUsers \X CountedEvents
      <4>1. CASE p[1] = x
        BY <3>2, <4>1 DEF Owes
      <4>2. CASE p[1] # x
        BY <3>1, <4>2 DEF Owes
      <4> QED
        BY <4>1, <4>2
    <3>4. Owes \subseteq LlmUsers \X CountedEvents /\ Owes' \subseteq LlmUsers \X CountedEvents
      BY DEF Owes
    <3>5. <<x, "complete">> \in Owes
      BY <3>2 DEF Owes, CountedEvents
    <3> QED
      BY <3>3, <3>4, <3>5
  <2>5. TotalsOwed'
    BY <1>1, <1>2, <2>1, <2>4, OwesOneLess
  <2> QED
    BY <2>2, <2>5
<1>11. ASSUME NEW x \in LlmUsers, Admit(x) PROVE Parts'
  <2>1. /\ \A y \in LlmUsers \ {x} : lqCall'[y] = lqCall[y] /\ lqLink'[y] = lqLink[y]
        /\ lqCall'[x].id = lqCall[x].id /\ lqCall[x].pc = "send" /\ lqCall'[x].pc = "relay" /\ lqLink'[x] = "waiting"
        /\ UNCHANGED <<lqRegistry, lqWire, lqTotal, lqServed, lqFailed>>
    BY <1>1, <1>11 DEF Admit, LlmGoes, LlmPlaces
  <2>2. lqWire[x] = << >>
    BY <1>1, <1>2, <2>1 DEF LinksAreRelayed
  <2>3. CountedOnce' /\ TotalsOwed'
    BY <1>4, <2>1
  <2> QED
    BY <1>2, <2>1, <2>2, <2>3 DEF LinksAreRelayed, RequestIsNamed, RegisteredIsActive
<1>12. ASSUME NEW x \in LlmUsers, UpstreamChunk(x) PROVE Parts'
  <2>1. /\ \A y \in LlmUsers \ {x} : lqWire'[y] = lqWire[y]
        /\ lqLink[x] = "waiting" /\ lqWire[x] = << >> /\ lqWire'[x] = <<"chunk">>
        /\ UNCHANGED <<lqRegistry, lqCall, lqLink, lqTotal, lqServed, lqFailed>>
    BY <1>1, <1>12 DEF UpstreamChunk, lqGateVars
  <2>2. \A k \in DOMAIN lqWire'[x] : lqWire'[x][k] = "chunk"
    BY <2>1
  <2>3. LinksAreRelayed' /\ RequestIsNamed' /\ RegisteredIsActive'
    BY <1>2, <2>1, <2>2 DEF LinksAreRelayed, RequestIsNamed, RegisteredIsActive
  <2>4. CountedOnce'
    BY <1>2, <2>1, <2>2 DEF CountedOnce, CountedEvents
  <2>5. Owes' \subseteq Owes
    <3>1. \A y \in LlmUsers : \A e \in CountedEvents : Owed(y, e)' => Owed(y, e)
      BY <2>1, <2>2 DEF Owed, CountedEvents
    <3> QED
      BY <3>1 DEF Owes
  <2>6. lqServed'.streams >= lqServed.streams /\ lqServed'.completions >= lqServed.completions
    BY <1>3, <2>1
  <2> QED
    BY <1>1, <1>2, <2>1, <2>3, <2>4, <2>5, <2>6, OwesLess
<1>13. ASSUME NEW x \in LlmUsers, UpstreamDone(x) PROVE Parts'
  <2> DEFINE w == lqWire[x]
             new == IF x \in LlmStreams THEN w \o FinalEvents ELSE <<"complete">>
  <2>1. /\ \A y \in LlmUsers \ {x} : lqWire'[y] = lqWire[y] /\ lqLink'[y] = lqLink[y]
        /\ lqLink[x] = "waiting" /\ lqLink'[x] = "events" /\ lqWire'[x] = new /\ w \in Seq(WireEvents)
        /\ UNCHANGED <<lqRegistry, lqCall, lqTotal, lqFailed>>
    BY <1>1, <1>13 DEF UpstreamDone
  <2>2. lqCall[x].pc = "relay" /\ \A k \in DOMAIN w : w[k] = "chunk"
    BY <1>2, <2>1 DEF LinksAreRelayed
  <2>3. \A j, k \in DOMAIN new : new[j] = new[k] /\ new[j] \in CountedEvents => j = k
    <3>1. CASE x \in LlmStreams
      BY <2>1, <2>2, <3>1, WireEnds
    <3>2. CASE x \notin LlmStreams
      BY <3>2
    <3> QED
      BY <3>1, <3>2
  <2> HIDE DEF new, w
  <2>5. LinksAreRelayed' /\ RequestIsNamed' /\ CountedOnce' /\ RegisteredIsActive'
    BY <1>2, <2>1, <2>2, <2>3 DEF LinksAreRelayed, RequestIsNamed, CountedOnce, RegisteredIsActive
  <2>6. \A y \in LlmUsers : \A e : y # x => (Owed(y, e)' => Owed(y, e))
    BY <2>1 DEF Owed
  <2>7. \A e : Owed(x, e)' => \E k \in DOMAIN new : new[k] = e
    BY <2>1, <2>2 DEF Owed
  <2> DEFINE one == Owes \cup {<<x, "complete">>}
  <2>8. Owes' \subseteq one
    BY <2>6, <2>7 DEF Owes, CountedEvents
  <2>9. /\ IsFiniteSet(one) /\ Cardinality(one) <= Cardinality(Owes) + 1
        /\ Cardinality(Owes) \in Nat /\ Cardinality(one) \in Nat
    BY <1>2, AddedAtMostOne DEF TotalsOwed
  <2> HIDE DEF one
  <2>10. TotalsOwed'
    <3>1. IsFiniteSet(Owes') /\ Cardinality(Owes') <= Cardinality(one)
      BY <2>8, <2>9, FS_Subset
    <3>2. Cardinality(Owes') \in Nat
      BY <3>1, FS_CardinalityType
    <3>3. lqServed'.streams + lqServed'.completions = lqServed.streams + lqServed.completions + 1
      <4>1. CASE x \in LlmStreams
        <5>1. lqServed'.streams = lqServed.streams + 1 /\ lqServed'.completions = lqServed.completions
          BY <1>1, <1>13, <4>1 DEF UpstreamDone
        <5> QED
          BY <1>3, <5>1
      <4>2. CASE x \notin LlmStreams
        <5>1. lqServed'.streams = lqServed.streams /\ lqServed'.completions = lqServed.completions + 1
          BY <1>1, <1>13, <4>2 DEF UpstreamDone
        <5> QED
          BY <1>3, <5>1
      <4> QED
        BY <4>1, <4>2
    <3>4. lqTotal + Cardinality(Owes) <= lqServed.streams + lqServed.completions
      BY <1>2 DEF TotalsOwed
    <3> DEFINE t == lqServed.streams + lqServed.completions
               n == Cardinality(Owes)
               m == Cardinality(Owes')
    <3>5. lqTotal \in Nat /\ t \in Nat /\ n \in Nat /\ m \in Nat /\ m <= n + 1 /\ lqTotal + n <= t
      BY <1>1, <1>3, <2>9, <3>1, <3>2, <3>4
    <3>6. lqServed'.streams + lqServed'.completions = t + 1 /\ lqTotal' = lqTotal
      BY <2>1, <3>3
    <3> HIDE DEF t, n, m
    <3>7. lqTotal' + m <= lqServed'.streams + lqServed'.completions
      BY <3>5, <3>6
    <3> QED
      BY <3>1, <3>7 DEF TotalsOwed, m
  <2> QED
    BY <2>5, <2>10
<1>14. ASSUME NEW x \in LlmUsers, UpstreamFails(x) PROVE Parts'
  <2> DEFINE w == lqWire[x]
             new == w \o ErrorEvents
  <2>1. /\ \A y \in LlmUsers \ {x} : lqWire'[y] = lqWire[y] /\ lqLink'[y] = lqLink[y]
        /\ lqLink[x] = "waiting" /\ lqLink'[x] = "events" /\ lqWire'[x] = new /\ w \in Seq(WireEvents)
        /\ UNCHANGED <<lqRegistry, lqCall, lqTotal, lqServed, lqFailed>>
    BY <1>1, <1>14 DEF UpstreamFails
  <2>2. lqCall[x].pc = "relay" /\ \A k \in DOMAIN w : w[k] = "chunk"
    BY <1>2, <2>1 DEF LinksAreRelayed
  <2>3. \A k \in DOMAIN new : new[k] \notin CountedEvents
    BY <2>1, <2>2, WireEnds
  <2> HIDE DEF new, w
  <2>4. LinksAreRelayed' /\ RequestIsNamed' /\ CountedOnce' /\ RegisteredIsActive'
    BY <1>2, <2>1, <2>2, <2>3 DEF LinksAreRelayed, RequestIsNamed, CountedOnce, RegisteredIsActive
  <2>5. Owes' \subseteq Owes
    <3>1. \A y \in LlmUsers : \A e \in CountedEvents : Owed(y, e)' => Owed(y, e)
      BY <2>1, <2>2, <2>3 DEF Owed
    <3> QED
      BY <3>1 DEF Owes
  <2>6. lqServed'.streams >= lqServed.streams /\ lqServed'.completions >= lqServed.completions
    BY <1>3, <2>1
  <2> QED
    BY <1>1, <1>2, <2>1, <2>4, <2>5, <2>6, OwesLess
<1>15. ASSUME NEW kind \in {"streams", "completions", "failed"}, OrphanEnds(kind) PROVE Parts'
  <2>1. UNCHANGED <<lqRegistry, lqCall, lqLink, lqWire, lqTotal, lqFailed>>
    BY <1>15 DEF OrphanEnds
  <2>2. Owes' \subseteq Owes
    BY <2>1 DEF Owes, Owed
  <2>3. lqServed'.streams >= lqServed.streams /\ lqServed'.completions >= lqServed.completions
    BY <1>1, <1>3, <1>15 DEF OrphanEnds
  <2>4. TotalsOwed'
    BY <1>1, <1>2, <2>1, <2>2, <2>3, OwesLess
  <2> QED
    BY <1>2, <2>1, <2>4 DEF LinksAreRelayed, RequestIsNamed, CountedOnce, RegisteredIsActive
<1>16. ASSUME CloseLlmService \/ UNCHANGED lqVars PROVE Parts'
  <2>1. UNCHANGED <<lqRegistry, lqCall, lqLink, lqWire, lqTotal, lqServed, lqFailed>>
    BY <1>16 DEF CloseLlmService, lqVars, lqGateVars
  <2>2. CountedOnce' /\ TotalsOwed'
    BY <1>4, <2>1
  <2> QED
    BY <1>2, <2>1, <2>2 DEF LinksAreRelayed, RequestIsNamed, RegisteredIsActive
<1> QED
  BY <1>5, <1>6, <1>7, <1>8, <1>9, <1>10, <1>11, <1>12, <1>13, <1>14, <1>15, <1>16 DEF LqNext

\* Whatever is canceled, abandoned and retried: the gateway stays within its limit, an
\* identifier no stream failed with is registered only while a call is under way for it,
\* and the service counts a request the gateway completed once at most
\* (llm_service.go:51, :507, :687; server.ts:370).
THEOREM RequestsStayAccounted == LqSpec => []RequestsAccounted
<1>1. LqIInv => RequestsAccounted
  <2> SUFFICES ASSUME LqIInv PROVE RequestsAccounted
    OBVIOUS
  <2>1. Cardinality(Owes) \in Nat
    BY FS_CardinalityType DEF LqIInv, TotalsOwed
  <2>2. TotalsBounded
    BY <2>1 DEF LqIInv, LqTypeOK, TotalsOwed, TotalsBounded
  <2> QED
    BY <2>2 DEF LqIInv, RequestsAccounted
<1> QED
  BY LqInitIInv, LqStep, <1>1, PTL DEF LqSpec

-----------------------------------------------------------------------------
(* The LLM gateway.                                                        *)

\* What the gateway writes to a client, and what ends it.
Lasts == {"complete", "error", "refused"}

\* The requests as the handlers leave them.
GwRequest == [pc : {"new", "reading", "sent", "over"}, stream : BOOLEAN, via : Configured \cup {NoHint},
              out : Seq({"chunk", "call"} \cup Lasts), listens : BOOLEAN, made : Seq(Nat), open : BOOLEAN,
              got : Seq(Seq(Nat))]

\* The pieces of the i-th call of a request.
PiecesOf(q, i) == [k \in 1..q.made[i] |-> i]

\* What the provider's stream has handed on of the calls that the model made: all of
\* each, or of each the arguments of its successor, the open one not being known yet.
CallsHandedOn(q) ==
    LET kept == q.via # "anthropic"  n == Len(q.made)
    IN  /\ q.open => n > 0
        /\ Len(q.got) = IF ~kept /\ q.open THEN n - 1 ELSE n
        /\ \A i \in 1..Len(q.got) :
              q.got[i] = IF kept THEN PiecesOf(q, i) ELSE IF i = n THEN << >> ELSE PiecesOf(q, i + 1)

\* A request has nothing before it is sent, and one last event when it is over.
EventsEndOnce(q) ==
    /\ q.pc \in {"new", "reading"} => q.made = << >> /\ q.got = << >> /\ ~q.open /\ q.via = NoHint
    /\ q.pc = "sent" => q.via \in Configured
    /\ q.pc # "over" => \A i \in 1..Len(q.out) : q.out[i] \notin Lasts
    /\ q.pc = "over" =>
          /\ Len(q.out) > 0 /\ q.out[Len(q.out)] \in Lasts
          /\ \A i \in 1..(Len(q.out) - 1) : q.out[i] \notin Lasts
          /\ q.out[Len(q.out)] = "complete" => ~q.open

\* The inductive invariant of one request.
RequestRight(q) == q \in GwRequest /\ CallsHandedOn(q) /\ EventsEndOnce(q)

SentNow == {r \in GwRequests : lgReq[r].pc = "sent"}
CompleteNow == {r \in GwRequests : lgReq[r].pc = "over" /\ lgReq[r].out[Len(lgReq[r].out)] = "complete"}

\* The inductive invariant of the gateway's counters.
CountersRight ==
    /\ lgServer \in {"up", "closing", "gone"} /\ lgAvailable \subseteq Configured
    /\ lgActive = Cardinality(SentNow) /\ lgActive <= GwConcurrent
    /\ lgStats \in [Configured \cup {"all"} -> [done : Nat, errors : Nat]]
    /\ lgStats["all"].done = Cardinality(CompleteNow)

\* Everybody who still listens has an answer when the process is gone.
NobodyIsLeft == lgServer = "gone" => \A r \in GwRequests : lgReq[r].listens => lgReq[r].pc = "over"

LgIInv ==
    /\ lgReq \in [GwRequests -> GwRequest]
    /\ \A r \in GwRequests : RequestRight(lgReq[r])
    /\ CountersRight
    /\ NobodyIsLeft

\* A provider that is found is available, and the first one of the list that is.
LEMMA FirstIsFirst ==
    ASSUME NEW ps, Len(ps) \in Nat, NoHint \notin lgAvailable
    PROVE  LET ok == {i \in 1..Len(ps) : ps[i] \in lgAvailable}
           IN  /\ ok = {} => FirstAvailable(ps) = NoHint
               /\ ok # {} => \E i \in ok : FirstAvailable(ps) = ps[i] /\ \A j \in ok : i <= j
<1> DEFINE ok == {i \in 1..Len(ps) : ps[i] \in lgAvailable}
<1>1. ASSUME ok # {} PROVE \E i \in ok : \A j \in ok : i <= j
  <2>1. ok \subseteq Nat
    OBVIOUS
  <2>2. PICK x \in ok : \A y \in ok : ~(<<y, x>> \in OpToRel(<, Nat))
    <3> HIDE DEF ok
    <3> QED
      BY <1>1, <2>1, NatLessThanWellFounded, WFMin
  <2>3. \A y \in ok : ~(y < x)
    BY <2>1, <2>2 DEF OpToRel
  <2>4. \A y \in ok : x <= y
    BY <2>1, <2>3
  <2> QED
    BY <2>4
<1>2. FirstAvailable(ps) = IF ok = {} THEN NoHint ELSE ps[CHOOSE i \in ok : \A j \in ok : i <= j]
  BY DEF FirstAvailable
<1> HIDE DEF ok
<1>3. ok = {} => FirstAvailable(ps) = NoHint
  BY <1>2
<1>4. ok # {} => \E i \in ok : FirstAvailable(ps) = ps[i] /\ \A j \in ok : i <= j
  BY <1>1, <1>2
<1> QED
  BY <1>3, <1>4 DEF ok

\* The list that resolveProvider goes through.
Asked(h) == <<h.explicit, h.model, h.fallback, GwDefault>> \o GwProviders

\* Its entries: what the request names, and then the providers in their order.
LEMMA AskedInTurn ==
    ASSUME NEW h
    PROVE  /\ Len(Asked(h)) \in Nat /\ Len(Asked(h)) = 4 + Len(GwProviders) /\ Len(GwProviders) \in Nat
           /\ Asked(h)[1] = h.explicit /\ Asked(h)[2] = h.model
           /\ \A i \in 1..Len(GwProviders) : Asked(h)[i + 4] = GwProviders[i]
<1> DEFINE a == <<h.explicit, h.model, h.fallback, GwDefault>>
           S == Configured \cup {h.explicit, h.model, h.fallback, GwDefault}
<1>1. a \in Seq(S) /\ Len(a) = 4 /\ a[1] = h.explicit /\ a[2] = h.model
  OBVIOUS
<1>2. GwProviders \in Seq(S) /\ Len(GwProviders) \in Nat
  BY GwAssumption
<1>3. /\ Len(a \o GwProviders) = Len(a) + Len(GwProviders)
      /\ \A i \in 1..(Len(a) + Len(GwProviders)) :
            (a \o GwProviders)[i] = IF i <= Len(a) THEN a[i] ELSE GwProviders[i - Len(a)]
  <2> HIDE DEF a, S
  <2> QED
    BY <1>1, <1>2, ConcatProperties
<1>4. Asked(h) = a \o GwProviders
  BY DEF Asked
<1> HIDE DEF a, S
<1>5. \A i \in 1..Len(GwProviders) : Asked(h)[i + 4] = GwProviders[i]
  BY <1>1, <1>2, <1>3, <1>4
<1> QED
  BY <1>1, <1>2, <1>3, <1>4, <1>5

\* A request goes where it asks to go.
LEMMA AsksWell == ASSUME lgAvailable \subseteq Configured PROVE SentWhereAsked
<1> SUFFICES ASSUME NEW h \in Hints
             PROVE  LET p == Resolve(h)
                    IN  /\ p = NoHint <=> lgAvailable = {}
                        /\ p # NoHint => p \in lgAvailable
                        /\ h.explicit \in lgAvailable => p = h.explicit
                        /\ h.model \in lgAvailable /\ h.explicit \notin lgAvailable => p = h.model
  BY DEF SentWhereAsked
<1> DEFINE p == Resolve(h)
           ps == Asked(h)
           ok == {i \in 1..Len(ps) : ps[i] \in lgAvailable}
<1>1. NoHint \notin lgAvailable
  BY GwAssumption
<1>2. p = FirstAvailable(ps)
  BY DEF Resolve, Asked
<1>3. /\ Len(ps) \in Nat /\ Len(ps) = 4 + Len(GwProviders) /\ Len(GwProviders) \in Nat
      /\ ps[1] = h.explicit /\ ps[2] = h.model
      /\ \A i \in 1..Len(GwProviders) : ps[i + 4] = GwProviders[i]
  <2> HIDE DEF ps
  <2> QED
    BY AskedInTurn DEF ps
<1>4. /\ ok = {} => p = NoHint
      /\ ok # {} => \E i \in ok : p = ps[i] /\ \A j \in ok : i <= j
  <2> HIDE DEF ps, p
  <2> QED
    BY <1>1, <1>2, <1>3, FirstIsFirst
<1> HIDE DEF p, ps
<1>5. ok = {} => lgAvailable = {}
  <2> SUFFICES ASSUME ok = {}, NEW x \in lgAvailable PROVE FALSE
    OBVIOUS
  <2>1. PICK i \in 1..Len(GwProviders) : x = GwProviders[i]
    BY DEF Configured
  <2>2. i + 4 \in ok
    BY <1>3, <2>1
  <2> QED
    BY <2>2
<1>6. h.explicit \in lgAvailable => 1 \in ok
  BY <1>3
<1>7. h.model \in lgAvailable => 2 \in ok
  BY <1>3
<1>8. h.explicit \notin lgAvailable => 1 \notin ok
  BY <1>3
<1>9. ok # {} => p \in lgAvailable
  BY <1>4
<1>10. ASSUME h.explicit \in lgAvailable PROVE p = h.explicit
  BY <1>3, <1>4, <1>6, <1>10
<1>11. ASSUME h.model \in lgAvailable, h.explicit \notin lgAvailable PROVE p = h.model
  <2>1. PICK i \in ok : p = ps[i] /\ \A j \in ok : i <= j
    BY <1>4, <1>7, <1>11
  <2>2. i <= 2 /\ i # 1 /\ i \in 1..Len(ps)
    BY <1>7, <1>8, <1>11, <2>1
  <2>3. i = 2
    BY <1>3, <2>2
  <2> QED
    BY <1>3, <2>1, <2>3
<1> QED
  BY <1>1, <1>4, <1>5, <1>9, <1>10, <1>11 DEF p

\* Writing one more event.
LEMMA EventWritten ==
    ASSUME NEW s, s \in Seq({"chunk", "call"} \cup Lasts), NEW e \in {"chunk", "call"} \cup Lasts
    PROVE  /\ Append(s, e) \in Seq({"chunk", "call"} \cup Lasts)
           /\ Len(Append(s, e)) = Len(s) + 1 /\ Append(s, e)[Len(s) + 1] = e /\ Len(s) \in Nat
           /\ \A i \in 1..Len(s) : Append(s, e)[i] = s[i]
OBVIOUS

\* A connection whose body is awaited, and a client that leaves.
LEMMA ReadsRight ==
    ASSUME NEW q, RequestRight(q), NEW stream \in BOOLEAN
    PROVE  /\ q.pc = "new" => RequestRight([q EXCEPT !.pc = "reading", !.stream = stream, !.listens = TRUE])
           /\ RequestRight([q EXCEPT !.listens = FALSE])
<1>1. q \in GwRequest
  BY DEF RequestRight
<1>2. ASSUME q.pc = "new" PROVE RequestRight([q EXCEPT !.pc = "reading", !.stream = stream, !.listens = TRUE])
  <2> DEFINE n == [q EXCEPT !.pc = "reading", !.stream = stream, !.listens = TRUE]
  <2>1. n \in GwRequest /\ n.pc = "reading" /\ n.made = q.made /\ n.got = q.got /\ n.open = q.open /\ n.via = q.via /\ n.out = q.out
    BY <1>1 DEF GwRequest
  <2> HIDE DEF n
  <2>2. CallsHandedOn(n)
    BY <2>1 DEF RequestRight, CallsHandedOn, PiecesOf
  <2>3. EventsEndOnce(n)
    BY <1>2, <2>1 DEF RequestRight, EventsEndOnce
  <2> QED
    BY <2>1, <2>2, <2>3 DEF RequestRight, n
<1>3. RequestRight([q EXCEPT !.listens = FALSE])
  <2> DEFINE n == [q EXCEPT !.listens = FALSE]
  <2>1. n \in GwRequest /\ n.pc = q.pc /\ n.made = q.made /\ n.got = q.got /\ n.open = q.open /\ n.via = q.via /\ n.out = q.out
    BY <1>1 DEF GwRequest
  <2> HIDE DEF n
  <2>2. CallsHandedOn(n)
    BY <2>1 DEF RequestRight, CallsHandedOn, PiecesOf
  <2>3. EventsEndOnce(n)
    BY <2>1 DEF RequestRight, EventsEndOnce
  <2> QED
    BY <2>1, <2>2, <2>3 DEF RequestRight, n
<1> QED
  BY <1>2, <1>3

\* A request that is sent has nothing yet.
LEMMA SentRight ==
    ASSUME NEW q, RequestRight(q), q.pc = "reading", NEW p \in Configured
    PROVE  RequestRight([q EXCEPT !.pc = "sent", !.via = p])
<1> DEFINE n == [q EXCEPT !.pc = "sent", !.via = p]
<1>1. n \in GwRequest /\ n.pc = "sent" /\ n.made = q.made /\ n.got = q.got /\ n.open = q.open /\ n.via = p /\ n.out = q.out
  BY DEF GwRequest, RequestRight
<1> HIDE DEF n
<1>2. n.made = << >> /\ n.got = << >> /\ ~n.open
  BY <1>1 DEF RequestRight, EventsEndOnce
<1>3. CallsHandedOn(n)
  BY <1>2 DEF CallsHandedOn
<1>4. EventsEndOnce(n)
  BY <1>1 DEF RequestRight, EventsEndOnce
<1> QED
  BY <1>1, <1>3, <1>4 DEF RequestRight, n

\* The last event of a request.
LEMMA OverRight ==
    ASSUME NEW q, RequestRight(q), q.pc \in {"reading", "sent"}, NEW status \in Lasts,
           status = "complete" => ~q.open
    PROVE  LET n == [q EXCEPT !.pc = "over", !.out = Append(@, status)]
           IN  RequestRight(n) /\ n.pc = "over" /\ n.out[Len(n.out)] = status
<1> DEFINE n == [q EXCEPT !.pc = "over", !.out = Append(@, status)]
<1>1. q \in GwRequest /\ q.out \in Seq({"chunk", "call"} \cup Lasts)
  BY DEF GwRequest, RequestRight
<1>2. /\ Append(q.out, status) \in Seq({"chunk", "call"} \cup Lasts)
      /\ Len(Append(q.out, status)) = Len(q.out) + 1 /\ Append(q.out, status)[Len(q.out) + 1] = status /\ Len(q.out) \in Nat
      /\ \A i \in 1..Len(q.out) : Append(q.out, status)[i] = q.out[i]
  BY <1>1, EventWritten
<1>3. /\ n \in GwRequest /\ n.pc = "over" /\ n.made = q.made /\ n.got = q.got /\ n.open = q.open /\ n.via = q.via
      /\ n.out = Append(q.out, status)
  BY <1>1, <1>2 DEF GwRequest
<1> HIDE DEF n
<1>4. CallsHandedOn(n)
  BY <1>3 DEF RequestRight, CallsHandedOn, PiecesOf
<1>5. n.out[Len(n.out)] = status /\ Len(n.out) > 0 /\ Len(n.out) - 1 = Len(q.out)
  BY <1>2, <1>3
<1>6. \A i \in 1..Len(q.out) : q.out[i] \notin Lasts
  BY DEF RequestRight, EventsEndOnce
<1>7. \A i \in 1..(Len(n.out) - 1) : n.out[i] \notin Lasts
  BY <1>2, <1>3, <1>5, <1>6
<1>8. EventsEndOnce(n)
  BY <1>3, <1>5, <1>7 DEF EventsEndOnce
<1> QED
  BY <1>3, <1>4, <1>5, <1>8 DEF RequestRight, n

\* A chunk of text.
LEMMA TextRight ==
    ASSUME NEW q, RequestRight(q), q.pc = "sent"
    PROVE  RequestRight([q EXCEPT !.out = Append(@, "chunk")])
<1> DEFINE n == [q EXCEPT !.out = Append(@, "chunk")]
<1>1. q \in GwRequest /\ q.out \in Seq({"chunk", "call"} \cup Lasts)
  BY DEF GwRequest, RequestRight
<1>2. /\ Append(q.out, "chunk") \in Seq({"chunk", "call"} \cup Lasts)
      /\ Len(Append(q.out, "chunk")) = Len(q.out) + 1 /\ Append(q.out, "chunk")[Len(q.out) + 1] = "chunk" /\ Len(q.out) \in Nat
      /\ \A i \in 1..Len(q.out) : Append(q.out, "chunk")[i] = q.out[i]
  BY <1>1, EventWritten
<1>3. /\ n \in GwRequest /\ n.pc = "sent" /\ n.made = q.made /\ n.got = q.got /\ n.open = q.open /\ n.via = q.via
      /\ n.out = Append(q.out, "chunk")
  BY <1>1, <1>2 DEF GwRequest
<1> HIDE DEF n
<1>4. CallsHandedOn(n)
  BY <1>3 DEF RequestRight, CallsHandedOn, PiecesOf
<1>5. \A i \in 1..Len(q.out) : q.out[i] \notin Lasts
  BY DEF RequestRight, EventsEndOnce
<1>6. \A i \in 1..Len(n.out) : n.out[i] \notin Lasts
  <2> SUFFICES ASSUME NEW i \in 1..Len(n.out) PROVE n.out[i] \notin Lasts
    OBVIOUS
  <2>1. i \in 1..Len(q.out) \/ i = Len(q.out) + 1
    BY <1>2, <1>3
  <2> QED
    BY <1>2, <1>3, <1>5, <2>1 DEF Lasts
<1>7. EventsEndOnce(n)
  BY <1>3, <1>6 DEF EventsEndOnce, RequestRight
<1> QED
  BY <1>3, <1>4, <1>7 DEF RequestRight, n

\* The pieces of a call are a sequence, empty at first, to which one more is appended.
LEMMA PiecesGrow ==
    ASSUME NEW m \in Nat, NEW i \in Nat
    PROVE  /\ [k \in 1..m |-> i] \in Seq(Nat)
           /\ m = 0 => [k \in 1..m |-> i] = << >>
           /\ Append([k \in 1..m |-> i], i) = [k \in 1..(m + 1) |-> i]
<1> DEFINE s == [k \in 1..m |-> i]  t == [k \in 1..(m + 1) |-> i]
<1>1. s \in Seq(Nat) /\ Len(s) = m /\ t \in Seq(Nat) /\ Len(t) = m + 1
  OBVIOUS
<1>2. m = 0 => s = << >>
  BY <1>1, EmptySeq
<1>3. Append(s, i) \in Seq(Nat) /\ Len(Append(s, i)) = m + 1
  BY <1>1, AppendProperties
<1>4. \A k \in 1..(m + 1) : Append(s, i)[k] = i /\ t[k] = i
  <2>1. \A k \in 1..m : Append(s, i)[k] = s[k]
    BY <1>1, AppendProperties
  <2>2. Append(s, i)[m + 1] = i
    BY <1>1, AppendProperties
  <2>3. \A k \in 1..m : s[k] = i
    OBVIOUS
  <2> QED
    BY <2>1, <2>2, <2>3
<1>5. Append(s, i) = t
  <2> HIDE DEF s, t
  <2> QED
    BY <1>1, <1>3, <1>4, SeqEqual
<1> QED
  BY <1>1, <1>2, <1>5

\* The model starts a call: it is known at once, or only when it is complete.
LEMMA StartRight ==
    ASSUME NEW q, RequestRight(q), q.pc = "sent", ~q.open
    PROVE  RequestRight([q EXCEPT !.made = Append(@, 0), !.open = TRUE,
                                  !.got = IF q.via # "anthropic" THEN Append(@, << >>) ELSE @])
<1> DEFINE kept == q.via # "anthropic"
           n == [q EXCEPT !.made = Append(@, 0), !.open = TRUE, !.got = IF kept THEN Append(@, << >>) ELSE @]
           l == Len(q.made)
           g == Len(q.got)
<1>1. q \in GwRequest /\ q.made \in Seq(Nat) /\ q.got \in Seq(Seq(Nat)) /\ l \in Nat /\ g \in Nat
  BY DEF GwRequest, RequestRight
<1>2. /\ Append(q.made, 0) \in Seq(Nat) /\ Len(Append(q.made, 0)) = l + 1 /\ Append(q.made, 0)[l + 1] = 0
      /\ \A i \in 1..l : Append(q.made, 0)[i] = q.made[i]
  BY <1>1
<1>3. /\ << >> \in Seq(Nat) /\ Append(q.got, << >>) \in Seq(Seq(Nat)) /\ Len(Append(q.got, << >>)) = g + 1
      /\ Append(q.got, << >>)[g + 1] = << >> /\ \A i \in 1..g : Append(q.got, << >>)[i] = q.got[i]
  BY <1>1
<1>4. /\ n \in GwRequest /\ n.pc = "sent" /\ n.made = Append(q.made, 0) /\ n.open = TRUE /\ n.via = q.via /\ n.out = q.out
      /\ n.got = IF kept THEN Append(q.got, << >>) ELSE q.got
  BY <1>1, <1>2, <1>3 DEF GwRequest
<1>5. g = l /\ \A i \in 1..g : q.got[i] = IF kept THEN PiecesOf(q, i) ELSE IF i = l THEN << >> ELSE PiecesOf(q, i + 1)
  BY DEF RequestRight, CallsHandedOn
<1> HIDE DEF n, l, g, kept
<1>6. \A i \in 1..l : PiecesOf(n, i) = PiecesOf(q, i)
  BY <1>2, <1>4 DEF PiecesOf
<1>7. PiecesOf(n, l + 1) = << >>
  <2>1. n.made[l + 1] = 0
    BY <1>2, <1>4
  <2>2. PiecesOf(n, l + 1) = [k \in 1..0 |-> l + 1]
    BY <2>1 DEF PiecesOf
  <2> QED
    BY <1>1, <2>2, PiecesGrow
<1>8. Len(n.made) = l + 1 /\ Len(n.got) = IF kept THEN l + 1 ELSE l
  BY <1>2, <1>3, <1>4, <1>5 DEF g
<1>9. ASSUME NEW i \in 1..Len(n.got)
      PROVE  n.got[i] = IF kept THEN PiecesOf(n, i) ELSE IF i = l + 1 THEN << >> ELSE PiecesOf(n, i + 1)
  <2>1. CASE kept /\ i = l + 1
    BY <1>3, <1>4, <1>5, <1>7, <2>1
  <2>2. CASE kept /\ i # l + 1
    <3>1. i \in 1..l
      BY <1>1, <1>8, <2>2
    <3> QED
      BY <1>3, <1>4, <1>5, <1>6, <2>2, <3>1
  <2>3. CASE ~kept
    <3>1. i \in 1..l /\ i # l + 1
      BY <1>1, <1>8, <2>3
    <3>2. i # l => i + 1 \in 1..l
      BY <1>1, <3>1
    <3> QED
      BY <1>4, <1>5, <1>6, <1>7, <2>3, <3>1, <3>2
  <2> QED
    BY <2>1, <2>2, <2>3
<1>10. CallsHandedOn(n)
  BY <1>1, <1>4, <1>8, <1>9 DEF CallsHandedOn, kept
<1>11. EventsEndOnce(n)
  BY <1>4 DEF EventsEndOnce, RequestRight
<1> QED
  BY <1>4, <1>10, <1>11 DEF RequestRight, n, kept

\* The model writes a piece of the arguments of the open call.
LEMMA ArgumentsRight ==
    ASSUME NEW q, RequestRight(q), q.pc = "sent", q.open
    PROVE  LET n == Len(q.made)  k == Len(q.got)
           IN  RequestRight([q EXCEPT !.made = [q.made EXCEPT ![n] = @ + 1],
                                      !.got = IF k = 0 THEN @ ELSE [q.got EXCEPT ![k] = Append(@, n)],
                                      !.out = IF k = 0 THEN @ ELSE Append(@, "call")])
<1> DEFINE kept == q.via # "anthropic"
           l == Len(q.made)
           g == Len(q.got)
           made == [q.made EXCEPT ![l] = @ + 1]
           got == IF g = 0 THEN q.got ELSE [q.got EXCEPT ![g] = Append(@, l)]
           out == IF g = 0 THEN q.out ELSE Append(q.out, "call")
           n == [q EXCEPT !.made = made, !.got = got, !.out = out]
<1>1. q \in GwRequest /\ q.made \in Seq(Nat) /\ q.got \in Seq(Seq(Nat)) /\ l \in Nat /\ g \in Nat
      /\ q.out \in Seq({"chunk", "call"} \cup Lasts)
  BY DEF GwRequest, RequestRight
<1>2. /\ l > 0 /\ g = IF kept THEN l ELSE l - 1
      /\ \A i \in 1..g : q.got[i] = IF kept THEN PiecesOf(q, i) ELSE IF i = l THEN << >> ELSE PiecesOf(q, i + 1)
  BY DEF RequestRight, CallsHandedOn
<1>3. /\ made \in Seq(Nat) /\ Len(made) = l /\ made[l] = q.made[l] + 1 /\ q.made[l] \in Nat
      /\ \A i \in 1..l : i # l => made[i] = q.made[i]
  BY <1>1, <1>2
<1>4. g > 0 => q.got[g] = [k \in 1..q.made[l] |-> l]
  <2> HIDE DEF l, g, kept
  <2>1. g > 0 /\ kept => g = l /\ q.got[g] = PiecesOf(q, g)
    BY <1>1, <1>2
  <2>2. g > 0 /\ ~kept => g + 1 = l /\ q.got[g] = PiecesOf(q, g + 1)
    BY <1>1, <1>2
  <2>3. g > 0 => q.got[g] = PiecesOf(q, l)
    BY <2>1, <2>2
  <2> QED
    BY <2>3 DEF PiecesOf
<1>5. g > 0 => Append(q.got[g], l) = [k \in 1..made[l] |-> l] /\ Append(q.got[g], l) \in Seq(Nat)
  <2> HIDE DEF made, l, g
  <2>1. g > 0 => Append(q.got[g], l) = [k \in 1..made[l] |-> l]
    <3>1. Append([k \in 1..q.made[l] |-> l], l) = [k \in 1..(q.made[l] + 1) |-> l]
      BY <1>1, <1>3, PiecesGrow
    <3> QED
      BY <1>3, <1>4, <3>1
  <2>2. made[l] \in Nat
    BY <1>3
  <2>3. [k \in 1..made[l] |-> l] \in Seq(Nat)
    BY <1>1, <2>2, PiecesGrow
  <2> QED
    BY <2>1, <2>3
<1>6. /\ got \in Seq(Seq(Nat)) /\ Len(got) = g
      /\ g > 0 => got[g] = [k \in 1..made[l] |-> l]
      /\ \A i \in 1..g : i # g => got[i] = q.got[i]
  <2>1. CASE g = 0
    BY <1>1, <2>1
  <2>2. CASE g > 0
    <3> DEFINE a == Append(q.got[g], l)
    <3>1. a \in Seq(Nat) /\ a = [k \in 1..made[l] |-> l]
      BY <1>5, <2>2
    <3>2. got = [q.got EXCEPT ![g] = a]
      BY <2>2
    <3> HIDE DEF a, made, got
    <3> QED
      BY <1>1, <2>2, <3>1, <3>2
  <2> QED
    BY <1>1, <2>1, <2>2
<1>7. out \in Seq({"chunk", "call"} \cup Lasts) /\ \A i \in 1..Len(out) : out[i] \notin Lasts
  <2>1. \A i \in 1..Len(q.out) : q.out[i] \notin Lasts
    BY DEF RequestRight, EventsEndOnce
  <2>2. /\ Append(q.out, "call") \in Seq({"chunk", "call"} \cup Lasts)
        /\ Len(Append(q.out, "call")) = Len(q.out) + 1 /\ Append(q.out, "call")[Len(q.out) + 1] = "call" /\ Len(q.out) \in Nat
        /\ \A i \in 1..Len(q.out) : Append(q.out, "call")[i] = q.out[i]
    BY <1>1, EventWritten
  <2>3. \A i \in 1..Len(Append(q.out, "call")) : Append(q.out, "call")[i] \notin Lasts
    <3> SUFFICES ASSUME NEW i \in 1..Len(Append(q.out, "call")) PROVE Append(q.out, "call")[i] \notin Lasts
      OBVIOUS
    <3>1. i \in 1..Len(q.out) \/ i = Len(q.out) + 1
      BY <2>2
    <3> QED
      BY <2>1, <2>2, <3>1 DEF Lasts
  <2> QED
    BY <1>1, <2>1, <2>2, <2>3
<1> HIDE DEF made, got, out
<1>8. /\ n \in GwRequest /\ n.pc = "sent" /\ n.made = made /\ n.open = TRUE /\ n.via = q.via /\ n.out = out /\ n.got = got
  BY <1>1, <1>3, <1>6, <1>7 DEF GwRequest
<1> HIDE DEF n, kept, l, g
<1>9. \A i \in 1..l : i # l => PiecesOf(n, i) = PiecesOf(q, i)
  BY <1>3, <1>8 DEF PiecesOf
<1>10. PiecesOf(n, l) = [k \in 1..made[l] |-> l]
  BY <1>8 DEF PiecesOf
<1>11. ASSUME NEW i \in 1..g
       PROVE  n.got[i] = IF kept THEN PiecesOf(n, i) ELSE IF i = l THEN << >> ELSE PiecesOf(n, i + 1)
  <2>1. CASE i = g
    <3>1. g > 0
      BY <1>1, <2>1
    <3>2. n.got[i] = PiecesOf(n, l)
      BY <1>6, <1>8, <1>10, <2>1, <3>1
    <3>3. IF kept THEN i = l ELSE i + 1 = l /\ i # l
      BY <1>1, <1>2, <2>1
    <3> QED
      BY <3>2, <3>3
  <2>2. ASSUME i # g
        PROVE  n.got[i] = IF kept THEN PiecesOf(n, i) ELSE IF i = l THEN << >> ELSE PiecesOf(n, i + 1)
    <3>1. n.got[i] = q.got[i]
      BY <1>6, <1>8, <2>2
    <3>2. IF kept THEN i \in 1..l /\ i # l ELSE i + 1 \in 1..l /\ i + 1 # l /\ i # l
      BY <1>1, <1>2, <2>2
    <3> QED
      BY <1>2, <1>9, <3>1, <3>2
  <2> QED
    BY <2>1, <2>2
<1>12. Len(n.made) = l /\ Len(n.got) = g
  BY <1>3, <1>6, <1>8
<1>13. CallsHandedOn(n)
  BY <1>1, <1>2, <1>8, <1>11, <1>12 DEF CallsHandedOn, kept
<1>14. EventsEndOnce(n)
  BY <1>7, <1>8 DEF EventsEndOnce, RequestRight
<1> QED
  BY <1>8, <1>13, <1>14 DEF RequestRight, n, made, got, out, l, g

\* The model ends the call: the block that is complete becomes known.
LEMMA EndRight ==
    ASSUME NEW q, RequestRight(q), q.pc = "sent", q.open
    PROVE  RequestRight([q EXCEPT !.open = FALSE, !.got = IF q.via # "anthropic" THEN @ ELSE Append(@, << >>)])
<1> DEFINE kept == q.via # "anthropic"
           n == [q EXCEPT !.open = FALSE, !.got = IF kept THEN @ ELSE Append(@, << >>)]
           l == Len(q.made)
           g == Len(q.got)
<1>1. q \in GwRequest /\ q.made \in Seq(Nat) /\ q.got \in Seq(Seq(Nat)) /\ l \in Nat /\ g \in Nat
  BY DEF GwRequest, RequestRight
<1>2. /\ l > 0 /\ g = IF kept THEN l ELSE l - 1
      /\ \A i \in 1..g : q.got[i] = IF kept THEN PiecesOf(q, i) ELSE IF i = l THEN << >> ELSE PiecesOf(q, i + 1)
  BY DEF RequestRight, CallsHandedOn
<1>3. /\ << >> \in Seq(Nat) /\ Append(q.got, << >>) \in Seq(Seq(Nat)) /\ Len(Append(q.got, << >>)) = g + 1
      /\ Append(q.got, << >>)[g + 1] = << >> /\ \A i \in 1..g : Append(q.got, << >>)[i] = q.got[i]
  BY <1>1
<1>4. /\ n \in GwRequest /\ n.pc = "sent" /\ n.made = q.made /\ n.open = FALSE /\ n.via = q.via /\ n.out = q.out
      /\ n.got = IF kept THEN q.got ELSE Append(q.got, << >>)
  BY <1>1, <1>3 DEF GwRequest
<1> HIDE DEF n, l, g, kept
<1>5. \A i : PiecesOf(n, i) = PiecesOf(q, i)
  BY <1>4 DEF PiecesOf
<1>6. Len(n.made) = l /\ Len(n.got) = l
  BY <1>1, <1>2, <1>3, <1>4 DEF l, g
<1>7. ASSUME NEW i \in 1..l
      PROVE  n.got[i] = IF kept THEN PiecesOf(n, i) ELSE IF i = l THEN << >> ELSE PiecesOf(n, i + 1)
  <2>1. CASE kept
    BY <1>2, <1>4, <1>5, <2>1
  <2>2. CASE ~kept /\ i = l
    BY <1>1, <1>2, <1>3, <1>4, <2>2
  <2>3. CASE ~kept /\ i # l
    <3>1. i \in 1..g
      BY <1>1, <1>2, <2>3
    <3> QED
      BY <1>2, <1>3, <1>4, <1>5, <2>3, <3>1
  <2> QED
    BY <2>1, <2>2, <2>3
<1>8. CallsHandedOn(n)
  BY <1>4, <1>6, <1>7 DEF CallsHandedOn, kept
<1>9. EventsEndOnce(n)
  BY <1>4 DEF EventsEndOnce, RequestRight
<1> QED
  BY <1>4, <1>8, <1>9 DEF RequestRight, n, kept

\* A step that changes one request as its lemma allows.
LEMMA OneRequest ==
    ASSUME LgIInv, NEW r \in GwRequests, NEW q, RequestRight(q), lgReq' = [lgReq EXCEPT ![r] = q]
    PROVE  /\ lgReq' \in [GwRequests -> GwRequest] /\ lgReq'[r] = q
           /\ \A d \in GwRequests : d # r => lgReq'[d] = lgReq[d]
           /\ \A d \in GwRequests : RequestRight(lgReq'[d])
<1>1. q \in GwRequest /\ lgReq \in [GwRequests -> GwRequest] /\ \A d \in GwRequests : RequestRight(lgReq[d])
  BY DEF RequestRight, LgIInv
<1>2. /\ lgReq' \in [GwRequests -> GwRequest] /\ lgReq'[r] = q
      /\ \A d \in GwRequests : d # r => lgReq'[d] = lgReq[d]
  BY <1>1
<1> QED
  BY <1>1, <1>2

\* A step after which the same requests are under way and complete leaves the counters.
LEMMA CountersStay ==
    ASSUME LgIInv, NEW r \in GwRequests, lgReq' \in [GwRequests -> GwRequest],
           \A d \in GwRequests : d # r => lgReq'[d] = lgReq[d],
           lgReq[r].pc = "sent" <=> lgReq'[r].pc = "sent",
           lgReq[r].pc = "over" => lgReq'[r].pc = "over" /\ lgReq'[r].out = lgReq[r].out,
           lgReq'[r].pc = "over" =>
              lgReq[r].pc = "over" \/ lgReq'[r].out[Len(lgReq'[r].out)] # "complete",
           lgReq'[r].listens /\ lgServer = "gone" => lgReq[r].listens,
           lgServer' = lgServer, lgAvailable' = lgAvailable, lgActive' = lgActive, lgStats' = lgStats
    PROVE  CountersRight' /\ NobodyIsLeft'
<1>1. SentNow' = SentNow
  BY DEF SentNow
<1>2. CompleteNow' = CompleteNow
  <2>1. ASSUME NEW d \in GwRequests
        PROVE  (lgReq'[d].pc = "over" /\ lgReq'[d].out[Len(lgReq'[d].out)] = "complete")
               <=> (lgReq[d].pc = "over" /\ lgReq[d].out[Len(lgReq[d].out)] = "complete")
    BY <2>1
  <2> QED
    BY <2>1 DEF CompleteNow
<1>3. CountersRight'
  BY <1>1, <1>2 DEF LgIInv, CountersRight
<1>4. NobodyIsLeft'
  BY DEF LgIInv, NobodyIsLeft
<1> QED
  BY <1>3, <1>4

\* The sets that are counted are finite, and a request enters or leaves them alone.
LEMMA CountedSets ==
    ASSUME LgIInv, NEW r \in GwRequests, \A d \in GwRequests : d # r => lgReq'[d] = lgReq[d]
    PROVE  /\ Cardinality(SentNow) \in Nat /\ Cardinality(CompleteNow) \in Nat
           /\ lgReq[r].pc # "sent" /\ lgReq'[r].pc = "sent" => Cardinality(SentNow') = Cardinality(SentNow) + 1
           /\ lgReq[r].pc = "sent" /\ lgReq'[r].pc # "sent" =>
                 Cardinality(SentNow') = Cardinality(SentNow) - 1 /\ Cardinality(SentNow) > 0
           /\ lgReq[r].pc # "over" /\ lgReq'[r].pc = "over" /\ lgReq'[r].out[Len(lgReq'[r].out)] = "complete" =>
                 Cardinality(CompleteNow') = Cardinality(CompleteNow) + 1
           /\ lgReq[r].pc # "over" /\ lgReq'[r].pc = "over" /\ lgReq'[r].out[Len(lgReq'[r].out)] # "complete" =>
                 CompleteNow' = CompleteNow
<1>1. IsFiniteSet(SentNow) /\ IsFiniteSet(CompleteNow)
  BY GwAssumption, FS_Subset DEF SentNow, CompleteNow
<1>2. Cardinality(SentNow) \in Nat /\ Cardinality(CompleteNow) \in Nat
  BY <1>1, FS_CardinalityType
<1>3. ASSUME lgReq[r].pc # "sent", lgReq'[r].pc = "sent" PROVE Cardinality(SentNow') = Cardinality(SentNow) + 1
  <2>1. SentNow' = SentNow \cup {r} /\ r \notin SentNow
    BY <1>3 DEF SentNow
  <2> QED
    BY <1>1, <2>1, FS_AddElement
<1>4. ASSUME lgReq[r].pc = "sent", lgReq'[r].pc # "sent"
      PROVE  Cardinality(SentNow') = Cardinality(SentNow) - 1 /\ Cardinality(SentNow) > 0
  <2>1. SentNow' = SentNow \ {r} /\ r \in SentNow
    BY <1>4 DEF SentNow
  <2>2. Cardinality(SentNow) # 0
    BY <1>1, <2>1, FS_EmptySet
  <2>3. Cardinality(SentNow \ {r}) = Cardinality(SentNow) - 1
    <3> DEFINE S == SentNow
    <3> HIDE DEF S
    <3>1. r \in S /\ IsFiniteSet(S)
      BY <1>1, <2>1 DEF S
    <3>2. Cardinality(S \ {r}) = Cardinality(S) - 1
      BY <3>1, FS_RemoveElement
    <3> QED
      BY <3>2 DEF S
  <2> QED
    BY <1>2, <2>1, <2>2, <2>3
<1>5. ASSUME lgReq[r].pc # "over", lgReq'[r].pc = "over", lgReq'[r].out[Len(lgReq'[r].out)] = "complete"
      PROVE  Cardinality(CompleteNow') = Cardinality(CompleteNow) + 1
  <2>1. CompleteNow' = CompleteNow \cup {r} /\ r \notin CompleteNow
    BY <1>5 DEF CompleteNow
  <2> QED
    BY <1>1, <2>1, FS_AddElement
<1>6. ASSUME lgReq[r].pc # "over", lgReq'[r].pc = "over", lgReq'[r].out[Len(lgReq'[r].out)] # "complete"
      PROVE  CompleteNow' = CompleteNow
  BY <1>6 DEF CompleteNow
<1> QED
  BY <1>2, <1>3, <1>4, <1>5, <1>6

\* Connections, clients that leave, and the provider's stream.
LEMMA StreamSteps ==
    ASSUME LgIInv, NEW r \in GwRequests,
           \/ \E stream \in BOOLEAN : Connect(r, stream)
           \/ Leave(r) \/ Text(r) \/ StartCall(r) \/ Arguments(r) \/ EndCall(r)
    PROVE  LgIInv'
<1> DEFINE q == lgReq[r]
<1>0. RequestRight(q) /\ lgReq \in [GwRequests -> GwRequest] /\ UNCHANGED <<lgAvailable, lgActive, lgStats, lgServer>>
  BY DEF LgIInv, Connect, Leave, Text, StartCall, Arguments, EndCall, Streams
<1> SUFFICES \E n : /\ RequestRight(n) /\ lgReq' = [lgReq EXCEPT ![r] = n]
                    /\ n.pc = "sent" <=> q.pc = "sent"
                    /\ q.pc = "over" => n.pc = "over" /\ n.out = q.out
                    /\ n.pc = "over" => q.pc = "over"
                    /\ n.listens /\ lgServer = "gone" => q.listens
  <2>1. PICK n : /\ RequestRight(n) /\ lgReq' = [lgReq EXCEPT ![r] = n]
                 /\ n.pc = "sent" <=> q.pc = "sent"
                 /\ q.pc = "over" => n.pc = "over" /\ n.out = q.out
                 /\ n.pc = "over" => q.pc = "over"
                 /\ n.listens /\ lgServer = "gone" => q.listens
    OBVIOUS
  <2>2. /\ lgReq' \in [GwRequests -> GwRequest] /\ lgReq'[r] = n
        /\ \A d \in GwRequests : d # r => lgReq'[d] = lgReq[d]
        /\ \A d \in GwRequests : RequestRight(lgReq'[d])
    BY <2>1, OneRequest
  <2>3. CountersRight' /\ NobodyIsLeft'
    BY <1>0, <2>1, <2>2, CountersStay
  <2> QED
    BY <2>2, <2>3 DEF LgIInv
<1>1. ASSUME NEW stream \in BOOLEAN, Connect(r, stream)
      PROVE  LET n == [q EXCEPT !.pc = "reading", !.stream = stream, !.listens = TRUE]
             IN  /\ RequestRight(n) /\ lgReq' = [lgReq EXCEPT ![r] = n] /\ n.pc = "reading" /\ q.pc = "new"
                 /\ lgServer # "gone"
  <2>1. q.pc = "new" /\ lgServer # "gone" /\ RequestRight([q EXCEPT !.pc = "reading", !.stream = stream, !.listens = TRUE])
    BY <1>0, <1>1, ReadsRight DEF Connect
  <2> QED
    BY <1>0, <1>1, <2>1 DEF Connect, GwRequest
<1>2. ASSUME Leave(r)
      PROVE  LET n == [q EXCEPT !.listens = FALSE]
             IN  RequestRight(n) /\ lgReq' = [lgReq EXCEPT ![r] = n] /\ n.pc = q.pc /\ n.out = q.out /\ n.listens = FALSE
  <2>1. RequestRight([q EXCEPT !.listens = FALSE])
    BY <1>0, ReadsRight
  <2> QED
    BY <1>0, <1>2, <2>1 DEF Leave, GwRequest
<1>3. ASSUME Text(r)
      PROVE  LET n == [q EXCEPT !.out = Append(@, "chunk")]
             IN  RequestRight(n) /\ lgReq' = [lgReq EXCEPT ![r] = n] /\ n.pc = "sent" /\ q.pc = "sent" /\ n.listens = q.listens
  <2>1. q.pc = "sent" /\ RequestRight([q EXCEPT !.out = Append(@, "chunk")])
    BY <1>0, <1>3, TextRight DEF Text, Streams
  <2> QED
    BY <1>0, <1>3, <2>1 DEF Text, GwRequest
<1>4. ASSUME StartCall(r)
      PROVE  LET n == [q EXCEPT !.made = Append(@, 0), !.open = TRUE,
                                !.got = IF q.via # "anthropic" THEN Append(@, << >>) ELSE @]
             IN  RequestRight(n) /\ lgReq' = [lgReq EXCEPT ![r] = n] /\ n.pc = "sent" /\ q.pc = "sent" /\ n.listens = q.listens
  <2>1. q.pc = "sent" /\ ~q.open
    BY <1>4 DEF StartCall, Streams
  <2>2. RequestRight([q EXCEPT !.made = Append(@, 0), !.open = TRUE,
                                !.got = IF q.via # "anthropic" THEN Append(@, << >>) ELSE @])
    BY <1>0, <2>1, StartRight
  <2> QED
    BY <1>0, <1>4, <2>1, <2>2 DEF StartCall, BlockIsKept, GwRequest
<1>5. ASSUME Arguments(r)
      PROVE  LET l == Len(q.made)  k == Len(q.got)
                 n == [q EXCEPT !.made = [q.made EXCEPT ![l] = @ + 1],
                                !.got = IF k = 0 THEN @ ELSE [q.got EXCEPT ![k] = Append(@, l)],
                                !.out = IF k = 0 THEN @ ELSE Append(@, "call")]
             IN  RequestRight(n) /\ lgReq' = [lgReq EXCEPT ![r] = n] /\ n.pc = "sent" /\ q.pc = "sent" /\ n.listens = q.listens
  <2>1. q.pc = "sent" /\ q.open
    BY <1>5 DEF Arguments, Streams
  <2>2. LET l == Len(q.made)  k == Len(q.got)
        IN  RequestRight([q EXCEPT !.made = [q.made EXCEPT ![l] = @ + 1],
                                   !.got = IF k = 0 THEN @ ELSE [q.got EXCEPT ![k] = Append(@, l)],
                                   !.out = IF k = 0 THEN @ ELSE Append(@, "call")])
    BY <1>0, <2>1, ArgumentsRight
  <2> QED
    BY <1>0, <1>5, <2>1, <2>2 DEF Arguments, GwRequest
<1>6. ASSUME EndCall(r)
      PROVE  LET n == [q EXCEPT !.open = FALSE, !.got = IF q.via # "anthropic" THEN @ ELSE Append(@, << >>)]
             IN  RequestRight(n) /\ lgReq' = [lgReq EXCEPT ![r] = n] /\ n.pc = "sent" /\ q.pc = "sent" /\ n.listens = q.listens
  <2>1. q.pc = "sent" /\ q.open
    BY <1>6 DEF EndCall
  <2>2. RequestRight([q EXCEPT !.open = FALSE, !.got = IF q.via # "anthropic" THEN @ ELSE Append(@, << >>)])
    BY <1>0, <2>1, EndRight
  <2> QED
    BY <1>0, <1>6, <2>1, <2>2 DEF EndCall, BlockIsKept, GwRequest
<1> HIDE DEF q
<1> QED
  BY <1>1, <1>2, <1>3, <1>4, <1>5, <1>6

\* A request goes to a provider while there is a slot, or is refused.
LEMMA Dispatches ==
    ASSUME LgIInv, NEW r \in GwRequests, NEW valid \in BOOLEAN, NEW h \in Hints, Dispatch(r, valid, h)
    PROVE  LgIInv'
<1> DEFINE q == lgReq[r]
           p == Resolve(h)
<1>1. /\ RequestRight(q) /\ lgReq \in [GwRequests -> GwRequest] /\ q.pc = "reading"
      /\ lgServer # "gone" /\ UNCHANGED <<lgAvailable, lgStats, lgServer>>
      /\ CountersRight /\ lgAvailable \subseteq Configured /\ GwConcurrent \in Nat
  BY GwAssumption DEF LgIInv, Dispatch, CountersRight
<1>2. p # NoHint => p \in Configured
  BY <1>1, AsksWell DEF SentWhereAsked
<1>3. CASE lgReq' = Over(r, "refused") /\ lgActive' = lgActive
  <2> DEFINE n == [q EXCEPT !.pc = "over", !.out = Append(@, "refused")]
  <2>1. RequestRight(n) /\ n.pc = "over" /\ n.out[Len(n.out)] = "refused"
    BY <1>1, OverRight DEF Lasts
  <2>2. lgReq' = [lgReq EXCEPT ![r] = n]
    BY <1>1, <1>3 DEF Over
  <2> HIDE DEF n
  <2>3. /\ lgReq' \in [GwRequests -> GwRequest] /\ lgReq'[r] = n
        /\ \A d \in GwRequests : d # r => lgReq'[d] = lgReq[d]
        /\ \A d \in GwRequests : RequestRight(lgReq'[d])
    BY <2>1, <2>2, OneRequest
  <2>4. CountersRight' /\ NobodyIsLeft'
    BY <1>1, <1>3, <2>1, <2>3, CountersStay
  <2> QED
    BY <2>3, <2>4 DEF LgIInv
<1>4. ASSUME p # NoHint, lgActive < GwConcurrent, lgActive' = lgActive + 1,
             lgReq' = [lgReq EXCEPT ![r].pc = "sent", ![r].via = p]
      PROVE  LgIInv'
  <2> DEFINE n == [q EXCEPT !.pc = "sent", !.via = p]
  <2>1. RequestRight(n)
    <3> HIDE DEF p, q
    <3> QED
      BY <1>1, <1>2, <1>4, SentRight
  <2>2. lgReq' = [lgReq EXCEPT ![r] = n] /\ n.pc = "sent"
    BY <1>1, <1>4 DEF GwRequest
  <2> HIDE DEF n
  <2>3. /\ lgReq' \in [GwRequests -> GwRequest] /\ lgReq'[r] = n
        /\ \A d \in GwRequests : d # r => lgReq'[d] = lgReq[d]
        /\ \A d \in GwRequests : RequestRight(lgReq'[d])
    BY <2>1, <2>2, OneRequest
  <2>4. Cardinality(SentNow') = Cardinality(SentNow) + 1 /\ Cardinality(SentNow) \in Nat
    BY <1>1, <2>2, <2>3, CountedSets
  <2>5. CompleteNow' = CompleteNow
    BY <1>1, <2>2, <2>3 DEF CompleteNow
  <2>6. CountersRight'
    BY <1>1, <1>4, <2>4, <2>5 DEF CountersRight
  <2>7. NobodyIsLeft'
    BY <1>1 DEF NobodyIsLeft
  <2> QED
    BY <2>3, <2>6, <2>7 DEF LgIInv
<1>5. lgActive \in Nat
  <2>1. IsFiniteSet(SentNow)
    BY GwAssumption, FS_Subset DEF SentNow
  <2> QED
    BY <1>1, <2>1, FS_CardinalityType DEF CountersRight
<1> QED
  BY <1>1, <1>3, <1>4, <1>5 DEF Dispatch

\* A request under way ends: its slot is free, and it is counted.
LEMMA Ends ==
    ASSUME LgIInv, NEW r \in GwRequests, Completes(r) \/ Breaks(r)
    PROVE  LgIInv'
<1> DEFINE q == lgReq[r]
<1>1. /\ RequestRight(q) /\ lgReq \in [GwRequests -> GwRequest] /\ q.pc = "sent" /\ q.via \in Configured
      /\ lgServer # "gone" /\ UNCHANGED <<lgAvailable, lgServer>> /\ lgActive' = lgActive - 1
      /\ CountersRight /\ GwConcurrent \in Nat /\ q.via # "all"
  BY GwAssumption DEF LgIInv, Completes, Breaks, RequestRight, EventsEndOnce
<1>2. /\ lgStats \in [Configured \cup {"all"} -> [done : Nat, errors : Nat]]
      /\ lgStats["all"].done = Cardinality(CompleteNow)
  BY <1>1 DEF CountersRight
<1>3. PICK status \in Lasts :
        /\ lgReq' = Over(r, status) /\ (status = "complete" => ~q.open)
        /\ lgStats' \in [Configured \cup {"all"} -> [done : Nat, errors : Nat]]
        /\ lgStats'["all"].done = lgStats["all"].done + (IF status = "complete" THEN 1 ELSE 0)
  <2>1. CASE Completes(r)
    <3>1. lgReq' = Over(r, "complete") /\ ~q.open /\ lgStats' = Counted(q.via, "done")
      BY <2>1 DEF Completes
    <3> HIDE DEF q
    <3>2. lgStats' = [lgStats EXCEPT ![q.via].done = @ + 1, !["all"].done = @ + 1]
      BY <3>1 DEF Counted
    <3>3. /\ lgStats' \in [Configured \cup {"all"} -> [done : Nat, errors : Nat]]
          /\ lgStats'["all"].done = lgStats["all"].done + 1
      BY <1>1, <1>2, <3>2
    <3> QED
      BY <3>1, <3>3 DEF Lasts
  <2>2. CASE Breaks(r)
    <3>1. lgReq' = Over(r, "error") /\ lgStats' = Counted(q.via, "errors")
      BY <2>2 DEF Breaks
    <3> HIDE DEF q
    <3>2. lgStats' = [lgStats EXCEPT ![q.via].errors = @ + 1]
      BY <3>1 DEF Counted
    <3>3. /\ lgStats' \in [Configured \cup {"all"} -> [done : Nat, errors : Nat]]
          /\ lgStats'["all"].done = lgStats["all"].done /\ lgStats["all"].done \in Nat
      BY <1>1, <1>2, <3>2
    <3> QED
      BY <3>1, <3>3 DEF Lasts
  <2> QED
    BY <2>1, <2>2
<1> DEFINE n == [q EXCEPT !.pc = "over", !.out = Append(@, status)]
<1>4. RequestRight(n) /\ n.pc = "over" /\ n.out[Len(n.out)] = status
  BY <1>1, <1>3, OverRight
<1>5. lgReq' = [lgReq EXCEPT ![r] = n]
  BY <1>1, <1>3 DEF Over
<1> HIDE DEF n
<1>6. /\ lgReq' \in [GwRequests -> GwRequest] /\ lgReq'[r] = n
      /\ \A d \in GwRequests : d # r => lgReq'[d] = lgReq[d]
      /\ \A d \in GwRequests : RequestRight(lgReq'[d])
  BY <1>4, <1>5, OneRequest
<1>7. Cardinality(SentNow') = Cardinality(SentNow) - 1 /\ Cardinality(SentNow) > 0 /\ Cardinality(SentNow) \in Nat
  BY <1>1, <1>4, <1>6, CountedSets
<1>8. Cardinality(CompleteNow) \in Nat
      /\ Cardinality(CompleteNow') = Cardinality(CompleteNow) + (IF status = "complete" THEN 1 ELSE 0)
  <2>1. status = "complete" => Cardinality(CompleteNow') = Cardinality(CompleteNow) + 1
    BY <1>1, <1>4, <1>6, CountedSets
  <2>2. status # "complete" => CompleteNow' = CompleteNow
    BY <1>1, <1>4, <1>6, CountedSets
  <2>3. Cardinality(CompleteNow) \in Nat
    BY <1>6, CountedSets
  <2> QED
    BY <2>1, <2>2, <2>3
<1>9. lgActive' = Cardinality(SentNow') /\ lgActive' <= GwConcurrent
  BY <1>1, <1>7 DEF CountersRight
<1>10. CountersRight'
  BY <1>1, <1>2, <1>3, <1>8, <1>9 DEF CountersRight
<1>11. NobodyIsLeft'
  BY <1>1 DEF NobodyIsLeft
<1> QED
  BY <1>6, <1>10, <1>11 DEF LgIInv

\* The gateway starts with nothing under way.
LEMMA LgStarts == LgInit => LgIInv
<1> SUFFICES ASSUME LgInit PROVE LgIInv
  OBVIOUS
<1>1. /\ NoRequest \in GwRequest /\ NoRequest.pc = "new" /\ NoRequest.made = << >> /\ NoRequest.got = << >>
      /\ NoRequest.open = FALSE /\ NoRequest.via = NoHint /\ NoRequest.out = << >>
  BY DEF NoRequest, GwRequest
<1>2. CallsHandedOn(NoRequest)
  BY <1>1 DEF CallsHandedOn
<1>3. EventsEndOnce(NoRequest)
  BY <1>1 DEF EventsEndOnce
<1>4. /\ lgReq \in [GwRequests -> GwRequest] /\ \A r \in GwRequests : lgReq[r] = NoRequest
      /\ \A r \in GwRequests : RequestRight(lgReq[r])
  BY <1>1, <1>2, <1>3 DEF LgInit, RequestRight
<1>5. SentNow = {} /\ CompleteNow = {}
  BY <1>1, <1>4 DEF SentNow, CompleteNow
<1>6. /\ lgStats \in [Configured \cup {"all"} -> [done : Nat, errors : Nat]] /\ lgStats["all"].done = 0
      /\ lgAvailable \subseteq Configured /\ lgActive = 0 /\ lgServer = "up" /\ GwConcurrent \in Nat
  BY GwAssumption DEF LgInit
<1>7. CountersRight
  BY <1>5, <1>6, FS_EmptySet DEF CountersRight
<1> QED
  BY <1>4, <1>6, <1>7 DEF LgIInv, NobodyIsLeft

\* Every step keeps the invariant.
LEMMA LgSteps == LgIInv /\ [LgNext]_lgVars => LgIInv'
<1> SUFFICES ASSUME LgIInv, [LgNext]_lgVars PROVE LgIInv'
  OBVIOUS
<1>1. ASSUME NEW r \in GwRequests, NEW stream \in BOOLEAN, Connect(r, stream) PROVE LgIInv'
  BY <1>1, StreamSteps
<1>2. ASSUME NEW r \in GwRequests, NEW valid \in BOOLEAN, NEW h \in Hints, Dispatch(r, valid, h) PROVE LgIInv'
  BY <1>2, Dispatches
<1>3. ASSUME NEW r \in GwRequests, Leave(r) \/ Text(r) \/ StartCall(r) \/ Arguments(r) \/ EndCall(r) PROVE LgIInv'
  BY <1>3, StreamSteps
<1>4. ASSUME NEW r \in GwRequests, Completes(r) \/ Breaks(r) PROVE LgIInv'
  BY <1>4, Ends
<1>5. CASE GatewaySignal
  BY <1>5 DEF GatewaySignal, LgIInv, CountersRight, NobodyIsLeft, SentNow, CompleteNow
<1>6. CASE GatewayExit
  BY <1>6 DEF GatewayExit, LgIInv, CountersRight, NobodyIsLeft, SentNow, CompleteNow
<1>7. CASE UNCHANGED lgVars
  BY <1>7 DEF lgVars, LgIInv, CountersRight, NobodyIsLeft, SentNow, CompleteNow
<1> QED
  BY <1>1, <1>2, <1>3, <1>4, <1>5, <1>6, <1>7 DEF LgNext

\* What the invariant says of one request.
LEMMA RequestPromises ==
    ASSUME NEW q, RequestRight(q)
    PROVE  /\ q.pc = "over" /\ q.out[Len(q.out)] = "complete" =>
                 IF q.via # "anthropic" THEN q.got = [i \in 1..Len(q.made) |-> PiecesOf(q, i)]
                 ELSE q.got = [i \in 1..Len(q.made) |-> IF i = Len(q.made) THEN << >> ELSE PiecesOf(q, i + 1)]
           /\ LET last == {i \in 1..Len(q.out) : q.out[i] \in Lasts}
              IN  last \subseteq {Len(q.out)} /\ (q.pc = "over" <=> last # {})
<1>1. q \in GwRequest /\ q.got \in Seq(Seq(Nat)) /\ q.got = [i \in 1..Len(q.got) |-> q.got[i]] /\ Len(q.out) \in Nat
  BY DEF RequestRight, GwRequest
<1>2. ASSUME q.pc = "over", q.out[Len(q.out)] = "complete"
      PROVE  IF q.via # "anthropic" THEN q.got = [i \in 1..Len(q.made) |-> PiecesOf(q, i)]
             ELSE q.got = [i \in 1..Len(q.made) |-> IF i = Len(q.made) THEN << >> ELSE PiecesOf(q, i + 1)]
  <2>1. Len(q.got) = Len(q.made)
    BY <1>2 DEF RequestRight, CallsHandedOn, EventsEndOnce
  <2>2. \A i \in 1..Len(q.made) :
           q.got[i] = IF q.via # "anthropic" THEN PiecesOf(q, i) ELSE IF i = Len(q.made) THEN << >> ELSE PiecesOf(q, i + 1)
    BY <2>1 DEF RequestRight, CallsHandedOn
  <2>3. q.got = [i \in 1..Len(q.made) |-> q.got[i]]
    BY <1>1, <2>1
  <2> QED
    BY <2>2, <2>3
<1>3. LET last == {i \in 1..Len(q.out) : q.out[i] \in Lasts}
      IN  last \subseteq {Len(q.out)} /\ (q.pc = "over" <=> last # {})
  <2>1. q.pc # "over" => \A i \in 1..Len(q.out) : q.out[i] \notin Lasts
    BY DEF RequestRight, EventsEndOnce
  <2>2. q.pc = "over" => /\ Len(q.out) > 0 /\ q.out[Len(q.out)] \in Lasts
                         /\ \A i \in 1..(Len(q.out) - 1) : q.out[i] \notin Lasts
    BY DEF RequestRight, EventsEndOnce
  <2>3. CASE q.pc # "over"
    BY <2>1, <2>3
  <2>4. CASE q.pc = "over"
    <3>1. Len(q.out) \in 1..Len(q.out)
      BY <1>1, <2>2, <2>4
    <3>2. \A i \in 1..Len(q.out) : i # Len(q.out) => i \in 1..(Len(q.out) - 1)
      BY <1>1
    <3> QED
      BY <2>2, <2>4, <3>1, <3>2
  <2> QED
    BY <2>3, <2>4
<1> QED
  BY <1>2, <1>3

\* The invariant implies what the gateway promises.
LEMMA LgPromises == LgIInv => GatewayRelays
<1> SUFFICES ASSUME LgIInv PROVE GatewayRelays
  OBVIOUS
<1>1. LgTypeOK
  BY DEF LgTypeOK, LgIInv, CountersRight, SentNow, CompleteNow, GwRequest
<1>2. SentWhereAsked
  BY AsksWell DEF LgIInv, CountersRight
<1>3. ArgumentsArrive
  <2> SUFFICES ASSUME NEW r \in GwRequests, lgReq[r].pc = "over", lgReq[r].out[Len(lgReq[r].out)] = "complete",
                      BlockIsKept(r)
               PROVE  LET q == lgReq[r]
                      IN  q.got = [i \in 1..Len(q.made) |-> [k \in 1..q.made[i] |-> i]]
    BY DEF ArgumentsArrive
  <2>1. LET q == lgReq[r]
        IN  IF q.via # "anthropic" THEN q.got = [i \in 1..Len(q.made) |-> PiecesOf(q, i)]
            ELSE q.got = [i \in 1..Len(q.made) |-> IF i = Len(q.made) THEN << >> ELSE PiecesOf(q, i + 1)]
    <3> HIDE DEF PiecesOf
    <3> QED
      BY RequestPromises DEF LgIInv
  <2> QED
    BY <2>1 DEF BlockIsKept, PiecesOf
<1>4. StreamsEnd
  BY RequestPromises DEF StreamsEnd, LgIInv, NobodyIsLeft, Lasts
<1> QED
  BY <1>1, <1>2, <1>3, <1>4 DEF GatewayRelays

\* For any number of requests, providers and slots, the gateway keeps its slots, sends
\* a request where it was asked to, hands on the arguments of the tool calls of an OpenAI
\* stream, and ends every stream once (server.ts, openai.ts).
THEOREM GatewayStaysTrue == LgSpec => []GatewayRelays
<1>1. LgIInv /\ [LgNext]_lgVars => LgIInv'
  BY LgSteps
<1> QED
  BY LgStarts, LgPromises, <1>1, PTL DEF LgSpec

-----------------------------------------------------------------------------
(* The calls of a provider.                                                *)

\* A chunk, and a call as the provider sees it.
StreamChunks == [kind : {"delta", "done", "error"}, content : Nat]
PcStates == {"new", "refused", "sent", "failed", "returned", "accepted", "reading", "ended",
             "panicked"}
PcRecords == [kind : {"none", "complete", "stream"}, pc : PcStates, cancelled : BOOLEAN, deltas : Nat,
              done : BOOLEAN, out : Seq(StreamChunks), ending : {"no", "error", "quiet", "panic"},
              chan : Seq(StreamChunks), got : Seq(StreamChunks)]

\* All chunks of a call, and how many of the first i are text.
Whole(r) == r.got \o r.chan \o r.out
Texts(s, i) == Cardinality({j \in 1..i : s[j].kind = "delta"})

\* What StreamIsWellFormed says of the chunks of one call.
WellFormed(vendor, s) ==
    \A i \in DOMAIN s :
        /\ s[i].kind # "error" => s[i].content = Texts(s, i)
        /\ s[i].kind = "error" => i = Len(s)
        /\ s[i].kind = "done" /\ vendor = "openai" => i = Len(s)

\* An error ends the stream, a finish is known, and the texts read are those passed on.
Unfinished(r) ==
    /\ r.ending = "no" => \A i \in DOMAIN Whole(r) : Whole(r)[i].kind # "error"
    /\ ~r.done => \A i \in DOMAIN Whole(r) : Whole(r)[i].kind # "done"
    /\ r.deltas = Texts(Whole(r), Len(Whole(r)))

\* Chunks exist only where a stream was accepted.
PcShape(r) ==
    /\ r.pc \notin {"reading", "ended", "panicked"} =>
         r.out = << >> /\ r.chan = << >> /\ r.got = << >> /\ r.deltas = 0 /\ ~r.done /\ r.ending = "no"
    /\ r.kind = "complete" => r.pc \notin {"accepted", "reading", "ended", "panicked"}
    /\ Len(r.chan) <= ChunkBuffer

PcRight(vendor, r) == r \in PcRecords /\ PcShape(r) /\ WellFormed(vendor, Whole(r)) /\ Unfinished(r)

\* The inductive invariant.
PcIInv ==
    /\ pcVendor \in {"anthropic", "openai"} /\ pcStatus \in {"available", "error", "unavailable"} /\ pcClosed \in BOOLEAN
    /\ pcCall \in [PcCalls -> PcRecords] /\ \A c \in PcCalls : PcRight(pcVendor, pcCall[c])
    /\ pcRecorded \in Nat

\* One more chunk leaves the counts of the others alone.
LEMMA TextsAppended ==
    ASSUME NEW s \in Seq(StreamChunks), NEW x \in StreamChunks
    PROVE  /\ \A i \in 0..Len(s) : Texts(Append(s, x), i) = Texts(s, i) /\ Texts(s, i) \in Nat
           /\ Texts(Append(s, x), Len(s) + 1) = Texts(s, Len(s)) + (IF x.kind = "delta" THEN 1 ELSE 0)
<1> DEFINE t == Append(s, x)
<1> DEFINE P(u, i) == {j \in 1..i : u[j].kind = "delta"}
<1>1. Len(s) \in Nat /\ t[Len(s) + 1] = x /\ \A i \in 1..Len(s) : t[i] = s[i]
  BY AppendProperties, LenProperties
<1>2. ASSUME NEW i \in 0..Len(s) PROVE P(t, i) = P(s, i) /\ IsFiniteSet(P(s, i)) /\ Cardinality(P(s, i)) \in Nat
  <2>1. \A j \in 1..i : t[j] = s[j]
    BY <1>1
  <2>2. IsFiniteSet(1..i) /\ P(s, i) \subseteq 1..i
    BY <1>1, FS_Interval
  <2>3. IsFiniteSet(P(s, i))
    BY <2>2, FS_Subset
  <2> QED
    BY <2>1, <2>3, FS_CardinalityType
<1>3. P(t, Len(s) + 1) = IF x.kind = "delta" THEN P(s, Len(s)) \cup {Len(s) + 1} ELSE P(s, Len(s))
  <2>1. \A j : j \in 1..Len(s) + 1 <=> j \in 1..Len(s) \/ j = Len(s) + 1
    BY <1>1
  <2> QED
    BY <1>1, <2>1
<1>4. Len(s) + 1 \notin P(s, Len(s)) /\ Len(s) \in 0..Len(s)
  BY <1>1
<1>5. Cardinality(P(t, Len(s) + 1)) = Cardinality(P(s, Len(s))) + (IF x.kind = "delta" THEN 1 ELSE 0)
  <2>1. CASE x.kind = "delta"
    <3>1. Cardinality(P(s, Len(s)) \cup {Len(s) + 1}) = Cardinality(P(s, Len(s))) + 1
      BY <1>2, <1>4, FS_AddElement
    <3> QED
      BY <1>3, <2>1, <3>1
  <2>2. CASE x.kind # "delta"
    <3>1. P(t, Len(s) + 1) = P(s, Len(s)) /\ Cardinality(P(s, Len(s))) \in Nat
      BY <1>2, <1>3, <1>4, <2>2
    <3> HIDE DEF P, t
    <3> QED
      BY <2>2, <3>1
  <2> QED
    BY <2>1, <2>2
<1> QED
  BY <1>2, <1>5 DEF Texts

\* What may follow: a text that counts on, a finish that repeats the count, or an
\* error; after a finish only what Anthropic sends, after an error nothing.
LEMMA ChunkFollows ==
    ASSUME NEW vendor, NEW s \in Seq(StreamChunks), NEW x \in StreamChunks, WellFormed(vendor, s),
           \A i \in DOMAIN s : s[i].kind # "error",
           (\E i \in DOMAIN s : s[i].kind = "done") => vendor # "openai",
           x.kind = "delta" => x.content = Texts(s, Len(s)) + 1,
           x.kind = "done" => x.content = Texts(s, Len(s))
    PROVE  WellFormed(vendor, Append(s, x))
<1> DEFINE t == Append(s, x)
<1>1. /\ Len(s) \in Nat /\ DOMAIN s = 1..Len(s) /\ t[Len(s) + 1] = x /\ Len(t) = Len(s) + 1
      /\ DOMAIN t = 1..Len(s) + 1 /\ \A i \in 1..Len(s) : t[i] = s[i]
  BY AppendProperties, LenProperties
<1>2. /\ \A i \in 1..Len(s) : Texts(t, i) = Texts(s, i)
      /\ Texts(t, Len(s) + 1) = Texts(s, Len(s)) + (IF x.kind = "delta" THEN 1 ELSE 0)
      /\ Texts(s, Len(s)) \in Nat
  BY <1>1, TextsAppended
<1> HIDE DEF t
<1>3. ASSUME NEW i \in 1..Len(s)
      PROVE  /\ t[i].kind # "error" => t[i].content = Texts(t, i)
             /\ t[i].kind = "error" => i = Len(t)
             /\ t[i].kind = "done" /\ vendor = "openai" => i = Len(t)
  <2>1. t[i] = s[i] /\ Texts(t, i) = Texts(s, i) /\ s[i].kind # "error" /\ i \in DOMAIN s
    BY <1>1, <1>2
  <2>2. t[i].content = Texts(t, i)
    BY <2>1 DEF WellFormed
  <2>3. ~(t[i].kind = "done" /\ vendor = "openai")
    BY <2>1
  <2> QED
    BY <2>1, <2>2, <2>3
<1>4. t[Len(s) + 1].kind # "error" => t[Len(s) + 1].content = Texts(t, Len(s) + 1)
  <2>1. x.kind \in {"delta", "done", "error"} /\ x.kind # "delta" => Texts(t, Len(s) + 1) = Texts(s, Len(s))
    BY <1>2 DEF StreamChunks
  <2>2. x.kind = "delta" => Texts(t, Len(s) + 1) = Texts(s, Len(s)) + 1
    BY <1>2
  <2>3. x.kind \in {"delta", "done", "error"}
    BY DEF StreamChunks
  <2> QED
    BY <1>1, <2>1, <2>2, <2>3
<1>5. ASSUME NEW i \in DOMAIN t
      PROVE  /\ t[i].kind # "error" => t[i].content = Texts(t, i)
             /\ t[i].kind = "error" => i = Len(t)
             /\ t[i].kind = "done" /\ vendor = "openai" => i = Len(t)
  <2>1. CASE i \in 1..Len(s)
    BY <1>3, <2>1
  <2>2. CASE i = Len(s) + 1
    BY <1>1, <1>4, <2>2
  <2> QED
    BY <1>1, <2>1, <2>2
<1>6. WellFormed(vendor, t)
  BY <1>5 DEF WellFormed
<1> QED
  BY <1>6 DEF t

\* What the invariant says of a call.
LEMMA PcFacts ==
    ASSUME PcIInv, NEW c \in PcCalls
    PROVE  PcRight(pcVendor, pcCall[c])
BY DEF PcIInv

\* A step that makes the call c what it may be preserves the invariant.
LEMMA PcCallSet ==
    ASSUME PcIInv, NEW c \in PcCalls, NEW r, PcSet(c, r), PcRight(pcVendor, r), pcVendor' = pcVendor,
           pcClosed' = pcClosed, pcStatus' \in {"available", "error", "unavailable"}, pcRecorded' \in Nat
    PROVE  PcIInv'
<1>1. /\ pcCall' = [pcCall EXCEPT ![c] = r] /\ pcCall \in [PcCalls -> PcRecords] /\ r \in PcRecords
      /\ \A d \in PcCalls : PcRight(pcVendor, pcCall[d])
  BY DEF PcSet, PcIInv, PcRight
<1>2. pcCall' \in [PcCalls -> PcRecords]
  BY <1>1
<1>3. \A d \in PcCalls : pcCall'[d] = IF d = c THEN r ELSE pcCall[d]
  BY <1>1
<1>4. \A d \in PcCalls : PcRight(pcVendor', pcCall'[d])
  BY <1>1, <1>3
<1> QED
  BY <1>2, <1>4 DEF PcIInv

\* What is appended to the second of two sequences is appended to both.
LEMMA AppendedLast ==
    ASSUME NEW S, NEW a \in Seq(S), NEW b \in Seq(S), NEW e \in S
    PROVE  a \o Append(b, e) = Append(a \o b, e)
<1>1. <<e>> \in Seq(S) /\ a \o b \in Seq(S)
  BY ConcatProperties
<1>2. Append(b, e) = b \o <<e>> /\ Append(a \o b, e) = (a \o b) \o <<e>>
  BY <1>1, AppendIsConcat
<1> QED
  BY <1>1, <1>2, ConcatAssociative

\* The first of one sequence goes to the end of the one before it.
LEMMA MovedOver ==
    ASSUME NEW S, NEW a \in Seq(S), NEW b \in Seq(S), b # << >>
    PROVE  /\ Head(b) \in S /\ Tail(b) \in Seq(S) /\ Append(a, Head(b)) \in Seq(S) /\ Len(Append(a, Head(b))) = Len(a) + 1
           /\ Append(a, Head(b)) \o Tail(b) = a \o b
<1>1. Head(b) \in S /\ Tail(b) \in Seq(S) /\ Len(Tail(b)) = Len(b) - 1 /\ \A i \in 1..Len(Tail(b)) : Tail(b)[i] = b[i + 1]
  BY HeadTailProperties
<1>2. <<Head(b)>> \in Seq(S) /\ Append(a, Head(b)) = a \o <<Head(b)>>
      /\ Append(a, Head(b)) \in Seq(S) /\ Len(Append(a, Head(b))) = Len(a) + 1
  BY <1>1, AppendIsConcat, AppendProperties
<1>3. <<Head(b)>> \o Tail(b) = b
  <2> DEFINE s == <<Head(b)>> \o Tail(b)
  <2>1. Len(b) \in Nat \ {0} /\ Head(b) = b[1]
    BY EmptySeq
  <2>2. /\ s \in Seq(S) /\ Len(s) = 1 + Len(Tail(b))
        /\ \A i \in 1..1 + Len(Tail(b)) : s[i] = IF i <= 1 THEN <<Head(b)>>[i] ELSE Tail(b)[i - 1]
    BY <1>1, <1>2, ConcatProperties
  <2> HIDE DEF s
  <2>3. Len(s) = Len(b) /\ \A i \in 1..Len(s) : s[i] = b[i]
    BY <1>1, <2>1, <2>2
  <2>4. s = b
    BY <2>2, <2>3, SeqEqual
  <2> QED
    BY <2>4 DEF s
<1> QED
  BY <1>1, <1>2, <1>3, ConcatAssociative

\* The chunks of a call are a sequence of chunks.
LEMMA WholeIsSeq ==
    ASSUME NEW r \in PcRecords
    PROVE  /\ r.got \in Seq(StreamChunks) /\ r.chan \in Seq(StreamChunks) /\ r.out \in Seq(StreamChunks)
           /\ r.got \o r.chan \in Seq(StreamChunks) /\ Whole(r) \in Seq(StreamChunks)
<1>1. r.got \in Seq(StreamChunks) /\ r.chan \in Seq(StreamChunks) /\ r.out \in Seq(StreamChunks)
  BY DEF PcRecords
<1> QED
  BY <1>1, ConcatProperties DEF Whole

\* A step that leaves the chunks alone, and the finish and the end too or sets them.
LEMMA ChunksKept ==
    ASSUME NEW vendor, NEW q, NEW r \in PcRecords, PcRight(vendor, q), PcShape(r), Whole(r) = Whole(q),
           r.done = q.done, r.deltas = q.deltas, r.ending = "no" => q.ending = "no"
    PROVE  PcRight(vendor, r)
<1>1. WellFormed(vendor, Whole(r))
  BY DEF PcRight
<1>2. Unfinished(r)
  BY DEF PcRight, Unfinished
<1> QED
  BY <1>1, <1>2 DEF PcRight

\* A call starts, or is refused.
LEMMA PcBeginStep ==
    ASSUME PcIInv, NEW c \in PcCalls, NEW kind \in {"complete", "stream"}, NEW valid \in BOOLEAN, PcBegin(c, kind, valid)
    PROVE  PcIInv'
<1> DEFINE q == pcCall[c]
<1> DEFINE r == [q EXCEPT !.kind = kind, !.pc = IF Refused \/ ~valid THEN "refused" ELSE "sent"]
<1>1. q \in PcRecords /\ PcShape(q) /\ PcRight(pcVendor, q)
  BY PcFacts DEF PcRight
<1>2. PcSet(c, r) /\ pcVendor' = pcVendor /\ pcClosed' = pcClosed /\ q.pc = "new"
  BY DEF PcBegin
<1>3. pcStatus' \in {"available", "error", "unavailable"}
  BY DEF PcBegin, PcIInv, UpdateStatus, StatusOf
<1>4. pcRecorded' \in Nat
  BY DEF PcBegin, PcIInv
<1>5. /\ r \in PcRecords
      /\ r.kind = kind /\ r.pc = (IF Refused \/ ~valid THEN "refused" ELSE "sent") /\ r.cancelled = q.cancelled
      /\ r.deltas = q.deltas /\ r.done = q.done /\ r.out = q.out
      /\ r.ending = q.ending /\ r.chan = q.chan /\ r.got = q.got
  BY <1>1, <1>2 DEF PcRecords, PcStates
<1> HIDE DEF r
<1>6. PcShape(r)
  BY <1>1, <1>2, <1>5 DEF PcShape
<1>7. Whole(r) = Whole(q)
  BY <1>5 DEF Whole
<1>8. PcRight(pcVendor, r)
  BY <1>1, <1>2, <1>5, <1>6, <1>7, ChunksKept
<1> QED
  BY <1>2, <1>3, <1>4, <1>8, PcCallSet

\* A caller gives up.
LEMMA PcCancelStep ==
    ASSUME PcIInv, NEW c \in PcCalls, PcCancel(c)
    PROVE  PcIInv'
<1> DEFINE q == pcCall[c]
<1> DEFINE r == [q EXCEPT !.cancelled = TRUE]
<1>1. q \in PcRecords /\ PcShape(q) /\ PcRight(pcVendor, q)
  BY PcFacts DEF PcRight
<1>2. PcSet(c, r) /\ pcVendor' = pcVendor /\ pcClosed' = pcClosed /\ TRUE
  BY DEF PcCancel
<1>3. pcStatus' \in {"available", "error", "unavailable"}
  BY DEF PcCancel, PcIInv, UpdateStatus, StatusOf
<1>4. pcRecorded' \in Nat
  BY DEF PcCancel, PcIInv
<1>5. /\ r \in PcRecords
      /\ r.kind = q.kind /\ r.pc = q.pc /\ r.cancelled = TRUE
      /\ r.deltas = q.deltas /\ r.done = q.done /\ r.out = q.out
      /\ r.ending = q.ending /\ r.chan = q.chan /\ r.got = q.got
  BY <1>1, <1>2 DEF PcRecords, PcStates
<1> HIDE DEF r
<1>6. PcShape(r)
  BY <1>1, <1>2, <1>5 DEF PcShape
<1>7. Whole(r) = Whole(q)
  BY <1>5 DEF Whole
<1>8. PcRight(pcVendor, r)
  BY <1>1, <1>2, <1>5, <1>6, <1>7, ChunksKept
<1> QED
  BY <1>2, <1>3, <1>4, <1>8, PcCallSet

\* The request fails.
LEMMA DoFailsStep ==
    ASSUME PcIInv, NEW c \in PcCalls, DoFails(c)
    PROVE  PcIInv'
<1> DEFINE q == pcCall[c]
<1> DEFINE r == [q EXCEPT !.pc = "failed"]
<1>1. q \in PcRecords /\ PcShape(q) /\ PcRight(pcVendor, q)
  BY PcFacts DEF PcRight
<1>2. PcSet(c, r) /\ pcVendor' = pcVendor /\ pcClosed' = pcClosed /\ q.pc = "sent"
  BY DEF DoFails
<1>3. pcStatus' \in {"available", "error", "unavailable"}
  BY DEF DoFails, PcIInv, UpdateStatus, StatusOf
<1>4. pcRecorded' \in Nat
  BY DEF DoFails, PcIInv
<1>5. /\ r \in PcRecords
      /\ r.kind = q.kind /\ r.pc = "failed" /\ r.cancelled = q.cancelled
      /\ r.deltas = q.deltas /\ r.done = q.done /\ r.out = q.out
      /\ r.ending = q.ending /\ r.chan = q.chan /\ r.got = q.got
  BY <1>1, <1>2 DEF PcRecords, PcStates
<1> HIDE DEF r
<1>6. PcShape(r)
  BY <1>1, <1>2, <1>5 DEF PcShape
<1>7. Whole(r) = Whole(q)
  BY <1>5 DEF Whole
<1>8. PcRight(pcVendor, r)
  BY <1>1, <1>2, <1>5, <1>6, <1>7, ChunksKept
<1> QED
  BY <1>2, <1>3, <1>4, <1>8, PcCallSet

\* The server answers with an error.
LEMMA ErrorResponseStep ==
    ASSUME PcIInv, NEW c \in PcCalls, NEW code, ErrorResponse(c, code)
    PROVE  PcIInv'
<1> DEFINE q == pcCall[c]
<1> DEFINE r == [q EXCEPT !.pc = "failed"]
<1>1. q \in PcRecords /\ PcShape(q) /\ PcRight(pcVendor, q)
  BY PcFacts DEF PcRight
<1>2. PcSet(c, r) /\ pcVendor' = pcVendor /\ pcClosed' = pcClosed /\ q.pc = "sent"
  BY DEF ErrorResponse
<1>3. pcStatus' \in {"available", "error", "unavailable"}
  BY DEF ErrorResponse, PcIInv, UpdateStatus, StatusOf
<1>4. pcRecorded' \in Nat
  BY DEF ErrorResponse, PcIInv
<1>5. /\ r \in PcRecords
      /\ r.kind = q.kind /\ r.pc = "failed" /\ r.cancelled = q.cancelled
      /\ r.deltas = q.deltas /\ r.done = q.done /\ r.out = q.out
      /\ r.ending = q.ending /\ r.chan = q.chan /\ r.got = q.got
  BY <1>1, <1>2 DEF PcRecords, PcStates
<1> HIDE DEF r
<1>6. PcShape(r)
  BY <1>1, <1>2, <1>5 DEF PcShape
<1>7. Whole(r) = Whole(q)
  BY <1>5 DEF Whole
<1>8. PcRight(pcVendor, r)
  BY <1>1, <1>2, <1>5, <1>6, <1>7, ChunksKept
<1> QED
  BY <1>2, <1>3, <1>4, <1>8, PcCallSet

\* The answer cannot be read.
LEMMA BodyFailsStep ==
    ASSUME PcIInv, NEW c \in PcCalls, BodyFails(c)
    PROVE  PcIInv'
<1> DEFINE q == pcCall[c]
<1> DEFINE r == [q EXCEPT !.pc = "failed"]
<1>1. q \in PcRecords /\ PcShape(q) /\ PcRight(pcVendor, q)
  BY PcFacts DEF PcRight
<1>2. PcSet(c, r) /\ pcVendor' = pcVendor /\ pcClosed' = pcClosed /\ q.pc = "sent"
  BY DEF BodyFails
<1>3. pcStatus' \in {"available", "error", "unavailable"}
  BY DEF BodyFails, PcIInv, UpdateStatus, StatusOf
<1>4. pcRecorded' \in Nat
  BY DEF BodyFails, PcIInv
<1>5. /\ r \in PcRecords
      /\ r.kind = q.kind /\ r.pc = "failed" /\ r.cancelled = q.cancelled
      /\ r.deltas = q.deltas /\ r.done = q.done /\ r.out = q.out
      /\ r.ending = q.ending /\ r.chan = q.chan /\ r.got = q.got
  BY <1>1, <1>2 DEF PcRecords, PcStates
<1> HIDE DEF r
<1>6. PcShape(r)
  BY <1>1, <1>2, <1>5 DEF PcShape
<1>7. Whole(r) = Whole(q)
  BY <1>5 DEF Whole
<1>8. PcRight(pcVendor, r)
  BY <1>1, <1>2, <1>5, <1>6, <1>7, ChunksKept
<1> QED
  BY <1>2, <1>3, <1>4, <1>8, PcCallSet

\* A completion returns and is entered in the account.
LEMMA CompleteReturnsStep ==
    ASSUME PcIInv, NEW c \in PcCalls, CompleteReturns(c)
    PROVE  PcIInv'
<1> DEFINE q == pcCall[c]
<1> DEFINE r == [q EXCEPT !.pc = "returned"]
<1>1. q \in PcRecords /\ PcShape(q) /\ PcRight(pcVendor, q)
  BY PcFacts DEF PcRight
<1>2. PcSet(c, r) /\ pcVendor' = pcVendor /\ pcClosed' = pcClosed /\ q.pc = "sent"
  BY DEF CompleteReturns
<1>3. pcStatus' \in {"available", "error", "unavailable"}
  BY DEF CompleteReturns, PcIInv, UpdateStatus, StatusOf
<1>4. pcRecorded' \in Nat
  BY DEF CompleteReturns, PcIInv
<1>5. /\ r \in PcRecords
      /\ r.kind = q.kind /\ r.pc = "returned" /\ r.cancelled = q.cancelled
      /\ r.deltas = q.deltas /\ r.done = q.done /\ r.out = q.out
      /\ r.ending = q.ending /\ r.chan = q.chan /\ r.got = q.got
  BY <1>1, <1>2 DEF PcRecords, PcStates
<1> HIDE DEF r
<1>6. PcShape(r)
  BY <1>1, <1>2, <1>5 DEF PcShape
<1>7. Whole(r) = Whole(q)
  BY <1>5 DEF Whole
<1>8. PcRight(pcVendor, r)
  BY <1>1, <1>2, <1>5, <1>6, <1>7, ChunksKept
<1> QED
  BY <1>2, <1>3, <1>4, <1>8, PcCallSet

\* A stream is accepted.
LEMMA StreamAcceptedStep ==
    ASSUME PcIInv, NEW c \in PcCalls, StreamAccepted(c)
    PROVE  PcIInv'
<1> DEFINE q == pcCall[c]
<1> DEFINE r == [q EXCEPT !.pc = "accepted"]
<1>1. q \in PcRecords /\ PcShape(q) /\ PcRight(pcVendor, q)
  BY PcFacts DEF PcRight
<1>2. PcSet(c, r) /\ pcVendor' = pcVendor /\ pcClosed' = pcClosed /\ q.pc = "sent" /\ q.kind = "stream"
  BY DEF StreamAccepted
<1>3. pcStatus' \in {"available", "error", "unavailable"}
  BY DEF StreamAccepted, PcIInv, UpdateStatus, StatusOf
<1>4. pcRecorded' \in Nat
  BY DEF StreamAccepted, PcIInv
<1>5. /\ r \in PcRecords
      /\ r.kind = q.kind /\ r.pc = "accepted" /\ r.cancelled = q.cancelled
      /\ r.deltas = q.deltas /\ r.done = q.done /\ r.out = q.out
      /\ r.ending = q.ending /\ r.chan = q.chan /\ r.got = q.got
  BY <1>1, <1>2 DEF PcRecords, PcStates
<1> HIDE DEF r
<1>6. PcShape(r)
  BY <1>1, <1>2, <1>5 DEF PcShape
<1>7. Whole(r) = Whole(q)
  BY <1>5 DEF Whole
<1>8. PcRight(pcVendor, r)
  BY <1>1, <1>2, <1>5, <1>6, <1>7, ChunksKept
<1> QED
  BY <1>2, <1>3, <1>4, <1>8, PcCallSet

\* Its goroutine starts to read.
LEMMA ReadingStartsStep ==
    ASSUME PcIInv, NEW c \in PcCalls, ReadingStarts(c)
    PROVE  PcIInv'
<1> DEFINE q == pcCall[c]
<1> DEFINE r == [q EXCEPT !.pc = "reading"]
<1>1. q \in PcRecords /\ PcShape(q) /\ PcRight(pcVendor, q)
  BY PcFacts DEF PcRight
<1>2. PcSet(c, r) /\ pcVendor' = pcVendor /\ pcClosed' = pcClosed /\ q.pc = "accepted"
  BY DEF ReadingStarts
<1>3. pcStatus' \in {"available", "error", "unavailable"}
  BY DEF ReadingStarts, PcIInv, UpdateStatus, StatusOf
<1>4. pcRecorded' \in Nat
  BY DEF ReadingStarts, PcIInv
<1>5. /\ r \in PcRecords
      /\ r.kind = q.kind /\ r.pc = "reading" /\ r.cancelled = q.cancelled
      /\ r.deltas = q.deltas /\ r.done = q.done /\ r.out = q.out
      /\ r.ending = q.ending /\ r.chan = q.chan /\ r.got = q.got
  BY <1>1, <1>2 DEF PcRecords, PcStates
<1> HIDE DEF r
<1>6. PcShape(r)
  BY <1>1, <1>2, <1>5 DEF PcShape
<1>7. Whole(r) = Whole(q)
  BY <1>5 DEF Whole
<1>8. PcRight(pcVendor, r)
  BY <1>1, <1>2, <1>5, <1>6, <1>7, ChunksKept
<1> QED
  BY <1>2, <1>3, <1>4, <1>8, PcCallSet

\* The server ends the stream.
LEMMA ReadEOFStep ==
    ASSUME PcIInv, NEW c \in PcCalls, ReadEOF(c)
    PROVE  PcIInv'
<1> DEFINE q == pcCall[c]
<1> DEFINE r == [q EXCEPT !.pc = "ended"]
<1>1. q \in PcRecords /\ PcShape(q) /\ PcRight(pcVendor, q)
  BY PcFacts DEF PcRight
<1>2. PcSet(c, r) /\ pcVendor' = pcVendor /\ pcClosed' = pcClosed /\ q.pc = "reading"
  BY DEF ReadEOF, Idle
<1>3. pcStatus' \in {"available", "error", "unavailable"}
  BY DEF ReadEOF, PcIInv, UpdateStatus, StatusOf
<1>4. pcRecorded' \in Nat
  BY DEF ReadEOF, PcIInv
<1>5. /\ r \in PcRecords
      /\ r.kind = q.kind /\ r.pc = "ended" /\ r.cancelled = q.cancelled
      /\ r.deltas = q.deltas /\ r.done = q.done /\ r.out = q.out
      /\ r.ending = q.ending /\ r.chan = q.chan /\ r.got = q.got
  BY <1>1, <1>2 DEF PcRecords, PcStates
<1> HIDE DEF r
<1>6. PcShape(r)
  BY <1>1, <1>2, <1>5 DEF PcShape
<1>7. Whole(r) = Whole(q)
  BY <1>5 DEF Whole
<1>8. PcRight(pcVendor, r)
  BY <1>1, <1>2, <1>5, <1>6, <1>7, ChunksKept
<1> QED
  BY <1>2, <1>3, <1>4, <1>8, PcCallSet

\* The goroutine ends and closes the channel.
LEMMA ChannelClosesStep ==
    ASSUME PcIInv, NEW c \in PcCalls, ChannelCloses(c)
    PROVE  PcIInv'
<1> DEFINE q == pcCall[c]
<1> DEFINE r == [q EXCEPT !.pc = "ended"]
<1>1. q \in PcRecords /\ PcShape(q) /\ PcRight(pcVendor, q)
  BY PcFacts DEF PcRight
<1>2. PcSet(c, r) /\ pcVendor' = pcVendor /\ pcClosed' = pcClosed /\ q.pc = "reading" /\ q.ending # "no"
  <2>1. q.ending # "no" /\ q.pc \notin {"ended", "panicked"}
    BY DEF ChannelCloses, PcOver
  <2> QED
    BY <1>1, <2>1 DEF ChannelCloses, PcShape
<1>3. pcStatus' \in {"available", "error", "unavailable"}
  BY DEF ChannelCloses, PcIInv, UpdateStatus, StatusOf
<1>4. pcRecorded' \in Nat
  BY DEF ChannelCloses, PcIInv
<1>5. /\ r \in PcRecords
      /\ r.kind = q.kind /\ r.pc = "ended" /\ r.cancelled = q.cancelled
      /\ r.deltas = q.deltas /\ r.done = q.done /\ r.out = q.out
      /\ r.ending = q.ending /\ r.chan = q.chan /\ r.got = q.got
  BY <1>1, <1>2 DEF PcRecords, PcStates
<1> HIDE DEF r
<1>6. PcShape(r)
  BY <1>1, <1>2, <1>5 DEF PcShape
<1>7. Whole(r) = Whole(q)
  BY <1>5 DEF Whole
<1>8. PcRight(pcVendor, r)
  BY <1>1, <1>2, <1>5, <1>6, <1>7, ChunksKept
<1> QED
  BY <1>2, <1>3, <1>4, <1>8, PcCallSet

\* The goroutine dereferences nil.
LEMMA PcPanicsStep ==
    ASSUME PcIInv, NEW c \in PcCalls, PcPanics(c)
    PROVE  PcIInv'
<1> DEFINE q == pcCall[c]
<1> DEFINE r == [q EXCEPT !.pc = "panicked"]
<1>1. q \in PcRecords /\ PcShape(q) /\ PcRight(pcVendor, q)
  BY PcFacts DEF PcRight
<1>2. PcSet(c, r) /\ pcVendor' = pcVendor /\ pcClosed' = pcClosed /\ q.pc = "reading" /\ q.ending # "no"
  <2>1. q.ending # "no" /\ q.pc \notin {"ended", "panicked"}
    BY DEF PcPanics, PcOver
  <2> QED
    BY <1>1, <2>1 DEF PcPanics, PcShape
<1>3. pcStatus' \in {"available", "error", "unavailable"}
  BY DEF PcPanics, PcIInv, UpdateStatus, StatusOf
<1>4. pcRecorded' \in Nat
  BY DEF PcPanics, PcIInv
<1>5. /\ r \in PcRecords
      /\ r.kind = q.kind /\ r.pc = "panicked" /\ r.cancelled = q.cancelled
      /\ r.deltas = q.deltas /\ r.done = q.done /\ r.out = q.out
      /\ r.ending = q.ending /\ r.chan = q.chan /\ r.got = q.got
  BY <1>1, <1>2 DEF PcRecords, PcStates
<1> HIDE DEF r
<1>6. PcShape(r)
  BY <1>1, <1>2, <1>5 DEF PcShape
<1>7. Whole(r) = Whole(q)
  BY <1>5 DEF Whole
<1>8. PcRight(pcVendor, r)
  BY <1>1, <1>2, <1>5, <1>6, <1>7, ChunksKept
<1> QED
  BY <1>2, <1>3, <1>4, <1>8, PcCallSet

\* A chunk finds room in the channel.
LEMMA PutStep ==
    ASSUME PcIInv, NEW c \in PcCalls, Put(c)
    PROVE  PcIInv'
<1> DEFINE q == pcCall[c]
<1> DEFINE r == [q EXCEPT !.out = Tail(@), !.chan = Append(@, Head(q.out))]
<1>1. q \in PcRecords /\ PcShape(q) /\ PcRight(pcVendor, q)
  BY PcFacts DEF PcRight
<1>2. PcSet(c, r) /\ pcVendor' = pcVendor /\ pcClosed' = pcClosed /\ q.pc = "reading" /\ q.out # << >> /\ Len(q.chan) < ChunkBuffer
  BY DEF Put
<1>3. pcStatus' \in {"available", "error", "unavailable"}
  BY DEF Put, PcIInv, UpdateStatus, StatusOf
<1>4. pcRecorded' \in Nat
  BY DEF Put, PcIInv
<1>5. /\ Tail(q.out) \in Seq(StreamChunks) /\ Append(q.chan, Head(q.out)) \in Seq(StreamChunks)
      /\ Len(Append(q.chan, Head(q.out))) <= ChunkBuffer
      /\ q.got \o Append(q.chan, Head(q.out)) \o Tail(q.out) = q.got \o q.chan \o q.out
  <2>1. q.got \in Seq(StreamChunks) /\ q.chan \in Seq(StreamChunks) /\ q.out \in Seq(StreamChunks)
        /\ q.got \o q.chan \in Seq(StreamChunks)
    BY <1>1, WholeIsSeq
  <2>2. /\ Head(q.out) \in StreamChunks /\ Tail(q.out) \in Seq(StreamChunks)
        /\ Append(q.chan, Head(q.out)) \in Seq(StreamChunks) /\ Len(Append(q.chan, Head(q.out))) = Len(q.chan) + 1
        /\ Append(q.got \o q.chan, Head(q.out)) \o Tail(q.out) = (q.got \o q.chan) \o q.out
    <3> DEFINE a == q.got \o q.chan
    <3>1. q.out # << >> /\ a \in Seq(StreamChunks)
      BY <1>2, <2>1
    <3> HIDE DEF a
    <3>2. Append(a, Head(q.out)) \o Tail(q.out) = a \o q.out
      BY <2>1, <3>1, MovedOver
    <3>3. /\ Head(q.out) \in StreamChunks /\ Tail(q.out) \in Seq(StreamChunks)
          /\ Append(q.chan, Head(q.out)) \in Seq(StreamChunks) /\ Len(Append(q.chan, Head(q.out))) = Len(q.chan) + 1
      BY <2>1, <3>1, MovedOver
    <3> QED
      BY <3>2, <3>3 DEF a
  <2>3. q.got \o Append(q.chan, Head(q.out)) = Append(q.got \o q.chan, Head(q.out))
    <3>1. \A x, y \in Seq(StreamChunks) : \A e \in StreamChunks : x \o Append(y, e) = Append(x \o y, e)
      BY AppendedLast
    <3>2. q.got \in Seq(StreamChunks) /\ q.chan \in Seq(StreamChunks) /\ Head(q.out) \in StreamChunks
      BY <2>1, <2>2
    <3> QED
      BY <3>1, <3>2
  <2>4. Len(q.chan) + 1 <= ChunkBuffer
    BY <1>2, <2>1, PcAssumption, LenProperties
  <2> QED
    BY <2>2, <2>3, <2>4
<1>6. /\ r \in PcRecords
      /\ r.kind = q.kind /\ r.pc = q.pc /\ r.cancelled = q.cancelled
      /\ r.deltas = q.deltas /\ r.done = q.done /\ r.out = Tail(q.out)
      /\ r.ending = q.ending /\ r.chan = Append(q.chan, Head(q.out)) /\ r.got = q.got
  BY <1>1, <1>2, <1>5 DEF PcRecords, PcStates
<1> HIDE DEF r
<1>7. PcShape(r)
  BY <1>1, <1>2, <1>6, <1>5 DEF PcShape
<1>8. Whole(r) = Whole(q)
  BY <1>6, <1>5 DEF Whole
<1>9. PcRight(pcVendor, r)
  BY <1>1, <1>2, <1>6, <1>7, <1>8, ChunksKept
<1> QED
  BY <1>2, <1>3, <1>4, <1>9, PcCallSet

\* The consumer takes a chunk.
LEMMA ReceiveStep ==
    ASSUME PcIInv, NEW c \in PcCalls, Receive(c)
    PROVE  PcIInv'
<1> DEFINE q == pcCall[c]
<1> DEFINE r == [q EXCEPT !.chan = Tail(@), !.got = Append(@, Head(q.chan))]
<1>1. q \in PcRecords /\ PcShape(q) /\ PcRight(pcVendor, q)
  BY PcFacts DEF PcRight
<1>2. PcSet(c, r) /\ pcVendor' = pcVendor /\ pcClosed' = pcClosed /\ q.chan # << >>
  BY DEF Receive
<1>3. pcStatus' \in {"available", "error", "unavailable"}
  BY DEF Receive, PcIInv, UpdateStatus, StatusOf
<1>4. pcRecorded' \in Nat
  BY DEF Receive, PcIInv
<1>5. /\ Tail(q.chan) \in Seq(StreamChunks) /\ Append(q.got, Head(q.chan)) \in Seq(StreamChunks)
      /\ Len(Tail(q.chan)) <= ChunkBuffer
      /\ Append(q.got, Head(q.chan)) \o Tail(q.chan) \o q.out = q.got \o q.chan \o q.out
  <2>1. q.got \in Seq(StreamChunks) /\ q.chan \in Seq(StreamChunks) /\ Len(q.chan) <= ChunkBuffer
    BY <1>1, WholeIsSeq DEF PcShape
  <2>2. Len(Tail(q.chan)) = Len(q.chan) - 1 /\ Len(q.chan) \in Nat
    BY <1>2, <2>1, HeadTailProperties, LenProperties
  <2>3. /\ Tail(q.chan) \in Seq(StreamChunks) /\ Append(q.got, Head(q.chan)) \in Seq(StreamChunks)
        /\ Append(q.got, Head(q.chan)) \o Tail(q.chan) = q.got \o q.chan
    <3>1. q.chan # << >>
      BY <1>2
    <3> QED
      BY <2>1, <3>1, MovedOver
  <2>4. Len(Tail(q.chan)) <= ChunkBuffer
    BY <2>1, <2>2, PcAssumption
  <2> QED
    BY <2>3, <2>4
<1>6. /\ r \in PcRecords
      /\ r.kind = q.kind /\ r.pc = q.pc /\ r.cancelled = q.cancelled
      /\ r.deltas = q.deltas /\ r.done = q.done /\ r.out = q.out
      /\ r.ending = q.ending /\ r.chan = Tail(q.chan) /\ r.got = Append(q.got, Head(q.chan))
  BY <1>1, <1>2, <1>5 DEF PcRecords, PcStates
<1> HIDE DEF r
<1>7. PcShape(r)
  BY <1>1, <1>2, <1>6, <1>5 DEF PcShape
<1>8. Whole(r) = Whole(q)
  BY <1>6, <1>5 DEF Whole
<1>9. PcRight(pcVendor, r)
  BY <1>1, <1>2, <1>6, <1>7, <1>8, ChunksKept
<1> QED
  BY <1>2, <1>3, <1>4, <1>9, PcCallSet

\* A kind that neither the chunks nor the next have.
LEMMA NoneAppended ==
    ASSUME NEW s \in Seq(StreamChunks), NEW x \in StreamChunks, NEW k,
           \A i \in DOMAIN s : s[i].kind # k, x.kind # k
    PROVE  \A i \in DOMAIN Append(s, x) : Append(s, x)[i].kind # k
<1>1. /\ Len(s) \in Nat /\ DOMAIN s = 1..Len(s) /\ DOMAIN Append(s, x) = 1..Len(s) + 1
      /\ Append(s, x)[Len(s) + 1] = x /\ \A i \in 1..Len(s) : Append(s, x)[i] = s[i]
  BY AppendProperties, LenProperties
<1>2. \A i \in 1..Len(s) + 1 : i \in 1..Len(s) \/ i = Len(s) + 1
  BY <1>1
<1> QED
  BY <1>1, <1>2

\* Two chunks, one behind the other.
LEMMA TwoChunks ==
    ASSUME NEW S, NEW x \in S, NEW y \in S
    PROVE  /\ <<x>> \in Seq(S) /\ <<x, y>> \in Seq(S)
           /\ Append(<<x>>, y) = <<x, y>> /\ <<x>> \o <<y>> = <<x, y>>
<1>1. <<x>> \in Seq(S) /\ <<x, y>> \in Seq(S) /\ Len(<<x>>) = 1 /\ Len(<<x, y>>) = 2
      /\ <<x>>[1] = x /\ <<x, y>>[1] = x /\ <<x, y>>[2] = y
  OBVIOUS
<1> DEFINE a == <<x>>
<1> DEFINE b == <<x, y>>
<1>2. a \in Seq(S) /\ b \in Seq(S) /\ Len(a) = 1 /\ Len(b) = 2 /\ a[1] = x /\ b[1] = x /\ b[2] = y
  BY <1>1
<1> HIDE DEF a, b
<1>3. Append(a, y) \in Seq(S) /\ Len(Append(a, y)) = 2 /\ Append(a, y)[1] = x /\ Append(a, y)[2] = y
  <2>1. /\ Append(a, y) \in Seq(S) /\ Len(Append(a, y)) = Len(a) + 1
        /\ \A i \in 1..Len(a) : Append(a, y)[i] = a[i]
        /\ Append(a, y)[Len(a) + 1] = y
    <3>1. a \in Seq(S) /\ y \in S
      BY <1>2
    <3> QED
      BY <3>1, AppendProperties
  <2>2. Len(a) + 1 = 2 /\ 1 \in 1..Len(a)
    BY <1>2
  <2> QED
    BY <1>2, <2>1, <2>2
<1>4. Append(a, y) = b
  <2>1. \A i \in 1..2 : Append(a, y)[i] = b[i]
    <3>1. \A i \in 1..2 : i = 1 \/ i = 2
      OBVIOUS
    <3> QED
      BY <1>2, <1>3, <3>1
  <2> QED
    BY <1>2, <1>3, <2>1, SeqEqual
<1>5. Append(a, y) = a \o <<y>>
  BY <1>2, AppendIsConcat
<1> QED
  BY <1>1, <1>4, <1>5 DEF a, b

\* What is read while nothing waits comes behind all other chunks.
LEMMA NextChunk ==
    ASSUME NEW q \in PcRecords, q.out = << >>, NEW r \in PcRecords, r.got = q.got, r.chan = q.chan,
           NEW x \in StreamChunks
    PROVE  /\ r.out = <<x>> => Whole(r) = Append(Whole(q), x)
           /\ \A y \in StreamChunks : r.out = <<x, y>> => Whole(r) = Append(Append(Whole(q), x), y)
<1> DEFINE a == q.got \o q.chan
<1>1. a \in Seq(StreamChunks)
  BY WholeIsSeq
<1> HIDE DEF a
<1>2. Whole(q) = a /\ Whole(r) = a \o r.out
  BY <1>1, ConcatEmptySeq DEF Whole, a
<1>3. r.out = <<x>> => Whole(r) = Append(a, x)
  BY <1>1, <1>2, AppendIsConcat
<1>4. ASSUME NEW y \in StreamChunks, r.out = <<x, y>> PROVE Whole(r) = Append(Append(a, x), y)
  <2>1. <<x>> \in Seq(StreamChunks) /\ Append(<<x>>, y) = <<x, y>>
    BY TwoChunks
  <2>2. a \o Append(<<x>>, y) = Append(a \o <<x>>, y)
    BY <1>1, <2>1, AppendedLast
  <2>3. a \o <<x>> = Append(a, x)
    BY <1>1, AppendIsConcat
  <2> QED
    BY <1>2, <1>4, <2>1, <2>2, <2>3
<1> QED
  BY <1>2, <1>3, <1>4

\* What the reader finds when it reads on.
LEMMA ReaderFacts ==
    ASSUME PcIInv, NEW c \in PcCalls, Idle(c)
    PROVE  /\ pcCall[c] \in PcRecords /\ PcShape(pcCall[c]) /\ PcRight(pcVendor, pcCall[c])
           /\ pcCall[c].pc = "reading" /\ pcCall[c].out = << >> /\ pcCall[c].ending = "no" /\ pcCall[c].deltas \in Nat
           /\ Whole(pcCall[c]) \in Seq(StreamChunks) /\ WellFormed(pcVendor, Whole(pcCall[c]))
           /\ \A i \in DOMAIN Whole(pcCall[c]) : Whole(pcCall[c])[i].kind # "error"
           /\ ~pcCall[c].done => \A i \in DOMAIN Whole(pcCall[c]) : Whole(pcCall[c])[i].kind # "done"
           /\ pcCall[c].deltas = Texts(Whole(pcCall[c]), Len(Whole(pcCall[c])))
<1>1. pcCall[c] \in PcRecords /\ PcShape(pcCall[c]) /\ PcRight(pcVendor, pcCall[c])
  BY PcFacts DEF PcRight
<1>2. pcCall[c].pc = "reading" /\ pcCall[c].out = << >> /\ pcCall[c].ending = "no"
  BY DEF Idle
<1>3. pcCall[c].deltas \in Nat
  BY <1>1 DEF PcRecords
<1> QED
  BY <1>1, <1>2, <1>3, WholeIsSeq DEF PcRight, Unfinished

\* A text is read, with the finish reason or without.
LEMMA ReadDeltaStep ==
    ASSUME PcIInv, NEW c \in PcCalls, NEW last \in BOOLEAN, ReadDelta(c, last)
    PROVE  PcIInv'
<1> DEFINE q == pcCall[c]
<1> DEFINE n == q.deltas + 1
<1> DEFINE d == Chunk("delta", n)
<1> DEFINE f == Chunk("done", n)
<1> DEFINE r == [q EXCEPT !.deltas = n, !.done = (@ \/ last), !.out = <<d>> \o (IF last THEN <<f>> ELSE << >>)]
<1>1. Idle(c) /\ Heard(c) /\ PcSet(c, r) /\ pcVendor' = pcVendor /\ pcClosed' = pcClosed
      /\ pcStatus' = pcStatus /\ pcRecorded' = pcRecorded
  BY DEF ReadDelta, Reads
<1>2. /\ q \in PcRecords /\ PcShape(q) /\ PcRight(pcVendor, q) /\ q.pc = "reading" /\ q.out = << >>
      /\ q.ending = "no" /\ q.deltas \in Nat
      /\ Whole(q) \in Seq(StreamChunks) /\ WellFormed(pcVendor, Whole(q))
      /\ \A i \in DOMAIN Whole(q) : Whole(q)[i].kind # "error"
      /\ ~q.done => \A i \in DOMAIN Whole(q) : Whole(q)[i].kind # "done"
      /\ q.deltas = Texts(Whole(q), Len(Whole(q)))
  BY <1>1, ReaderFacts
<1>3. pcStatus' \in {"available", "error", "unavailable"} /\ pcRecorded' \in Nat /\ pcVendor \in {"anthropic", "openai"}
  BY <1>1 DEF PcIInv
<1>4. (\E i \in DOMAIN Whole(q) : Whole(q)[i].kind = "done") => pcVendor # "openai"
  BY <1>1, <1>2 DEF Heard
<1>5. d \in StreamChunks /\ f \in StreamChunks /\ d.kind = "delta" /\ f.kind = "done" /\ d.content = n /\ f.content = n
  BY <1>2 DEF Chunk, StreamChunks
<1> DEFINE s == Whole(q)
<1> DEFINE t == Append(s, d)
<1> DEFINE u == Append(t, f)
<1>6. /\ t \in Seq(StreamChunks) /\ WellFormed(pcVendor, t) /\ Texts(t, Len(t)) = n
      /\ \A i \in DOMAIN t : t[i].kind # "error"
      /\ ~q.done => \A i \in DOMAIN t : t[i].kind # "done"
      /\ (\E i \in DOMAIN t : t[i].kind = "done") => pcVendor # "openai"
  <2> HIDE DEF d
  <2>1. t \in Seq(StreamChunks) /\ Len(t) = Len(s) + 1
    BY <1>2, <1>5, AppendProperties
  <2>2. \A i \in DOMAIN t : t[i].kind # "error"
    BY <1>2, <1>5, NoneAppended
  <2>3. (\A i \in DOMAIN s : s[i].kind # "done") => \A i \in DOMAIN t : t[i].kind # "done"
    BY <1>2, <1>5, NoneAppended
  <2>4. WellFormed(pcVendor, t)
    BY <1>2, <1>4, <1>5, ChunkFollows
  <2>5. Texts(t, Len(t)) = n
    BY <1>2, <1>5, <2>1, TextsAppended
  <2> QED
    BY <1>2, <1>4, <2>1, <2>2, <2>3, <2>4, <2>5
<1>7. /\ u \in Seq(StreamChunks) /\ WellFormed(pcVendor, u) /\ Texts(u, Len(u)) = n
      /\ \A i \in DOMAIN u : u[i].kind # "error"
  <2> HIDE DEF f, t
  <2>1. u \in Seq(StreamChunks) /\ Len(u) = Len(t) + 1
    BY <1>5, <1>6, AppendProperties
  <2>2. \A i \in DOMAIN u : u[i].kind # "error"
    BY <1>5, <1>6, NoneAppended
  <2>3. WellFormed(pcVendor, u)
    BY <1>5, <1>6, ChunkFollows
  <2>4. Texts(u, Len(t) + 1) = Texts(t, Len(t)) + 0
    BY <1>5, <1>6, TextsAppended
  <2>5. n \in Nat
    BY <1>2
  <2> HIDE DEF n, u
  <2> QED
    BY <1>6, <2>1, <2>2, <2>3, <2>4, <2>5
<1> DEFINE out == <<d>> \o (IF last THEN <<f>> ELSE << >>)
<1>8. out = (IF last THEN <<d, f>> ELSE <<d>>) /\ out \in Seq(StreamChunks)
  <2> HIDE DEF d, f
  <2>1. CASE last
    BY <1>5, <2>1, TwoChunks
  <2>2. CASE ~last
    BY <1>5, <2>2, ConcatEmptySeq
  <2> QED
    BY <2>1, <2>2
<1>9. /\ r \in PcRecords /\ r.kind = q.kind /\ r.pc = q.pc /\ r.deltas = n /\ (r.done <=> q.done \/ last)
      /\ r.out = out /\ r.ending = q.ending /\ r.chan = q.chan /\ r.got = q.got
  <2>1. r = [q EXCEPT !.deltas = n, !.done = (@ \/ last), !.out = out]
    OBVIOUS
  <2>2. q \in PcRecords /\ n \in Nat /\ q.done \in BOOLEAN
    BY <1>2 DEF PcRecords
  <2> HIDE DEF r, d, f, q, n, out
  <2> QED
    BY <1>8, <2>1, <2>2 DEF PcRecords
<1> HIDE DEF r
<1>10. Whole(r) = IF last THEN u ELSE t
  <2>1. q \in PcRecords /\ q.out = << >>
    BY <1>2
  <2>2. r \in PcRecords /\ r.got = q.got /\ r.chan = q.chan /\ r.out = IF last THEN <<d, f>> ELSE <<d>>
    BY <1>8, <1>9
  <2>3. d \in StreamChunks /\ f \in StreamChunks
    BY <1>5
  <2> HIDE DEF d, f, q
  <2>4. CASE last
    BY <2>1, <2>2, <2>3, <2>4, NextChunk
  <2>5. CASE ~last
    BY <2>1, <2>2, <2>3, <2>5, NextChunk
  <2> QED
    BY <2>4, <2>5
<1> HIDE DEF u, t
<1>11. PcShape(r)
  BY <1>2, <1>9 DEF PcShape
<1>12. WellFormed(pcVendor, Whole(r))
  BY <1>6, <1>7, <1>10
<1>13. Unfinished(r)
  <2>1. \A i \in DOMAIN Whole(r) : Whole(r)[i].kind # "error"
    BY <1>6, <1>7, <1>10
  <2>2. ~r.done => \A i \in DOMAIN Whole(r) : Whole(r)[i].kind # "done"
    BY <1>6, <1>9, <1>10
  <2>3. r.deltas = Texts(Whole(r), Len(Whole(r)))
    BY <1>6, <1>7, <1>9, <1>10
  <2> QED
    BY <2>1, <2>2, <2>3 DEF Unfinished
<1>14. PcRight(pcVendor, r)
  BY <1>9, <1>11, <1>12, <1>13 DEF PcRight
<1> QED
  BY <1>1, <1>3, <1>14, PcCallSet

\* A finish or an error is read.
LEMMA EndRead ==
    ASSUME PcIInv, NEW c \in PcCalls, Idle(c), Heard(c), NEW r \in PcRecords, NEW x \in StreamChunks,
           r.pc = pcCall[c].pc, r.kind = pcCall[c].kind, r.chan = pcCall[c].chan, r.got = pcCall[c].got,
           r.deltas = pcCall[c].deltas, r.out = <<x>>,
           \/ x.kind = "done" /\ x.content = r.deltas /\ r.done
           \/ x.kind = "error" /\ r.ending # "no" /\ r.done = pcCall[c].done
    PROVE  PcRight(pcVendor, r)
<1> DEFINE q == pcCall[c]
<1> DEFINE s == Whole(q)
<1> DEFINE t == Append(s, x)
<1>1. /\ q \in PcRecords /\ PcShape(q) /\ PcRight(pcVendor, q) /\ q.pc = "reading" /\ q.out = << >>
      /\ q.ending = "no" /\ q.deltas \in Nat
      /\ s \in Seq(StreamChunks) /\ WellFormed(pcVendor, s)
      /\ \A i \in DOMAIN s : s[i].kind # "error"
      /\ ~q.done => \A i \in DOMAIN s : s[i].kind # "done"
      /\ q.deltas = Texts(s, Len(s))
  BY ReaderFacts
<1>2. Whole(r) = t
  BY <1>1, NextChunk
<1> HIDE DEF s
<1>3. Len(t) = Len(s) + 1 /\ Len(s) \in Nat
  BY <1>1, AppendProperties, LenProperties
<1>4. (\E i \in DOMAIN s : s[i].kind = "done") => pcVendor # "openai"
  BY <1>1 DEF Heard
<1>5. x.kind # "delta" /\ (x.kind = "done" => x.content = Texts(s, Len(s)))
  BY <1>1
<1>6. WellFormed(pcVendor, t)
  BY <1>1, <1>4, <1>5, ChunkFollows
<1>7. r.deltas = Texts(t, Len(t))
  <2>1. Texts(t, Len(s) + 1) = Texts(s, Len(s)) + 0
    BY <1>1, <1>5, TextsAppended
  <2> QED
    BY <1>1, <1>3, <2>1
<1>8. r.ending = "no" => \A i \in DOMAIN t : t[i].kind # "error"
  <2>1. ASSUME r.ending = "no" PROVE x.kind # "error"
    BY <2>1
  <2> QED
    BY <1>1, <2>1, NoneAppended
<1>9. ~r.done => \A i \in DOMAIN t : t[i].kind # "done"
  <2>1. ASSUME ~r.done PROVE x.kind # "done" /\ ~q.done
    BY <2>1
  <2> QED
    BY <1>1, <2>1, NoneAppended
<1>10. Unfinished(r)
  BY <1>2, <1>7, <1>8, <1>9 DEF Unfinished
<1>11. PcShape(r)
  BY <1>1 DEF PcShape
<1> QED
  BY <1>2, <1>6, <1>10, <1>11 DEF PcRight

\* A finish is read, which from Anthropic carries the usage or not.
LEMMA ReadFinalStep ==
    ASSUME PcIInv, NEW c \in PcCalls, NEW usage \in BOOLEAN, ReadFinal(c, usage)
    PROVE  PcIInv'
<1> DEFINE q == pcCall[c]
<1> DEFINE x == Chunk("done", q.deltas)
<1> DEFINE e == IF pcVendor = "anthropic" /\ ~usage THEN "panic" ELSE "no"
<1> DEFINE r == [q EXCEPT !.done = TRUE, !.out = <<x>>, !.ending = e]
<1>1. /\ Idle(c) /\ Heard(c) /\ PcSet(c, r) /\ pcVendor' = pcVendor /\ pcClosed' = pcClosed
      /\ pcRecorded' = pcRecorded + (IF usage THEN 1 ELSE 0) /\ pcStatus' = pcStatus
  BY DEF ReadFinal, Reads
<1>2. q \in PcRecords /\ PcShape(q) /\ PcRight(pcVendor, q) /\ q.pc = "reading" /\ q.deltas \in Nat
  BY <1>1, ReaderFacts
<1>3. pcStatus' \in {"available", "error", "unavailable"} /\ pcRecorded' \in Nat
  BY <1>1 DEF PcIInv
<1>4. x \in StreamChunks /\ x.kind = "done" /\ x.content = q.deltas /\ e \in {"no", "error", "quiet", "panic"}
  BY <1>2 DEF Chunk, StreamChunks
<1>5. <<x>> \in Seq(StreamChunks)
  BY <1>4
<1>6. /\ r \in PcRecords /\ r.kind = q.kind /\ r.pc = q.pc /\ r.deltas = q.deltas /\ r.done = TRUE /\ r.out = <<x>>
      /\ r.chan = q.chan /\ r.got = q.got
  <2> HIDE DEF q, x, e
  <2> QED
    BY <1>2, <1>4, <1>5 DEF PcRecords
<1> HIDE DEF r, x, e
<1>7. PcRight(pcVendor, r)
  BY <1>1, <1>2, <1>4, <1>6, EndRead
<1> QED
  BY <1>1, <1>3, <1>7, PcCallSet

\* The stream breaks while it is read.
LEMMA ReadFailsStep ==
    ASSUME PcIInv, NEW c \in PcCalls, ReadFails(c)
    PROVE  PcIInv'
<1> DEFINE q == pcCall[c]
<1> DEFINE r == [q EXCEPT !.ending = "error", !.out = <<ErrorChunk>>]
<1> DEFINE u == [q EXCEPT !.ending = "quiet"]
<1>1. /\ Idle(c) /\ PcSet(c, IF Heard(c) THEN r ELSE u) /\ pcVendor' = pcVendor /\ pcClosed' = pcClosed
      /\ pcStatus' = pcStatus /\ pcRecorded' = pcRecorded
  BY DEF ReadFails
<1>2. q \in PcRecords /\ PcShape(q) /\ PcRight(pcVendor, q) /\ q.pc = "reading" /\ q.ending = "no"
  BY <1>1, ReaderFacts
<1>3. pcStatus' \in {"available", "error", "unavailable"} /\ pcRecorded' \in Nat
  BY <1>1 DEF PcIInv
<1>4. CASE ~Heard(c)
  <2>1. /\ u \in PcRecords /\ u.kind = q.kind /\ u.pc = q.pc /\ u.deltas = q.deltas /\ u.done = q.done /\ u.out = q.out
        /\ u.ending = "quiet" /\ u.chan = q.chan /\ u.got = q.got
    <3> HIDE DEF q
    <3> QED
      BY <1>2 DEF PcRecords
  <2>2. PcSet(c, u)
    BY <1>1, <1>4
  <2> HIDE DEF u
  <2>3. PcShape(u) /\ Whole(u) = Whole(q)
    BY <1>2, <2>1 DEF PcShape, Whole
  <2>4. PcRight(pcVendor, u)
    BY <1>2, <2>1, <2>3, ChunksKept
  <2> QED
    BY <1>1, <1>3, <2>2, <2>4, PcCallSet
<1>5. CASE Heard(c)
  <2>2. ErrorChunk \in StreamChunks /\ ErrorChunk.kind = "error" /\ <<ErrorChunk>> \in Seq(StreamChunks)
    BY DEF Chunk, StreamChunks, ErrorChunk
  <2>3. /\ r \in PcRecords /\ r.kind = q.kind /\ r.pc = q.pc /\ r.deltas = q.deltas /\ r.done = q.done
        /\ r.out = <<ErrorChunk>> /\ r.ending = "error" /\ r.chan = q.chan /\ r.got = q.got
    <3> HIDE DEF q
    <3> QED
      BY <1>2, <2>2 DEF PcRecords
  <2>4. PcSet(c, r)
    BY <1>1, <1>5
  <2> HIDE DEF r
  <2>5. PcRight(pcVendor, r)
    BY <1>1, <1>2, <1>5, <2>2, <2>3, EndRead
  <2> QED
    BY <1>1, <1>3, <2>4, <2>5, PcCallSet
<1> QED
  BY <1>4, <1>5

\* The goroutine finds the context ended.
LEMMA SeesCancelledStep ==
    ASSUME PcIInv, NEW c \in PcCalls, SeesCancelled(c)
    PROVE  PcIInv'
<1> DEFINE q == pcCall[c]
<1> DEFINE r == [q EXCEPT !.ending = "quiet", !.out = IF Heard(c) THEN <<ErrorChunk>> ELSE << >>]
<1>1. /\ Idle(c) /\ PcSet(c, r) /\ pcVendor' = pcVendor /\ pcClosed' = pcClosed
      /\ pcStatus' = pcStatus /\ pcRecorded' = pcRecorded
  BY DEF SeesCancelled
<1>2. q \in PcRecords /\ PcShape(q) /\ PcRight(pcVendor, q) /\ q.pc = "reading" /\ q.ending = "no" /\ q.out = << >>
  BY <1>1, ReaderFacts
<1>3. pcStatus' \in {"available", "error", "unavailable"} /\ pcRecorded' \in Nat
  BY <1>1 DEF PcIInv
<1>4. ErrorChunk \in StreamChunks /\ ErrorChunk.kind = "error" /\ <<ErrorChunk>> \in Seq(StreamChunks)
  BY DEF Chunk, StreamChunks, ErrorChunk
<1>5. (IF Heard(c) THEN <<ErrorChunk>> ELSE << >>) \in Seq(StreamChunks)
  BY <1>4
<1>6. /\ r \in PcRecords /\ r.kind = q.kind /\ r.pc = q.pc /\ r.deltas = q.deltas /\ r.done = q.done
      /\ r.out = (IF Heard(c) THEN <<ErrorChunk>> ELSE << >>) /\ r.ending = "quiet" /\ r.chan = q.chan /\ r.got = q.got
  <2> DEFINE o == IF Heard(c) THEN <<ErrorChunk>> ELSE << >>
  <2>1. o \in Seq(StreamChunks) /\ r = [q EXCEPT !.ending = "quiet", !.out = o]
    BY <1>5
  <2> HIDE DEF q, o, r
  <2>2. /\ r \in PcRecords /\ r.kind = q.kind /\ r.pc = q.pc /\ r.deltas = q.deltas /\ r.done = q.done
        /\ r.out = o /\ r.ending = "quiet" /\ r.chan = q.chan /\ r.got = q.got
    BY <1>2, <2>1 DEF PcRecords
  <2> QED
    BY <2>2 DEF o
<1> HIDE DEF r
<1>7. PcRight(pcVendor, r)
  <2>1. CASE Heard(c)
    <3>1. r.out = <<ErrorChunk>>
      BY <1>6, <2>1
    <3> QED
      BY <1>1, <1>4, <1>6, <2>1, <3>1, EndRead
  <2>2. CASE ~Heard(c)
    <3>1. r.out = q.out
      BY <1>2, <1>6, <2>2
    <3>2. PcShape(r) /\ Whole(r) = Whole(q)
      BY <1>2, <1>6, <3>1 DEF PcShape, Whole
    <3> QED
      BY <1>2, <1>6, <3>2, ChunksKept
  <2> QED
    BY <2>1, <2>2
<1> QED
  BY <1>1, <1>3, <1>7, PcCallSet

\* Every step of the provider and of its calls preserves the invariant.
LEMMA PcStep == PcIInv /\ [PcNext]_pcVars => PcIInv'
<1> SUFFICES ASSUME PcIInv, [PcNext]_pcVars PROVE PcIInv'
  OBVIOUS
<1>1. CASE UNCHANGED pcVars
  BY <1>1 DEF PcIInv, pcVars
<1>2. CASE PcClose
  BY <1>2 DEF PcClose, PcIInv, UpdateStatus
<1>3. ASSUME NEW c \in PcCalls, NEW kind \in {"complete", "stream"}, NEW valid \in BOOLEAN, PcBegin(c, kind, valid)
      PROVE  PcIInv'
  BY <1>3, PcBeginStep
<1>4. ASSUME NEW c \in PcCalls, NEW code, ErrorResponse(c, code) PROVE PcIInv'
  BY <1>4, ErrorResponseStep
<1>5. ASSUME NEW c \in PcCalls, NEW last \in BOOLEAN, ReadDelta(c, last) PROVE PcIInv'
  BY <1>5, ReadDeltaStep
<1>6. ASSUME NEW c \in PcCalls, PcCancel(c) \/ DoFails(c) \/ BodyFails(c) \/ CompleteReturns(c) \/ StreamAccepted(c)
      PROVE  PcIInv'
  BY <1>6, PcCancelStep, DoFailsStep, BodyFailsStep, CompleteReturnsStep, StreamAcceptedStep
<1>7. ASSUME NEW c \in PcCalls, ReadingStarts(c) \/ ReadFails(c) \/ SeesCancelled(c) \/ ReadEOF(c)
      PROVE  PcIInv'
  BY <1>7, ReadingStartsStep, ReadFailsStep, SeesCancelledStep, ReadEOFStep
<1>8. ASSUME NEW c \in PcCalls, ChannelCloses(c) \/ PcPanics(c) \/ Put(c) \/ Receive(c) PROVE PcIInv'
  BY <1>8, ChannelClosesStep, PcPanicsStep, PutStep, ReceiveStep
<1>9. ASSUME NEW c \in PcCalls, NEW usage \in BOOLEAN, ReadFinal(c, usage) PROVE PcIInv'
  BY <1>9, ReadFinalStep
<1> QED
  BY <1>1, <1>2, <1>3, <1>4, <1>5, <1>6, <1>7, <1>8, <1>9 DEF PcNext

\* Before the first call nothing was read and nothing is in the account.
LEMMA PcBefore == PcInit => PcIInv
<1> SUFFICES ASSUME PcInit PROVE PcIInv
  OBVIOUS
<1>1. \A c \in PcCalls : pcCall[c] = NewPcCall
  BY DEF PcInit
<1>2. << >> \in Seq(StreamChunks)
  OBVIOUS
<1>3. NewPcCall \in PcRecords
  BY <1>2 DEF NewPcCall, PcRecords, PcStates
<1>4. Whole(NewPcCall) = << >> /\ Texts(<< >>, 0) = 0
  <2>1. {j \in 1..0 : (<< >>)[j].kind = "delta"} = {}
    OBVIOUS
  <2>2. << >> \o << >> = << >>
    BY <1>2, ConcatEmptySeq
  <2> QED
    BY <2>1, <2>2, FS_EmptySet DEF Whole, Texts, NewPcCall
<1>5. PcShape(NewPcCall)
  BY PcAssumption DEF PcShape, NewPcCall
<1>6. WellFormed(pcVendor, << >>)
  BY DEF WellFormed
<1>7. Unfinished(NewPcCall)
  BY <1>4 DEF Unfinished, NewPcCall
<1>8. PcRight(pcVendor, NewPcCall)
  BY <1>3, <1>4, <1>5, <1>6, <1>7 DEF PcRight
<1>9. pcRecorded \in Nat
  BY DEF PcInit
<1>10. pcCall \in [PcCalls -> PcRecords]
  BY <1>3 DEF PcInit
<1> QED
  BY <1>1, <1>8, <1>9, <1>10 DEF PcInit, PcIInv

\* The invariant says what the run checks of every state.
LEMMA PcStateSafe == PcIInv => PcTypeOK /\ StreamIsWellFormed
<1> SUFFICES ASSUME PcIInv PROVE PcTypeOK /\ StreamIsWellFormed
  OBVIOUS
<1>1. pcRecorded \in Nat
  BY DEF PcIInv
<1>2. ASSUME NEW c \in PcCalls
      PROVE  /\ pcCall[c].pc \in PcStates /\ Len(pcCall[c].chan) <= ChunkBuffer
             /\ pcCall[c].kind = "complete" => pcCall[c].chan = << >> /\ pcCall[c].got = << >>
  <2>1. pcCall[c] \in PcRecords /\ PcShape(pcCall[c])
    BY PcFacts DEF PcRight
  <2> QED
    BY <2>1 DEF PcRecords, PcShape
<1>3. PcTypeOK
  BY <1>1, <1>2 DEF PcIInv, PcTypeOK, PcStates
<1>4. ASSUME NEW c \in PcCalls PROVE Stream(c) = Whole(pcCall[c]) /\ WellFormed(pcVendor, Whole(pcCall[c]))
  BY PcFacts DEF Stream, Whole, PcRight
<1>5. StreamIsWellFormed
  <2> SUFFICES ASSUME NEW c \in PcCalls, NEW i \in DOMAIN Stream(c)
               PROVE  LET s == Stream(c) IN
                        /\ s[i].kind # "error" => s[i].content = Texts(s, i)
                        /\ s[i].kind = "error" => i = Len(s)
                        /\ s[i].kind = "done" /\ pcVendor = "openai" => i = Len(s)
    BY DEF StreamIsWellFormed, Texts
  <2> DEFINE s == Stream(c)
  <2>1. WellFormed(pcVendor, s) /\ i \in DOMAIN s
    BY <1>4
  <2> HIDE DEF s
  <2>2. /\ s[i].kind # "error" => s[i].content = Texts(s, i)
        /\ s[i].kind = "error" => i = Len(s)
        /\ s[i].kind = "done" /\ pcVendor = "openai" => i = Len(s)
    BY <2>1 DEF WellFormed
  <2> QED
    BY <2>2 DEF s
<1> QED
  BY <1>3, <1>5

\* A call that has an end to report was accepted.
LEMMA EndingWasStarted ==
    ASSUME PcIInv, NEW c \in PcCalls, pcCall[c].ending # "no"
    PROVE  pcCall[c].pc # "new"
BY PcFacts DEF PcRight, PcShape

\* Whatever steps a provider takes but to close, to begin a call or to hand a chunk
\* over are steps of one call in flight.
LEMMA PcWhoseStep ==
    ASSUME PcIInv, PcNext
    PROVE  \/ PcClose
           \/ \E c \in PcCalls, kind \in {"complete", "stream"}, valid \in BOOLEAN : PcBegin(c, kind, valid)
           \/ \E c \in PcCalls : Receive(c)
           \/ \E c \in InFlight : \E r : PcSet(c, r)
<1>1. ASSUME NEW c \in PcCalls, NEW code, ErrorResponse(c, code) PROVE c \in InFlight /\ \E r : PcSet(c, r)
  BY <1>1 DEF ErrorResponse, InFlight, PcOver
<1>2. ASSUME NEW c \in PcCalls, NEW last, ReadDelta(c, last) PROVE c \in InFlight /\ \E r : PcSet(c, r)
  BY <1>2 DEF ReadDelta, Reads, Idle, InFlight, PcOver
<1>3. ASSUME NEW c \in PcCalls, PcCancel(c) \/ DoFails(c) \/ BodyFails(c) \/ CompleteReturns(c) \/ StreamAccepted(c)
      PROVE  c \in InFlight /\ \E r : PcSet(c, r)
  BY <1>3 DEF PcCancel, DoFails, BodyFails, CompleteReturns, StreamAccepted, InFlight, PcOver
<1>4. ASSUME NEW c \in PcCalls, ReadingStarts(c) \/ ReadFails(c) \/ SeesCancelled(c) \/ ReadEOF(c)
      PROVE  c \in InFlight /\ \E r : PcSet(c, r)
  BY <1>4 DEF ReadingStarts, ReadFails, SeesCancelled, ReadEOF, Idle, InFlight, PcOver
<1>5. ASSUME NEW c \in PcCalls, ChannelCloses(c) \/ PcPanics(c) PROVE c \in InFlight /\ \E r : PcSet(c, r)
  BY <1>5, EndingWasStarted DEF ChannelCloses, PcPanics, InFlight
<1>6. ASSUME NEW c \in PcCalls, Put(c) PROVE c \in InFlight /\ \E r : PcSet(c, r)
  BY <1>6 DEF Put, InFlight, PcOver
<1>7. ASSUME NEW c \in PcCalls, NEW usage, ReadFinal(c, usage) PROVE c \in InFlight /\ \E r : PcSet(c, r)
  BY <1>7 DEF ReadFinal, Reads, Idle, InFlight, PcOver
<1> QED
  BY <1>1, <1>2, <1>3, <1>4, <1>5, <1>6, <1>7 DEF PcNext

\* Only the call that is set changes.
LEMMA OthersKept ==
    ASSUME PcIInv, NEW c \in PcCalls, NEW r, PcSet(c, r)
    PROVE  \A d \in PcCalls : pcCall'[d] = IF d = c THEN r ELSE pcCall[d]
BY DEF PcIInv, PcSet

\* No call is taken by a closed provider, and none by one that is not available.
LEMMA BeginsRefused ==
    ASSUME PcIInv, NEW c \in PcCalls, NEW kind, NEW valid, PcBegin(c, kind, valid), Refused
    PROVE  /\ pcCall'[c].pc = "refused" /\ pcStatus' = pcStatus
           /\ \A d \in PcCalls \ {c} : pcCall'[d] = pcCall[d]
<1> DEFINE r == [pcCall[c] EXCEPT !.kind = kind, !.pc = IF Refused \/ ~valid THEN "refused" ELSE "sent"]
<1>1. PcSet(c, r) /\ pcStatus' = pcStatus
  BY DEF PcBegin
<1>2. r.pc = "refused"
  <2>1. pcCall[c] \in PcRecords
    BY PcFacts DEF PcRight
  <2> QED
    BY <2>1 DEF PcRecords
<1> HIDE DEF r
<1> QED
  BY <1>1, <1>2, OthersKept

\* Handing a chunk over leaves a call where it is.
LEMMA ReceiveKeepsPc ==
    ASSUME PcIInv, NEW c \in PcCalls, Receive(c)
    PROVE  pcStatus' = pcStatus /\ \A d \in PcCalls : pcCall'[d].pc = pcCall[d].pc
<1> DEFINE r == [pcCall[c] EXCEPT !.chan = Tail(@), !.got = Append(@, Head(pcCall[c].chan))]
<1>1. PcSet(c, r) /\ pcStatus' = pcStatus
  BY DEF Receive
<1>2. r.pc = pcCall[c].pc
  <2>1. pcCall[c] \in PcRecords
    BY PcFacts DEF PcRight
  <2> QED
    BY <2>1 DEF PcRecords
<1> HIDE DEF r
<1> QED
  BY <1>1, <1>2, OthersKept

\* A closed provider refuses what comes.
LEMMA ClosedStep ==
    ASSUME PcIInv, [PcNext]_pcVars, pcClosed, NEW c \in PcCalls, pcCall[c].pc = "new"
    PROVE  pcCall'[c].pc \in {"new", "refused"}
<1>1. CASE UNCHANGED pcVars
  BY <1>1 DEF pcVars
<1>2. CASE PcClose
  BY <1>2 DEF PcClose
<1>3. ASSUME NEW d \in PcCalls, NEW kind, NEW valid, PcBegin(d, kind, valid) PROVE pcCall'[c].pc \in {"new", "refused"}
  <2>1. pcCall'[d].pc = "refused" /\ \A e \in PcCalls \ {d} : pcCall'[e] = pcCall[e]
    BY <1>3, BeginsRefused DEF Refused
  <2> QED
    BY <2>1
<1>4. ASSUME NEW d \in PcCalls, Receive(d) PROVE pcCall'[c].pc \in {"new", "refused"}
  BY <1>4, ReceiveKeepsPc
<1>5. ASSUME NEW d \in InFlight, NEW r, PcSet(d, r) PROVE pcCall'[c].pc \in {"new", "refused"}
  <2>1. d \in PcCalls /\ d # c
    BY DEF InFlight
  <2> QED
    BY <1>5, <2>1, OthersKept
<1> QED
  BY <1>1, <1>2, <1>3, <1>4, <1>5, PcWhoseStep

\* A consumer of a stream gets every text once and in order, each chunk with the content
\* so far, and an error last; a closed provider takes no call, though one in flight makes
\* its status available again (anthropic.go, openai.go).
THEOREM ProviderCallsStaySafe == PcSpec => ProviderCallsSafe
<1>1. PcInit => PcIInv
  BY PcBefore
<1>2. PcIInv /\ [PcNext]_pcVars => PcIInv'
  BY PcStep
<1>3. PcIInv => PcTypeOK /\ StreamIsWellFormed
  BY PcStateSafe
<1>4. PcIInv /\ [PcNext]_pcVars => [\A c \in PcCalls : pcClosed /\ pcCall[c].pc = "new" => pcCall'[c].pc \in {"new", "refused"}]_pcVars
  BY ClosedStep
<1>5. PcSpec => [](PcTypeOK /\ StreamIsWellFormed)
  BY <1>1, <1>2, <1>3, PTL DEF PcSpec
<1>6. PcSpec => ClosedTakesNothing
  BY <1>1, <1>2, <1>4, PTL DEF PcSpec, ClosedTakesNothing
<1> QED
  BY <1>5, <1>6 DEF ProviderCallsSafe
=============================================================================
