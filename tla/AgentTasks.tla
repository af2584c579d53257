----------------------------- MODULE AgentTasks -----------------------------
(***************************************************************************)
(* The tasks of agents: AgentRegistry and the task RPCs of AgentService    *)
(* (pkg/grpc/agent_service.go).  Clients add tasks, workers pick them up   *)
(* with heartbeats, anyone cancels them.                                   *)
(*                                                                         *)
(* AgentRegistry.mu guards the maps, each task has a mutex of its own, and *)
(* a Heartbeat handler walks the tasks of its agent one by one: handlers   *)
(* of the same agent overlap when the worker gave up waiting for the first *)
(* and sent another.  Agent IDs are generated, so none is registered twice.*)
(***************************************************************************)
EXTENDS Naturals, FiniteSets

CONSTANTS
    TaskIDs,        \* the tasks ExecuteTask creates
    WorkerIDs,      \* the agent IDs Register generates
    Heartbeats,     \* Heartbeat handlers
    TaskStreams     \* StreamTask handlers

\* 0 stands for no agent.
ASSUME AtAssumption == 0 \notin WorkerIDs

VARIABLES
    atAgents,       \* AgentRegistry.agents: what became of each agent ID
    atOwner,        \* the agent in whose ActiveTasks a task is, 0 before
    atState,        \* TaskInfo.State, "none" before
    atBeat,         \* the Heartbeat handlers
    atHanded,       \* how many heartbeat answers name a task
    atReached,      \* the tasks whose answer reached the worker
    atMissed,       \* the tasks whose answer was lost
    atStream,       \* the StreamTask handlers
    atStreams       \* AgentService.streams

atVars == <<atAgents, atOwner, atState, atBeat, atHanded, atReached, atMissed,
            atStream, atStreams>>

NoBeat == [pc |-> "idle", of |-> 0, left |-> {}, answer |-> {}]
NoTaskStream == [pc |-> "unused", task |-> 0]

AtInit ==
    /\ atAgents = [w \in WorkerIDs |-> "new"]
    /\ atOwner = [t \in TaskIDs |-> 0]
    /\ atState = [t \in TaskIDs |-> "none"]
    /\ atBeat = [b \in Heartbeats |-> NoBeat]
    /\ atHanded = [t \in TaskIDs |-> 0]
    /\ atReached = {} /\ atMissed = {}
    /\ atStream = [x \in TaskStreams |-> NoTaskStream]
    /\ atStreams = {}

RegisterAgent(w) ==
    /\ atAgents[w] = "new"
    /\ atAgents' = [atAgents EXCEPT ![w] = "idle"]
    /\ UNCHANGED <<atOwner, atState, atBeat, atHanded, atReached, atMissed, atStream, atStreams>>

\* The agent leaves the registry, its tasks stay.
UnregisterAgent(w) ==
    /\ atAgents[w] \in {"idle", "busy"}
    /\ atAgents' = [atAgents EXCEPT ![w] = "terminated"]
    /\ UNCHANGED <<atOwner, atState, atBeat, atHanded, atReached, atMissed, atStream, atStreams>>

RegisteredAgents == {w \in WorkerIDs : atAgents[w] \in {"idle", "busy"}}

\* ExecuteTask: AddTask makes the agent busy, which it stays.  Forwarding the
\* task to a worker only logs.
ExecuteAgentTask(t, w) ==
    /\ atState[t] = "none"
    /\ w \in RegisteredAgents
    /\ atState' = [atState EXCEPT ![t] = "pending"]
    /\ atOwner' = [atOwner EXCEPT ![t] = w]
    /\ atAgents' = [atAgents EXCEPT ![w] = "busy"]
    /\ UNCHANGED <<atBeat, atHanded, atReached, atMissed, atStream, atStreams>>

-----------------------------------------------------------------------------
(* Heartbeats.                                                             *)

\* UpdateHeartbeat finds the agent.
BeginHeartbeat(b, w) ==
    /\ atBeat[b].pc = "idle"
    /\ w \in RegisteredAgents
    /\ atBeat' = [atBeat EXCEPT ![b] = [NoBeat EXCEPT !.pc = "list", !.of = w]]
    /\ UNCHANGED <<atAgents, atOwner, atState, atHanded, atReached, atMissed, atStream, atStreams>>

\* ListTasks copies the agent's ActiveTasks, nothing when the agent has left.
ListAgentTasks(b) ==
    LET w == atBeat[b].of
        listed == IF w \in RegisteredAgents THEN {t \in TaskIDs : atOwner[t] = w} ELSE {}
    IN
    /\ atBeat[b].pc = "list"
    /\ atBeat' = [atBeat EXCEPT ![b].pc = "mark", ![b].left = listed]
    /\ UNCHANGED <<atAgents, atOwner, atState, atHanded, atReached, atMissed, atStream, atStreams>>

\* Mutant of HandOut: the state is set in any case.
HandOutStarts(b, t) ==
    LET due == atState[t] = "pending" IN
    /\ atBeat[b].pc = "mark"
    /\ t \in atBeat[b].left
    /\ atBeat' = [atBeat EXCEPT ![b].left = @ \ {t},
                               ![b].answer = IF due THEN @ \cup {t} ELSE @]
    /\ atState' = [atState EXCEPT ![t] = "started"]
    /\ atHanded' = IF due THEN [atHanded EXCEPT ![t] = @ + 1] ELSE atHanded
    /\ UNCHANGED <<atAgents, atOwner, atReached, atMissed, atStream, atStreams>>

\* Mutant of HandOut: the task stays pending.
HandOutPending(b, t) ==
    LET due == atState[t] = "pending" IN
    /\ atBeat[b].pc = "mark"
    /\ t \in atBeat[b].left
    /\ atBeat' = [atBeat EXCEPT ![b].left = @ \ {t},
                               ![b].answer = IF due THEN @ \cup {t} ELSE @]
    /\ UNCHANGED <<atAgents, atOwner, atState, atHanded, atReached, atMissed, atStream, atStreams>>

\* The next listed task, in any order, under its mutex: a pending one joins the
\* answer and counts as started.
HandOut(b, t) ==
    LET due == atState[t] = "pending" IN
    /\ atBeat[b].pc = "mark"
    /\ t \in atBeat[b].left
    /\ atBeat' = [atBeat EXCEPT ![b].left = @ \ {t},
                               ![b].answer = IF due THEN @ \cup {t} ELSE @]
    /\ atState' = IF due THEN [atState EXCEPT ![t] = "started"] ELSE atState
    /\ atHanded' = IF due THEN [atHanded EXCEPT ![t] = @ + 1] ELSE atHanded
    /\ UNCHANGED <<atAgents, atOwner, atReached, atMissed, atStream, atStreams>>

\* The answer goes out.  It is lost when the connection breaks or the worker
\* has stopped waiting.
AnswerHeartbeat(b, arrives) ==
    /\ atBeat[b].pc = "mark"
    /\ atBeat[b].left = {}
    /\ atReached' = IF arrives THEN atReached \cup atBeat[b].answer ELSE atReached
    /\ atMissed' = IF arrives THEN atMissed ELSE atMissed \cup atBeat[b].answer
    /\ atBeat' = [atBeat EXCEPT ![b] = NoBeat]
    /\ UNCHANGED <<atAgents, atOwner, atState, atHanded, atStream, atStreams>>

-----------------------------------------------------------------------------
(* Cancellation and StreamTask.                                            *)

SetCancelled(t) == atState' = [atState EXCEPT ![t] = "cancelled"]

CancelAgentTask(t) ==
    /\ atState[t] # "none"
    /\ SetCancelled(t)
    /\ UNCHANGED <<atAgents, atOwner, atBeat, atHanded, atReached, atMissed, atStream, atStreams>>

\* A client opens StreamTask; the handler enters its stream.
OpenTaskStream(x) ==
    /\ atStream[x].pc = "unused"
    /\ atStream' = [atStream EXCEPT ![x].pc = "first"]
    /\ atStreams' = atStreams \cup {x}
    /\ UNCHANGED <<atAgents, atOwner, atState, atBeat, atHanded, atReached, atMissed>>

\* The first message that is not a heartbeat names an existing task.
NameTask(x, t) ==
    /\ atStream[x].pc = "first"
    /\ atState[t] # "none"
    /\ atStream' = [atStream EXCEPT ![x] = [pc |-> "open", task |-> t]]
    /\ UNCHANGED <<atAgents, atOwner, atState, atBeat, atHanded, atReached, atMissed, atStreams>>

\* The client leaves, names no existing task, or cannot be answered.
EndTaskStream(x) ==
    /\ atStream[x].pc \in {"first", "open"}
    /\ atStream' = [atStream EXCEPT ![x].pc = "ended"]
    /\ atStreams' = atStreams \ {x}
    /\ UNCHANGED <<atAgents, atOwner, atState, atBeat, atHanded, atReached, atMissed>>

\* A cancel command on the stream cancels its task and ends the handler.
CancelByStream(x) ==
    /\ atStream[x].pc = "open"
    /\ SetCancelled(atStream[x].task)
    /\ atStream' = [atStream EXCEPT ![x].pc = "ended"]
    /\ atStreams' = atStreams \ {x}
    /\ UNCHANGED <<atAgents, atOwner, atBeat, atHanded, atReached, atMissed>>

\* Close empties the map; the handlers wait on for their clients.
CloseAgentService ==
    /\ atStreams # {}
    /\ atStreams' = {}
    /\ UNCHANGED <<atAgents, atOwner, atState, atBeat, atHanded, atReached, atMissed, atStream>>

AtNext ==
    \/ \E w \in WorkerIDs : RegisterAgent(w) \/ UnregisterAgent(w)
    \/ \E t \in TaskIDs, w \in WorkerIDs : ExecuteAgentTask(t, w)
    \/ \E b \in Heartbeats, w \in WorkerIDs : BeginHeartbeat(b, w)
    \/ \E b \in Heartbeats : ListAgentTasks(b)
    \/ \E b \in Heartbeats, t \in TaskIDs : HandOut(b, t)
    \/ \E b \in Heartbeats, arrives \in BOOLEAN : AnswerHeartbeat(b, arrives)
    \/ \E t \in TaskIDs : CancelAgentTask(t)
    \/ \E x \in TaskStreams : OpenTaskStream(x) \/ EndTaskStream(x) \/ CancelByStream(x)
    \/ \E x \in TaskStreams, t \in TaskIDs : NameTask(x, t)
    \/ CloseAgentService

AtSpec == AtInit /\ [][AtNext]_atVars

\* The handlers go on, and each registered worker sends its heartbeats
\* (heartbeatLoop of pkg/worker/agent.go ticks until the agent is closed).
AtFairness ==
    /\ \A b \in Heartbeats :
         /\ WF_atVars(ListAgentTasks(b))
         /\ WF_atVars(\E t \in TaskIDs : HandOut(b, t))
         /\ WF_atVars(\E arrives \in BOOLEAN : AnswerHeartbeat(b, arrives))
    /\ \A w \in WorkerIDs : WF_atVars(\E b \in Heartbeats : BeginHeartbeat(b, w))

-----------------------------------------------------------------------------
(* Properties                                                              *)

\* A task belongs to an agent exactly when it was created, and an agent with
\* tasks has been busy from the first of them on (AddTask).
AtTypeOK ==
    /\ atAgents \in [WorkerIDs -> {"new", "idle", "busy", "terminated"}]
    /\ atOwner \in [TaskIDs -> WorkerIDs \cup {0}]
    /\ atState \in [TaskIDs -> {"none", "pending", "started", "cancelled"}]
    /\ atBeat \in [Heartbeats -> [pc : {"idle", "list", "mark"}, of : WorkerIDs \cup {0},
                                  left : SUBSET TaskIDs, answer : SUBSET TaskIDs]]
    /\ atHanded \in [TaskIDs -> Nat]
    /\ atReached \subseteq TaskIDs /\ atMissed \subseteq TaskIDs
    /\ atStream \in [TaskStreams -> [pc : {"unused", "first", "open", "ended"},
                                     task : TaskIDs \cup {0}]]
    /\ atStreams \subseteq TaskStreams
    /\ \A t \in TaskIDs :
         /\ atOwner[t] = 0 <=> atState[t] = "none"
         /\ atOwner[t] # 0 => atAgents[atOwner[t]] \in {"busy", "terminated"}

\* No task is handed to the worker twice, though heartbeats of the same agent
\* overlap (agent_service.go:702 marks each task under its mutex).
HandedOnce == \A t \in TaskIDs : atHanded[t] <= 1

\* A started task was named in an answer that is being built, has arrived or
\* was lost on the way: none is started without anybody being told.
StartedWasHanded ==
    \A t \in TaskIDs :
        atHanded[t] = 1 <=> \/ t \in atReached \cup atMissed
                            \/ \E b \in Heartbeats : t \in atBeat[b].answer

\* A canceled task stays canceled and no heartbeat hands it out any more.
CancelledStays ==
    [][\A t \in TaskIDs : atState[t] = "cancelled" =>
            atState'[t] = "cancelled" /\ atHanded'[t] = atHanded[t]]_atVars

\* AgentService.streams holds no stream whose handler has returned.
StreamsAreOpen == \A x \in atStreams : atStream[x].pc \in {"first", "open"}

\* A pending task is handed out or canceled, unless its agent unregisters.
PendingIsHanded ==
    \A t \in TaskIDs :
        atState[t] = "pending" ~>
            atState[t] # "pending" \/ atAgents[atOwner[t]] = "terminated"

\* Heartbeats of one agent overlap with cancellations and the end of agents: a task is
\* handed out once, started only if somebody was told, and stays canceled
\* (agent_service.go:702).
AgentTasksSafe ==
    /\ [](AtTypeOK /\ HandedOnce /\ StartedWasHanded /\ StreamsAreOpen)
    /\ CancelledStays
=============================================================================
