-------------------------- MODULE AssistantLifecycle --------------------------
(***************************************************************************)
(* The start and the end of the assistant process: bootstrap.ts, index.ts, *)
(* the registration with its heartbeats (orchestrator/registration.ts and  *)
(* grpc-client.ts) and the lifecycle manager (lifecycle.ts).               *)
(*                                                                         *)
(* An action runs from one await to the next.  The agent itself is its     *)
(* state here: AssistantAgent has the rest.  Channels are counted from the *)
(* moment they are ready.                                                  *)
(***************************************************************************)
EXTENDS Naturals, FiniteSets

CONSTANTS
    MaxMissed,      \* HeartbeatConfig.maxMissed
    MaxBeats,       \* heartbeats sent (bound)
    MaxIssued,      \* registrations (bound)
    MaxAttempts     \* shutdowns of the lifecycle manager (bound)

ASSUME AlAssumption == {MaxMissed, MaxBeats, MaxIssued, MaxAttempts} \subseteq Nat

VARIABLES
    alAuto,         \* HeartbeatConfig.autoRestart
    alGlobal,       \* bootstrap was called by initGlobal, not bootstrapWithDefaults
    alBoot,         \* pc of bootstrap
    alProcess,      \* "runs", what closeGlobal does on a signal, or "gone"
    alHurried,      \* a signal found the agent ending, and did not wait for it
    alSessions,     \* the session manager: "none", "open" or "closed"
    alAgent,        \* the agent: "none", "made", "running", "ending" or "shut"
    alBusy,         \* the agent processes messages
    alRecord,       \* AgentRegistry.registeredAgent is set
    alAgentState,   \* its state: "idle" or "terminated"
    alId,           \* its agentId
    alTimer,        \* its heartbeatInterval is set
    alMissed,       \* its missedHeartbeats
    alBeats,        \* heartbeats sent, and in flight
    alReconnects,   \* calls of attemptReconnect that wait, by what they wait for
    alClient,       \* OrchestratorClient: client is set, connected
    alOpen,         \* channels that became ready and are not closed
    alIssued,       \* registrations the orchestrator made
    alUnregs,       \* calls of unregister that wait: 0 of the exit, else of an attempt
    lmState,        \* LifecycleManager.state
    lmStep,         \* performShutdown: "no" or what it does
    lmForce,        \* its argument
    lmAttempts,     \* LifecycleManager.shutdownAttempts
    lmLate          \* a deadline passed before the last step

alAgentVars == <<alAgent, alBusy>>
recordVars == <<alRecord, alAgentState, alId, alTimer, alMissed>>
linkVars == <<alBeats, alReconnects, alClient, alOpen, alIssued, alUnregs>>
lmVars == <<lmState, lmStep, lmForce, lmAttempts, lmLate>>
bootVars == <<alAuto, alGlobal, alBoot, alProcess, alHurried, alSessions>>
alVars == <<bootVars, alAgentVars, recordVars, linkVars, lmVars>>

Alive == alProcess # "gone"
Disconnected == [set |-> FALSE, connected |-> FALSE]

AlInit ==
    /\ alAuto \in BOOLEAN /\ alGlobal \in BOOLEAN
    /\ alBoot = "start" /\ alProcess = "runs" /\ alHurried = FALSE /\ alSessions = "none"
    /\ alAgent = "none" /\ alBusy = FALSE
    /\ alRecord = FALSE /\ alAgentState = "idle" /\ alId = 0 /\ alTimer = FALSE /\ alMissed = 0
    /\ alBeats = [sent |-> 0, flight |-> 0]
    /\ alReconnects = [connect |-> 0, register |-> 0]
    /\ alClient = Disconnected /\ alOpen = 0 /\ alIssued = 0 /\ alUnregs = {}
    /\ lmState = "uninitialized" /\ lmStep = "no" /\ lmForce = FALSE
    /\ lmAttempts = 0 /\ lmLate = FALSE

-----------------------------------------------------------------------------
(* bootstrap.                                                              *)

BootGoes(from, to) == Alive /\ alBoot = from /\ alBoot' = to

\* disconnect closes the channel only once it is connected.
Disconnect ==
    /\ alClient' = IF alClient.connected THEN Disconnected ELSE alClient
    /\ alOpen' = IF alClient.connected THEN alOpen - 1 ELSE alOpen

BootConnect(ready) ==
    /\ BootGoes("start", IF ready THEN "register" ELSE "cleanup")
    /\ alSessions' = "open"
    /\ IF ready THEN alClient' = [set |-> TRUE, connected |-> TRUE] /\ alOpen' = alOpen + 1
       ELSE UNCHANGED <<alClient, alOpen>>
    /\ UNCHANGED <<alAuto, alGlobal, alProcess, alHurried, alAgentVars, recordVars, alBeats, alReconnects, alIssued,
                   alUnregs, lmVars>>

\* The answer of the orchestrator; without one the client is disconnected.
BootRegister(answered) ==
    /\ BootGoes("register", IF answered THEN "agent" ELSE "cleanup")
    /\ IF answered
       THEN /\ alIssued < MaxIssued /\ alIssued' = alIssued + 1
            /\ alRecord' = TRUE /\ alId' = alIssued + 1 /\ alAgent' = "made"
            /\ UNCHANGED <<alClient, alOpen>>
       ELSE /\ Disconnect
            /\ UNCHANGED <<alIssued, alRecord, alId, alAgent>>
    /\ UNCHANGED <<alAuto, alGlobal, alProcess, alHurried, alSessions, alBusy, alAgentState, alTimer, alMissed,
                   alBeats, alReconnects, alUnregs, lmVars>>

\* Agent.register; then the heartbeats start and so does the loop of the agent.
BootAgent(connects) ==
    /\ BootGoes("agent", IF connects THEN "ready" ELSE "cleanup")
    /\ alAgent' = IF connects THEN "running" ELSE "shut"
    /\ alTimer' = connects
    /\ alMissed' = 0
    /\ UNCHANGED <<alAuto, alGlobal, alProcess, alHurried, alSessions, alBusy, alRecord, alAgentState, alId,
                   linkVars, lmVars>>

\* Mutant of BootCleanup: forgets the registration.
BootCleanupPartly ==
    /\ BootGoes("cleanup", "failed")
    /\ alSessions' = "closed"
    /\ UNCHANGED <<alAuto, alGlobal, alProcess, alHurried, alAgentVars, recordVars, linkVars, lmVars>>

\* The error path: agent, registry and sessions are taken down, and the process
\* exits; whether the orchestrator hears of it does not matter.
BootCleanup ==
    /\ BootGoes("cleanup", "failed")
    /\ alSessions' = "closed"
    /\ IF alRecord THEN Disconnect ELSE UNCHANGED <<alClient, alOpen>>
    /\ alRecord' = FALSE /\ alTimer' = FALSE
    /\ UNCHANGED <<alAuto, alGlobal, alProcess, alHurried, alAgentVars, alAgentState, alId, alMissed,
                   alBeats, alReconnects, alIssued, alUnregs, lmVars>>

\* Messages come and go.
AgentWorks ==
    /\ Alive /\ alAgent \in {"running", "ending"}
    /\ alAgent = "running" \/ alBusy
    /\ alBusy' = ~alBusy
    /\ UNCHANGED <<bootVars, alAgent, recordVars, linkVars, lmVars>>

-----------------------------------------------------------------------------
(* Heartbeats.                                                             *)

\* The interval may outlive the registration: then a heartbeat does nothing.
SendHeartbeat ==
    /\ Alive /\ alTimer /\ alRecord /\ alBeats.sent < MaxBeats
    /\ alBeats' = [sent |-> alBeats.sent + 1, flight |-> alBeats.flight + 1]
    /\ UNCHANGED <<bootVars, alAgentVars, recordVars, alReconnects, alClient, alOpen, alIssued, alUnregs, lmVars>>

HeartbeatAnswered ==
    /\ Alive /\ alBeats.flight > 0 /\ alClient.connected
    /\ alBeats' = [alBeats EXCEPT !.flight = @ - 1]
    /\ alMissed' = IF alRecord THEN 0 ELSE alMissed
    /\ UNCHANGED <<bootVars, alAgentVars, alRecord, alAgentState, alId, alTimer, alReconnects, alClient, alOpen,
                   alIssued, alUnregs, lmVars>>

\* attemptReconnect up to its first await: it drops the channel, if there is one
\* that is connected, and makes another.
Reconnect ==
    /\ alReconnects' = [alReconnects EXCEPT !.connect = @ + 1]
    /\ alOpen' = IF alClient.connected THEN alOpen - 1 ELSE alOpen
    /\ alClient' = [set |-> TRUE, connected |-> FALSE]

\* Every heartbeat that fails at the limit ends the registration or starts a
\* reconnection, also those that were in flight when the timer was stopped.
HeartbeatFails ==
    /\ Alive /\ alBeats.flight > 0
    /\ alBeats' = [alBeats EXCEPT !.flight = @ - 1]
    /\ alMissed' = IF alRecord THEN alMissed + 1 ELSE alMissed
    /\ IF alRecord /\ alMissed + 1 >= MaxMissed
       THEN /\ alTimer' = FALSE
            /\ IF alAuto THEN Reconnect /\ UNCHANGED alAgentState
               ELSE alAgentState' = "terminated" /\ UNCHANGED <<alReconnects, alClient, alOpen>>
       ELSE UNCHANGED <<alTimer, alAgentState, alReconnects, alClient, alOpen>>
    /\ UNCHANGED <<bootVars, alAgentVars, alRecord, alId, alIssued, alUnregs, lmVars>>

\* A failed channel resets the client, whichever channel it holds by now.
ReconnectFails ==
    /\ Alive /\ alReconnects.connect > 0
    /\ alReconnects' = [alReconnects EXCEPT !.connect = @ - 1]
    /\ alClient' = Disconnected
    /\ alAgentState' = "terminated"
    /\ UNCHANGED <<bootVars, alAgentVars, alRecord, alId, alTimer, alMissed, alBeats, alOpen, alIssued, alUnregs, lmVars>>

\* Ready: it registers again, unless the client was reset by another call.
ReconnectReady ==
    /\ Alive /\ alReconnects.connect > 0
    /\ alClient' = [alClient EXCEPT !.connected = TRUE]
    /\ alOpen' = alOpen + 1
    /\ alReconnects' = [connect |-> alReconnects.connect - 1,
                        register |-> alReconnects.register + (IF alClient.set THEN 1 ELSE 0)]
    /\ alAgentState' = IF alClient.set THEN alAgentState ELSE "terminated"
    /\ UNCHANGED <<bootVars, alAgentVars, alRecord, alId, alTimer, alMissed, alBeats, alIssued, alUnregs, lmVars>>

\* The new registration, and the heartbeats start; when they run already, or the
\* agent was unregistered meanwhile, starting them is an error.
ReconnectRegistered ==
    /\ Alive /\ alReconnects.register > 0 /\ alClient.set /\ alIssued < MaxIssued
    /\ alReconnects' = [alReconnects EXCEPT !.register = @ - 1]
    /\ alIssued' = alIssued + 1
    /\ alId' = alIssued + 1
    /\ alMissed' = 0
    /\ alTimer' = (alTimer \/ alRecord)
    /\ alAgentState' = IF alRecord /\ ~alTimer THEN "idle" ELSE "terminated"
    /\ UNCHANGED <<bootVars, alAgentVars, alRecord, alBeats, alClient, alOpen, alUnregs, lmVars>>

ReconnectRefused ==
    /\ Alive /\ alReconnects.register > 0
    /\ alReconnects' = [alReconnects EXCEPT !.register = @ - 1]
    /\ alAgentState' = "terminated"
    /\ UNCHANGED <<bootVars, alAgentVars, alRecord, alId, alTimer, alMissed, alBeats, alClient, alOpen, alIssued,
                   alUnregs, lmVars>>

-----------------------------------------------------------------------------
(* Unregistering.                                                          *)

\* unregister up to its await: the timer stops and the request is sent; a client that
\* is not connected refuses it at once.  The agent stays registered meanwhile.
BeginUnregister(u) ==
    /\ alTimer' = FALSE
    /\ alUnregs' = IF alClient.connected THEN alUnregs \cup {u} ELSE alUnregs \ {u}
    /\ alRecord' = (alRecord /\ alClient.connected)

\* With or without an answer the client is disconnected and the record dropped, and a
\* timer that a reconnection started in between with it.
UnregisterEnds(u) ==
    /\ Alive /\ u \in alUnregs
    /\ alUnregs' = alUnregs \ {u}
    /\ Disconnect
    /\ alRecord' = FALSE
    /\ UNCHANGED <<bootVars, alAgentVars, alAgentState, alId, alTimer, alMissed, alBeats, alReconnects, alIssued, lmVars>>

-----------------------------------------------------------------------------
(* Signals.                                                                *)

\* closeGlobal has something to close only when initGlobal made it; index.ts uses
\* bootstrapWithDefaults, and exits at once.  Every signal calls it again, and shutdown
\* of an agent that is ending or shut returns at once.
Signal ==
    /\ Alive
    /\ IF alGlobal /\ alBoot = "ready"
       THEN /\ alProcess' = IF alAgent = "running" THEN "closing" ELSE "leaving"
            /\ alAgent' = IF alAgent = "running" THEN "ending" ELSE alAgent
            /\ alHurried' = (alHurried \/ alAgent = "ending")
       ELSE alProcess' = "gone" /\ UNCHANGED <<alAgent, alHurried>>
    /\ UNCHANGED <<alAuto, alGlobal, alBoot, alSessions, alBusy, recordVars, linkVars, lmVars>>

\* The agent waits for its messages.
AgentShut ==
    /\ Alive /\ alAgent = "ending" /\ ~alBusy
    /\ alAgent' = "shut"
    /\ UNCHANGED <<bootVars, alBusy, recordVars, linkVars, lmVars>>

\* Its agent is down: closeGlobal unregisters it.
ExitUnregisters ==
    /\ alProcess = "leaving" \/ (alProcess = "closing" /\ alAgent = "shut")
    /\ alProcess' = "unregistering"
    /\ IF alRecord THEN BeginUnregister(0) ELSE UNCHANGED <<alRecord, alTimer, alUnregs>>
    /\ UNCHANGED <<alAuto, alGlobal, alBoot, alHurried, alSessions, alAgentVars, alAgentState, alId, alMissed,
                   alBeats, alReconnects, alClient, alOpen, alIssued, lmVars>>

ExitClosed ==
    /\ alProcess = "unregistering" /\ 0 \notin alUnregs
    /\ alProcess' = "gone" /\ alSessions' = "closed"
    /\ UNCHANGED <<alAuto, alGlobal, alBoot, alHurried, alAgentVars, recordVars, linkVars, lmVars>>

-----------------------------------------------------------------------------
(* The lifecycle manager.                                                  *)

StartLifecycle ==
    /\ Alive /\ alBoot = "ready"
    /\ lmState \in {"uninitialized", "starting"}
    /\ lmState' = IF lmState = "starting" THEN "running" ELSE "starting"
    /\ UNCHANGED <<bootVars, alAgentVars, recordVars, linkVars, lmStep, lmForce, lmAttempts, lmLate>>

\* The state of a running agent is idle; there is no way back from an error.
CheckLifecycle ==
    /\ Alive /\ lmState = "running"
    /\ alAgent # "running" \/ ~alRecord
    /\ lmState' = "error"
    /\ UNCHANGED <<bootVars, alAgentVars, recordVars, linkVars, lmStep, lmForce, lmAttempts, lmLate>>

\* A second call while one is under way waits for it; a later one starts over.
\* The graceful one first looks, once, how many messages are processed.
BeginLifecycleEnd(force) ==
    /\ Alive /\ lmState # "uninitialized" /\ lmStep = "no" /\ lmAttempts < MaxAttempts
    /\ lmState' = "shutting_down"
    /\ lmForce' = force
    /\ lmAttempts' = lmAttempts + 1
    /\ lmLate' = FALSE
    /\ lmStep' = IF ~force /\ alBusy /\ alAgent = "running" THEN "busy" ELSE "agent"
    /\ UNCHANGED <<bootVars, alAgentVars, recordVars, linkVars>>

LifecycleGoes(from, to) ==
    /\ Alive /\ lmStep = from /\ lmStep' = to
    /\ lmState' = IF to = "no" THEN "terminated" ELSE lmState
    /\ UNCHANGED <<lmForce, lmAttempts, alAuto, alGlobal, alBoot, alProcess, alHurried, alBusy, alAgentState, alId,
                   alMissed, alBeats, alReconnects, alClient, alOpen, alIssued>>

\* The status it looked at does not change: it waits until the deadline, and then
\* there is no time for any of the steps.
WaitedTooLong ==
    /\ LifecycleGoes("busy", "no")
    /\ lmLate' = TRUE
    /\ UNCHANGED <<alSessions, alAgent, alRecord, alTimer, alUnregs>>

\* An agent that is ending or shut returns from a second shutdown at once.
EndAgent ==
    /\ LifecycleGoes("agent", IF alAgent = "running" THEN "wait" ELSE "registry")
    /\ alAgent' = IF alAgent = "running" THEN "ending" ELSE alAgent
    /\ UNCHANGED <<lmLate, alSessions, alRecord, alTimer, alUnregs>>

AgentEnded ==
    /\ LifecycleGoes("wait", "registry") /\ alAgent = "shut"
    /\ UNCHANGED <<lmLate, alSessions, alAgent, alRecord, alTimer, alUnregs>>

\* The graceful one goes on without the agent, and without time for more.
StepTimesOut ==
    /\ ~lmForce /\ LifecycleGoes("wait", "no")
    /\ lmLate' = TRUE
    /\ UNCHANGED <<alSessions, alAgent, alRecord, alTimer, alUnregs>>

EndRegistration ==
    /\ LifecycleGoes("registry", "unregister")
    /\ IF alRecord THEN BeginUnregister(lmAttempts) ELSE UNCHANGED <<alRecord, alTimer, alUnregs>>
    /\ UNCHANGED <<lmLate, alSessions, alAgent>>

RegistrationEnded ==
    /\ LifecycleGoes("unregister", "sessions") /\ lmAttempts \notin alUnregs
    /\ UNCHANGED <<lmLate, alSessions, alAgent, alRecord, alTimer, alUnregs>>

\* The graceful one goes on without the answer, which may still arrive.
RegistrationTimesOut ==
    /\ ~lmForce /\ LifecycleGoes("unregister", "no")
    /\ lmLate' = TRUE
    /\ UNCHANGED <<alSessions, alAgent, alRecord, alTimer, alUnregs>>

EndSessions ==
    /\ LifecycleGoes("sessions", "no")
    /\ alSessions' = "closed"
    /\ UNCHANGED <<lmLate, alAgent, alRecord, alTimer, alUnregs>>

AlNext ==
    \/ \E ok \in BOOLEAN : BootConnect(ok) \/ BootRegister(ok) \/ BootAgent(ok) \/ BeginLifecycleEnd(ok)
    \/ BootCleanup \/ AgentWorks
    \/ SendHeartbeat \/ HeartbeatAnswered \/ HeartbeatFails
    \/ ReconnectFails \/ ReconnectReady \/ ReconnectRegistered \/ ReconnectRefused
    \/ \E u \in 0..MaxAttempts : UnregisterEnds(u)
    \/ Signal \/ AgentShut \/ ExitUnregisters \/ ExitClosed
    \/ StartLifecycle \/ CheckLifecycle \/ WaitedTooLong
    \/ EndAgent \/ AgentEnded \/ StepTimesOut \/ EndRegistration \/ RegistrationEnded \/ RegistrationTimesOut \/ EndSessions

AlSpec == AlInit /\ [][AlNext]_alVars

-----------------------------------------------------------------------------
(* Properties                                                              *)

AlTypeOK ==
    /\ alBoot \in {"start", "register", "agent", "ready", "cleanup", "failed"}
    /\ alProcess \in {"runs", "closing", "leaving", "unregistering", "gone"} /\ alHurried \in BOOLEAN
    /\ alSessions \in {"none", "open", "closed"}
    /\ alAgent \in {"none", "made", "running", "ending", "shut"} /\ alBusy \in BOOLEAN
    /\ alRecord \in BOOLEAN /\ alAgentState \in {"idle", "terminated"}
    /\ alId \in 0..alIssued /\ alIssued \in 0..MaxIssued
    /\ alMissed \in 0..MaxBeats
    /\ alBeats.sent \in 0..MaxBeats /\ alBeats.flight \in 0..alBeats.sent
    /\ alReconnects.connect \in 0..MaxBeats /\ alReconnects.register \in 0..MaxBeats
    /\ alClient.set \in BOOLEAN /\ alClient.connected \in BOOLEAN /\ alOpen \in Nat
    /\ lmState \in {"uninitialized", "starting", "running", "shutting_down", "terminated", "error"}
    /\ lmStep \in {"no", "busy", "agent", "wait", "registry", "unregister", "sessions"} /\ lmForce \in BOOLEAN
    /\ lmAttempts \in 0..MaxAttempts /\ lmLate \in BOOLEAN
    /\ alTimer \in BOOLEAN /\ alUnregs \subseteq 0..MaxAttempts

\* When bootstrap fails at any step, what the steps before it made is gone
\* (bootstrap.ts:432).
FailedBootLeavesNothing ==
    alBoot = "failed" =>
        /\ ~alRecord /\ ~alTimer /\ alOpen = 0 /\ alSessions = "closed" /\ alAgent \in {"none", "shut"}

\* Without autoRestart an agent that gave itself up, or is unregistered, has no
\* heartbeat timer, and the answers of those in flight do not bring it back
\* (registration.ts:327).  With it a reconnection that ends while unregister waits
\* starts the timer again, which nobody stops then (registration.ts:208-219).
DeadIsSilent == ~alAuto /\ (alAgentState = "terminated" \/ (alBoot = "ready" /\ ~alRecord)) => ~alTimer

\* What a terminated lifecycle means: the parts are down, unless messages were
\* under way when a graceful shutdown began, or it ran out of time
\* (lifecycle.ts:571).
TerminatedIsDown ==
    lmState = "terminated" /\ ~lmLate =>
        alAgent \in {"ending", "shut"} /\ ~alRecord /\ alSessions = "closed"

\* A process that leaves through closeGlobal leaves nothing under way; one that was
\* told to while its agent was ending does not wait for the messages (bootstrap.ts:669,
\* agent.ts:433), but it is unregistered and has closed its sessions as well.
ClosedExitIsClean ==
    alProcess = "gone" /\ alGlobal /\ alBoot = "ready" =>
        /\ ~alRecord /\ alSessions = "closed"
        /\ alAgent = "ending" => alHurried
        /\ alAgent # "ending" => alAgent = "shut" /\ ~alBusy

\* However the process of the assistant fails to start, gives up, restarts its agent
\* or ends, what it made is gone: see the parts (bootstrap.ts, registration.ts,
\* lifecycle.ts).
AssistantLeavesCleanly ==
    /\ AlTypeOK
    /\ FailedBootLeavesNothing
    /\ DeadIsSilent
    /\ TerminatedIsDown
    /\ ClosedExitIsClean
=============================================================================
