---------------------------- MODULE MCLifecycle ----------------------------
(***************************************************************************)
(* Instances for TLC of the parts that start, end and restart, and of what *)
(* must happen in the end: sessions, the gateway manager,                  *)
(* the orchestrator process, the container runtimes, the gRPC server, the  *)
(* event streams and the bus, tasks of agents, the executor and the agent  *)
(* of a worker.  They share no state: a behaviour picks one at the start   *)
(* and the others stay put.                                                *)
(***************************************************************************)
EXTENDS SessionManager, GatewayManager, OrchestratorLife, GrpcServer, EventStreams,
        EventBus, AgentTasks, WorkerExecutor, TLC

CONSTANTS Conns, AgentIDs, MaxAttempts, MaxBreaks

VARIABLES
    part,
    waUp, waBreaks, waKnown, waLost, waLink, waConn, waClosed, waID, waRegistered, waAttempts,
    waStopping, waMain, waMonitor, waHeart

\* The agent of a worker; its names clash with those of the orchestrator.
Wa == INSTANCE WorkerAgent WITH
    up <- waUp, breaks <- waBreaks, knownAgents <- waKnown, lostIDs <- waLost, link <- waLink,
    conn <- waConn, agentClosed <- waClosed, agentID <- waID, registered <- waRegistered,
    attempts <- waAttempts, stopping <- waStopping, main <- waMain, monitor <- waMonitor, heart <- waHeart

OneOwner == {1}
TwoOwners == {1, 2}
CleanExtents == {"whole", "nothing"}
Runtimes2 == {"docker", "apple"}
OneType == [e \in Events |-> "a"]
OneFilter == [s \in Subscribers |-> "a"]
OneTool == [c \in Calls |-> 1]

waAll == <<waUp, waBreaks, waKnown, waLost, waLink, waConn, waClosed, waID, waRegistered, waAttempts,
           waStopping, waMain, waMonitor, waHeart>>
allVars == <<vars, gwVars, lifeVars, rtVars, gvVars, esVars, busVars, atVars, exVars, waAll, part>>

LifecycleInit ==
    /\ Init /\ GwInit /\ LifeInit /\ RtInit /\ GvInit /\ EsInit
    /\ BusInit /\ AtInit /\ ExInit /\ Wa!WaInit
    /\ part \in {"session", "gateway", "orchestrator", "runtimes", "server", "events", "bus", "tasks", "executor", "worker"}
    /\ part # "server" => gvSocket = "none"
    /\ part # "worker" => waUp

LifecycleNext ==
    /\ UNCHANGED part
    /\ \/ part = "session" /\ Next
          /\ UNCHANGED <<gwVars, lifeVars, rtVars, gvVars, esVars, busVars, atVars, exVars, waAll>>
       \/ part = "gateway" /\ GwNext
          /\ UNCHANGED <<vars, lifeVars, rtVars, gvVars, esVars, busVars, atVars, exVars, waAll>>
       \/ part = "orchestrator" /\ LifeNext
          /\ UNCHANGED <<vars, gwVars, rtVars, gvVars, esVars, busVars, atVars, exVars, waAll>>
       \/ part = "runtimes" /\ RtNext
          /\ UNCHANGED <<vars, gwVars, lifeVars, gvVars, esVars, busVars, atVars, exVars, waAll>>
       \/ part = "server" /\ GvNext
          /\ UNCHANGED <<vars, gwVars, lifeVars, rtVars, esVars, busVars, atVars, exVars, waAll>>
       \/ part = "events" /\ EsNext
          /\ UNCHANGED <<vars, gwVars, lifeVars, rtVars, gvVars, busVars, atVars, exVars, waAll>>
       \/ part = "bus" /\ BusNext
          /\ UNCHANGED <<vars, gwVars, lifeVars, rtVars, gvVars, esVars, atVars, exVars, waAll>>
       \/ part = "tasks" /\ AtNext
          /\ UNCHANGED <<vars, gwVars, lifeVars, rtVars, gvVars, esVars, busVars, exVars, waAll>>
       \/ part = "executor" /\ ExNext
          /\ UNCHANGED <<vars, gwVars, lifeVars, rtVars, gvVars, esVars, busVars, atVars, waAll>>
       \/ part = "worker" /\ Wa!WaNext
          /\ UNCHANGED <<vars, gwVars, lifeVars, rtVars, gvVars, esVars, busVars, atVars, exVars>>

\* Only the part that runs is fair: the fairness of one that stays put would
\* exclude every behaviour of the others.  (part never changes; as a temporal
\* formula it keeps the formulas of TLC small.)
LifecycleFairness ==
    \/ []<>(part = "session") /\ Fairness
    \/ []<>(part = "gateway") /\ GwFairness
    \/ []<>(part = "orchestrator") /\ LifeFairness
    \/ []<>(part = "server") /\ GvFairness
    \/ []<>(part = "events") /\ EsFairness
    \/ []<>(part = "bus") /\ BusFairness
    \/ []<>(part = "tasks") /\ AtFairness
    \/ []<>(part = "executor") /\ ExFairness
    \/ []<>(part = "worker") /\ Wa!WaFairness
    \/ []<>(part \in {"runtimes"})

LifecycleSpec == LifecycleInit /\ [][LifecycleNext]_allVars /\ LifecycleFairness

\* The session manager alone.
SessionSpec == (LifecycleInit /\ part = "session") /\ [][LifecycleNext]_allVars /\ Fairness

\* The agent of a worker closes once asked to, whatever its monitors do
\* (worker/agent.go:416).
AgentCloses == Wa!CloseReturns
\* Without a limit on attempts it gets connected again while the orchestrator
\* stays up (worker/agent.go:303).
AgentReconnects == Wa!Reconnects

\* Of the services: a shutdown, a stop of the server, a leaving stream and the close of
\* the bus come to their end, accepted events arrive, and a gateway that died is
\* restarted or stopped.
ServicesEnd ==
    /\ GatewayRecovers
    /\ ShutdownEnds
    /\ LeaversEnd
    /\ StopReturns
    /\ BusCloseReturns
    /\ AcceptedReachesHandlers

\* Of the work of agents: a pending task is handed out, the call of a tool returns, and
\* the agent of a worker gets connected again, or closes once asked to.
WorkEnds ==
    /\ PendingIsHanded
    /\ CallsReturn
    /\ AgentCloses
    /\ AgentReconnects
=============================================================================
