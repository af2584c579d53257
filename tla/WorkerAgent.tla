---------------------------- MODULE WorkerAgent ----------------------------
(***************************************************************************)
(* The connection and the registration of a worker: Agent of               *)
(* pkg/worker/agent.go, its Bootstrap and the worker command.  grpc.Client *)
(* and tui.OrchestratorClient dial, reconnect and close the same way       *)
(* without the registration.                                               *)
(*                                                                         *)
(* The processes are the main goroutine (Bootstrap, then a signal, then    *)
(* Close), the reconnection monitor and the heartbeat monitor; the         *)
(* orchestrator and its network are the environment.  A dialed connection  *)
(* is named by a number.  Agent.mu is held for single steps only: it is    *)
(* never held while dialing, waiting or calling.                           *)
(***************************************************************************)
EXTENDS Naturals, FiniteSets

CONSTANTS
    Conns,          \* the connections that may be dialed: 1..n
    AgentIDs,       \* the IDs the orchestrator may generate: 1..n
    MaxAttempts,    \* AgentConfig.ReconnectMaxAttempts, 0 for no limit
    MaxBreaks       \* how often a connection breaks (bound)

\* 0 stands for no connection and no ID.
ASSUME WaAssumption ==
    /\ Conns \subseteq Nat \ {0} /\ AgentIDs \subseteq Nat \ {0}
    /\ MaxAttempts \in Nat /\ MaxBreaks \in Nat

VARIABLES
    up,             \* the orchestrator listens
    breaks,         \* broken connections so far
    knownAgents,    \* the IDs in the orchestrator's AgentRegistry
    lostIDs,        \* IDs whose Register or Unregister call failed half way
    link,           \* the state of each connection
    conn,           \* Agent.conn, 0 for nil
    agentClosed,    \* Agent.closed
    agentID,        \* Agent.agentID, 0 for none
    registered,     \* Agent.registered
    attempts,       \* Agent.reconnectAttempts
    stopping,       \* reconnectCtx canceled or reconnectCloseCh closed
    main,           \* the main goroutine
    monitor,        \* the reconnection monitor, with the connection it looks at
    heart           \* the heartbeat monitor

waVars == <<up, breaks, knownAgents, lostIDs, link, conn, agentClosed, agentID,
            registered, attempts, stopping, main, monitor, heart>>

worldVars == <<up, breaks, knownAgents, lostIDs>>
idVars == <<agentID, registered>>

WaInit ==
    /\ up \in BOOLEAN
    /\ breaks = 0 /\ knownAgents = {} /\ lostIDs = {}
    /\ link = [c \in Conns |-> "unused"]
    /\ conn = 0 /\ agentClosed = FALSE
    /\ agentID = 0 /\ registered = FALSE
    /\ attempts = 0 /\ stopping = FALSE
    /\ main = "dial"
    /\ monitor = [pc |-> "off", at |-> 0]
    /\ heart = "off"

Reachable == conn # 0 /\ link[conn] = "ready"
FreshConns == {c \in Conns : link[c] = "unused"}

\* grpc.DialContext blocks until the connection is ready or the timeout is over.
\* The connection gets the next number.
Dials(c) == up /\ c \in FreshConns /\ \A d \in FreshConns : c <= d

\* grpc.ClientConn.Close.
Shut(c) == [link EXCEPT ![c] = "shut"]

-----------------------------------------------------------------------------
(* The environment.                                                        *)

BreakLinks(C) == [c \in Conns |-> IF c \in C /\ link[c] = "ready" THEN "failed" ELSE link[c]]

\* The orchestrator stops and forgets its agents.
OrchestratorStops ==
    /\ up /\ breaks < MaxBreaks
    /\ up' = FALSE
    /\ breaks' = breaks + 1
    /\ knownAgents' = {}
    /\ link' = BreakLinks(Conns)
    /\ UNCHANGED <<lostIDs, conn, agentClosed, idVars, attempts, stopping, main, monitor, heart>>

OrchestratorStarts ==
    /\ ~up
    /\ up' = TRUE
    /\ UNCHANGED <<breaks, knownAgents, lostIDs, link, conn, agentClosed, idVars,
                   attempts, stopping, main, monitor, heart>>

\* The transport fails.
LinkBreaks(c) ==
    /\ breaks < MaxBreaks
    /\ link[c] = "ready"
    /\ breaks' = breaks + 1
    /\ link' = BreakLinks({c})
    /\ UNCHANGED <<up, knownAgents, lostIDs, conn, agentClosed, idVars, attempts,
                   stopping, main, monitor, heart>>

\* The ClientConn reconnects on its own.
LinkRecovers(c) ==
    /\ up /\ link[c] = "failed"
    /\ link' = [link EXCEPT ![c] = "ready"]
    /\ UNCHANGED <<worldVars, conn, agentClosed, idVars, attempts, stopping, main,
                   monitor, heart>>

-----------------------------------------------------------------------------
(* Bootstrap.  Each failure closes the agent.                              *)

MainGoes(from, to) == main = from /\ main' = to

\* Dial: outside the lock, then the connection is entered under it.
DialConnects(c) ==
    /\ MainGoes("dial", "dialed")
    /\ Dials(c)
    /\ link' = [link EXCEPT ![c] = "ready"]
    /\ conn' = c
    /\ UNCHANGED <<worldVars, agentClosed, idVars, attempts, stopping, monitor, heart>>

DialFails ==
    /\ MainGoes("dial", "close")
    /\ UNCHANGED <<worldVars, link, conn, agentClosed, idVars, attempts, stopping, monitor, heart>>

StartMonitor ==
    /\ MainGoes("dialed", "register")
    /\ monitor' = [pc |-> "check", at |-> 0]
    /\ UNCHANGED <<worldVars, link, conn, agentClosed, idVars, attempts, stopping, heart>>

\* Register is answered with a new ID, and the heartbeat monitor starts.
RegisterSucceeds(i) ==
    /\ MainGoes("register", "health")
    /\ up /\ Reachable
    /\ \A j \in knownAgents \cup lostIDs : j < i
    /\ knownAgents' = knownAgents \cup {i}
    /\ agentID' = i /\ registered' = TRUE
    /\ heart' = "beat"
    /\ UNCHANGED <<up, breaks, lostIDs, link, conn, agentClosed, attempts, stopping, monitor>>

\* The call fails, or its answer is lost after the orchestrator registered it.
RegisterFails ==
    /\ MainGoes("register", "close")
    /\ \/ UNCHANGED <<knownAgents, lostIDs>>
       \/ /\ up /\ Reachable
          /\ \E i \in AgentIDs \ (knownAgents \cup lostIDs) :
               knownAgents' = knownAgents \cup {i} /\ lostIDs' = lostIDs \cup {i}
    /\ UNCHANGED <<up, breaks, link, conn, agentClosed, idVars, attempts, stopping, monitor, heart>>

\* The health check needs a ready connection and the registration.
CheckHealth ==
    /\ MainGoes("health", IF Reachable /\ registered THEN "run" ELSE "close")
    /\ UNCHANGED <<worldVars, link, conn, agentClosed, idVars, attempts, stopping, monitor, heart>>

\* SIGINT or SIGTERM.
TakeShutdownSignal ==
    /\ MainGoes("run", "close")
    /\ UNCHANGED <<worldVars, link, conn, agentClosed, idVars, attempts, stopping, monitor, heart>>

-----------------------------------------------------------------------------
(* Close.                                                                  *)

\* closed is set and the contexts of both monitors are canceled.
BeginClose ==
    /\ MainGoes("close", IF registered /\ conn # 0 THEN "unregister" ELSE "stop")
    /\ agentClosed' = TRUE
    /\ stopping' = (monitor.pc # "off" \/ heart # "off")
    /\ UNCHANGED <<worldVars, link, conn, idVars, attempts, monitor, heart>>

UnregisterAnswered ==
    /\ MainGoes("unregister", "stop")
    /\ up /\ Reachable /\ agentID \in knownAgents
    /\ knownAgents' = knownAgents \ {agentID}
    /\ registered' = FALSE /\ agentID' = 0
    /\ UNCHANGED <<up, breaks, lostIDs, link, conn, agentClosed, attempts, stopping, monitor, heart>>

\* The call fails (no connection, an ID of an earlier orchestrator, a timeout),
\* perhaps after the orchestrator did its part.  Close goes on.
UnregisterFails ==
    /\ MainGoes("unregister", "stop")
    /\ knownAgents' \in {knownAgents, IF up /\ Reachable THEN knownAgents \ {agentID}
                                      ELSE knownAgents}
    /\ lostIDs' = lostIDs \cup {agentID}
    /\ UNCHANGED <<up, breaks, link, conn, agentClosed, idVars, attempts, stopping, monitor, heart>>

\* Both channels are closed.
CloseChannels ==
    /\ MainGoes("stop", "wait")
    /\ stopping' = TRUE
    /\ UNCHANGED <<worldVars, link, conn, agentClosed, idVars, attempts, monitor, heart>>

AwaitMonitors ==
    /\ MainGoes("wait", "disconnect")
    /\ monitor.pc \in {"off", "ended"} /\ heart \in {"off", "ended"}
    /\ UNCHANGED <<worldVars, link, conn, agentClosed, idVars, attempts, stopping, monitor, heart>>

CloseConn ==
    /\ MainGoes("disconnect", "closed")
    /\ link' = IF conn = 0 THEN link ELSE Shut(conn)
    /\ conn' = 0
    /\ UNCHANGED <<worldVars, agentClosed, idVars, attempts, stopping, monitor, heart>>

-----------------------------------------------------------------------------
(* The reconnection monitor.                                               *)

MonitorGoes(from, pc, c) == monitor.pc = from /\ monitor' = [pc |-> pc, at |-> c]

\* Between two looks: stop, or take the connection, if there is one.
CheckStop ==
    /\ \/ stopping /\ MonitorGoes("check", "ended", 0)
       \/ ~stopping /\ ~agentClosed /\ conn # 0 /\ MonitorGoes("check", "look", conn)
    /\ UNCHANGED <<worldVars, link, conn, agentClosed, idVars, attempts, stopping, main, heart>>

\* After a change of its state, or the interval.
LookAtState ==
    /\ MonitorGoes("look", IF link[monitor.at] \in {"failed", "shut"} THEN "allowed" ELSE "check", 0)
    /\ UNCHANGED <<worldVars, link, conn, agentClosed, idVars, attempts, stopping, main, heart>>

\* Attempts are counted over the life of the agent when they are limited; after
\* the last the monitor ends.
ShouldReconnect ==
    /\ IF MaxAttempts = 0 THEN MonitorGoes("allowed", "shut", 0) /\ UNCHANGED attempts
       ELSE IF attempts < MaxAttempts
       THEN MonitorGoes("allowed", "shut", 0) /\ attempts' = attempts + 1
       ELSE MonitorGoes("allowed", "ended", 0) /\ UNCHANGED attempts
    /\ UNCHANGED <<worldVars, link, conn, agentClosed, idVars, stopping, main, heart>>

\* reconnect closes the old connection, which may have recovered by now.
ShutOld ==
    /\ MonitorGoes("shut", "redial", 0)
    /\ link' = IF conn = 0 THEN link ELSE Shut(conn)
    /\ UNCHANGED <<worldVars, conn, agentClosed, idVars, attempts, stopping, main, heart>>

\* It dials with the context of the first Dial, which Close does not cancel.
Redial(c) ==
    /\ MonitorGoes("redial", "install", c)
    /\ Dials(c)
    /\ link' = [link EXCEPT ![c] = "ready"]
    /\ UNCHANGED <<worldVars, conn, agentClosed, idVars, attempts, stopping, main, heart>>

\* The closed connection stays in its field and is found again.
RedialFails ==
    /\ ~up
    /\ MonitorGoes("redial", "check", 0)
    /\ UNCHANGED <<worldVars, link, conn, agentClosed, idVars, attempts, stopping, main, heart>>

\* The new connection is entered under the lock; the registration stays as it is.
InstallConn ==
    /\ MonitorGoes("install", "check", 0)
    /\ conn' = monitor.at
    /\ UNCHANGED <<worldVars, link, agentClosed, idVars, attempts, stopping, main, heart>>

-----------------------------------------------------------------------------
(* The heartbeat monitor: at once and on every tick.                       *)

\* sendHeartbeat changes nothing here: an agent the orchestrator does not know
\* any more gets an error, which is logged, and goes on.
SendHeartbeat ==
    /\ heart = "beat"
    /\ heart' = "tick"
    /\ UNCHANGED <<worldVars, link, conn, agentClosed, idVars, attempts, stopping, main, monitor>>

Tick ==
    /\ heart = "tick"
    /\ \/ stopping /\ heart' = "ended"
       \/ heart' = "beat"
    /\ UNCHANGED <<worldVars, link, conn, agentClosed, idVars, attempts, stopping, main, monitor>>

StopHeart == heart = "tick" /\ stopping /\ Tick /\ heart' = "ended"

Bootstrap ==
    \/ \E c \in Conns : DialConnects(c)
    \/ DialFails \/ StartMonitor \/ RegisterFails \/ CheckHealth
    \/ \E i \in AgentIDs : RegisterSucceeds(i)

Close ==
    \/ BeginClose \/ UnregisterAnswered \/ UnregisterFails \/ CloseChannels
    \/ AwaitMonitors \/ CloseConn

MonitorStep ==
    \/ CheckStop \/ LookAtState \/ ShouldReconnect \/ ShutOld \/ RedialFails \/ InstallConn
    \/ \E c \in Conns : Redial(c)

WaNext ==
    \/ OrchestratorStops \/ OrchestratorStarts
    \/ \E c \in Conns : LinkBreaks(c) \/ LinkRecovers(c)
    \/ Bootstrap \/ TakeShutdownSignal \/ Close
    \/ MonitorStep \/ SendHeartbeat \/ Tick

WaSpec == WaInit /\ [][WaNext]_waVars

\* Dials and calls have timeouts, the monitors tick; between a tick and a stop
\* signal that are both there Go chooses at random, so a stop is seen in the end.
WaFairness ==
    /\ WF_waVars(Bootstrap) /\ WF_waVars(Close)
    /\ WF_waVars(MonitorStep) /\ WF_waVars(SendHeartbeat) /\ SF_waVars(StopHeart)

-----------------------------------------------------------------------------
(* Properties                                                              *)

\* Attempts are counted only when they are limited, up to the limit.
WaTypeOK ==
    /\ up \in BOOLEAN /\ breaks \in 0..MaxBreaks
    /\ knownAgents \subseteq AgentIDs /\ lostIDs \subseteq AgentIDs
    /\ link \in [Conns -> {"unused", "ready", "failed", "shut"}]
    /\ conn \in Conns \cup {0} /\ agentClosed \in BOOLEAN
    /\ agentID \in AgentIDs \cup {0} /\ registered \in BOOLEAN
    /\ attempts \in 0..MaxAttempts
    /\ stopping \in BOOLEAN
    /\ main \in {"dial", "dialed", "register", "health", "run", "close", "unregister",
                 "stop", "wait", "disconnect", "closed"}
    /\ monitor.pc \in {"off", "check", "look", "allowed", "shut", "redial", "install", "ended"}
    /\ monitor.at \in Conns \cup {0}
    /\ heart \in {"off", "beat", "tick", "ended"}

\* At most one connection of the agent is open, at any time, and none but the
\* one in its field or the one about to be entered there.
OneConnection ==
    \A c \in Conns :
        link[c] \in {"ready", "failed"} =>
            \/ c = conn /\ monitor.pc # "install"
            \/ monitor.pc = "install" /\ c = monitor.at

\* After Close no connection is open and no monitor runs: a reconnection that was
\* under way when Close began has been waited for (agent.go:414).
ClosedIsGone ==
    main = "closed" =>
        /\ \A c \in Conns : link[c] \in {"unused", "shut"}
        /\ monitor.pc \in {"off", "ended"} /\ heart \in {"off", "ended"}

\* The orchestrator knows the worker by the ID it has, and keeps no other unless
\* a Register or Unregister call failed half way; after Close it keeps none.
NoGhosts ==
    knownAgents \ lostIDs \subseteq (IF main = "closed" THEN {} ELSE {agentID})

\* Close returns, also during a reconnection.
CloseReturns == main = "close" ~> main = "closed"

\* While the orchestrator stays up a running worker keeps getting connected
\* again, when the attempts are not limited.
Reconnects == MaxAttempts = 0 => (<>[]up => []<>(main # "run" \/ Reachable))
=============================================================================
