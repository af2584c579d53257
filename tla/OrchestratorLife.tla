-------------------------- MODULE OrchestratorLife --------------------------
(***************************************************************************)
(* The life of the orchestrator process: Bootstrap, which initializes the  *)
(* subsystems in order and takes them down again when one fails; the rest  *)
(* of runOrchestrator, which starts the gRPC server and the agents'        *)
(* containers; and the shutdown manager, which any number of signals may   *)
(* start and which must finish before main returns.                        *)
(*                                                                         *)
(* Containers outlive the process.  Their names are fixed, so Docker       *)
(* refuses to create one while an old one of that name exists.             *)
(***************************************************************************)
EXTENDS Naturals, Sequences, FiniteSets

CONSTANTS
    Callers,     \* the signals that ask for a shutdown
    LLMEnabled,  \* the configuration asks for the LLM gateway
    MaxBoots     \* bound: starts of the process

VARIABLES
    main,       \* where runOrchestrator is
    up,         \* the subsystems that are initialized and not closed
    oStarted,   \* Orchestrator.started
    oClosed,    \* Orchestrator.closed
    serving,    \* the gRPC server runs
    boxes,      \* Docker's containers
    mine,       \* history: those of them this process created
    known,      \* those this process will remove
    shutState,  \* ShutdownManager.state
    shutter,    \* where each ShutdownAndWait call is
    excused,    \* history: Docker kept a container, or the process was killed
    boots       \* starts of the process

processVars == <<oStarted, oClosed, shutState, shutter, boots>>
boxVars == <<boxes, mine, known, excused>>
lifeVars == <<main, up, serving, processVars, boxVars>>

Order == <<"runtime", "bus", "router", "sessions", "ipc", "policy", "credentials", "scheduler", "memory">>
Subsystems == {Order[i] : i \in 1..Len(Order)}
Agents == {"assistant", "worker"}
MainAt == {"off", "boot", "failed", "skills", "grpc", "assistant", "worker", "registry", "waiting", "hung", "exit", "exited"}
ShutAt == {"none", "pre", "close", "hung", "post", "done", "refused"}

LifeInit ==
    /\ main = "off" /\ up = {} /\ serving = FALSE
    /\ oStarted = FALSE /\ oClosed = FALSE
    /\ boxes = {} /\ mine = {} /\ known = {} /\ excused = FALSE
    /\ shutState = "running" /\ shutter = [c \in Callers |-> "none"]
    /\ boots = 0

-----------------------------------------------------------------------------
(* Containers.                                                             *)

Created(names) ==
    /\ names \cap boxes = {}
    /\ boxes' = boxes \cup names /\ mine' = mine \cup names /\ known' = known \cup names

\* The process removes containers and forgets them, also those Docker keeps.
Removed(names) ==
    \E gone \in SUBSET (names \cap known) :
        /\ boxes' = boxes \ gone /\ mine' = mine \ gone
        /\ known' = known \ names
        /\ excused' = (excused \/ gone # names \cap known)

-----------------------------------------------------------------------------
(* Bootstrap: New, Initialize, RestoreSessions and the health check.       *)

StartProcess ==
    /\ main \in {"off", "exited"}
    /\ boots < MaxBoots /\ boots' = boots + 1
    /\ main' = "boot"
    /\ oStarted' = FALSE /\ oClosed' = FALSE
    /\ shutState' = "running" /\ shutter' = [c \in Callers |-> "none"]
    /\ mine' = {} /\ known' = {} /\ excused' = FALSE
    /\ UNCHANGED <<up, serving, boxes>>

\* What Initialize closes when the subsystem at place failing does not start.
Ladder(failing) == {Order[i] : i \in 1..(failing - 1)}

InitializeFails ==
    /\ main = "boot"
    /\ \E failing \in 1..Len(Order) :
        up' = {Order[i] : i \in 1..(failing - 1)} \ Ladder(failing)
    /\ main' = "failed"
    /\ UNCHANGED <<serving, processVars, boxVars>>

\* The LLM gateway may have no usable credentials and then no manager; or
\* its container does not start, which is only logged, but then the manager
\* is there and reports an unhealthy gateway; or it starts and is healthy or not.
Initialize ==
    /\ main = "boot"
    /\ oStarted' = TRUE
    /\ UNCHANGED excused
    /\ \/ /\ up' = Subsystems
          /\ main' \in {"failed", "skills"}
          /\ UNCHANGED <<boxes, mine, known>>
       \/ /\ LLMEnabled
          /\ up' = Subsystems \cup {"gateway"}
          /\ main' = "failed"
          /\ UNCHANGED <<boxes, mine, known>>
       \/ /\ LLMEnabled
          /\ up' = Subsystems \cup {"gateway"}
          /\ main' \in {"failed", "skills"}
          /\ Created({"gateway"})
    /\ UNCHANGED <<serving, oClosed, shutState, shutter, boots>>

\* Close: the subsystems in reverse order, the gateway with its container.
Close ==
    /\ up' = {} /\ oStarted' = FALSE /\ oClosed' = TRUE
    /\ Removed({"gateway"})

\* Close of the session manager is waited for without a timeout, and may wait for its
\* own clean-up for ever (CloseReturns of SessionManager): what comes before it is
\* closed, the rest is not.
CloseHangs ==
    /\ up' = up \cap {"runtime", "bus", "router", "sessions"} /\ UNCHANGED <<oStarted, oClosed>>
    /\ Removed({"gateway"})

BootstrapFails ==
    /\ main = "failed"
    /\ \/ Close /\ main' = "exit"
       \/ CloseHangs /\ main' = "hung"
    /\ UNCHANGED <<serving, shutState, shutter, boots>>

-----------------------------------------------------------------------------
(* The rest of runOrchestrator.  Each of its steps may fail and return.    *)

\* The skills loader, the gRPC server and the provider registry.
StartService ==
    /\ \/ main = "skills" /\ main' \in {"grpc", "exit"} /\ UNCHANGED serving
       \/ main = "grpc" /\ main' = "assistant" /\ serving' = TRUE
       \/ main = "grpc" /\ main' = "exit" /\ serving' \in BOOLEAN
       \/ main = "registry" /\ main' \in {"waiting", "exit"} /\ UNCHANGED serving
    /\ UNCHANGED <<up, processVars, boxVars>>

\* startAssistantProcess, startWorkerProcess: an option of the command; a
\* container that does not start is removed at once, or stays behind.
StartAgent(a) ==
    /\ main = a
    /\ \/ /\ main' = IF a = "assistant" THEN "worker" ELSE "registry"
          /\ Created({a}) \/ UNCHANGED <<boxes, mine, known>>
          /\ UNCHANGED excused
       \/ main' = "exit" /\ UNCHANGED boxVars
       \/ /\ main' = "exit"
          /\ a \notin boxes
          /\ boxes' = boxes \cup {a} /\ mine' = mine \cup {a} /\ excused' = TRUE
          /\ UNCHANGED known
    /\ UNCHANGED <<up, serving, processVars>>

\* Mutant: main returns without its deferred function
ExitWithoutDefer ==
    /\ main = "exit" \/ (main = "waiting" /\ shutState = "complete")
    /\ main' = "exited" /\ up' = {} /\ serving' = FALSE
    /\ UNCHANGED <<processVars, boxVars>>

\* The deferred function stops the agents, then the process ends.
Exit ==
    /\ \/ main = "exit"
       \/ main = "waiting" /\ shutState = "complete"
    /\ Removed(Agents)
    /\ main' = "exited" /\ up' = {} /\ serving' = FALSE
    /\ UNCHANGED processVars

-----------------------------------------------------------------------------
(* ShutdownManager.  The same hooks run before and after Close.            *)

MayShutDown == shutState = "running"

Shutdown(c) ==
    /\ main = "waiting" /\ shutter[c] = "none"
    /\ IF MayShutDown
       THEN shutState' = "initiated" /\ shutter' = [shutter EXCEPT ![c] = "pre"]
       ELSE shutter' = [shutter EXCEPT ![c] = "refused"] /\ UNCHANGED shutState
    /\ UNCHANGED <<main, up, oStarted, oClosed, serving, boxVars, boots>>

\* The hook of main: the agents' containers, the gRPC server, and more.
ExecuteHooks ==
    /\ Removed(Agents)
    /\ serving' = FALSE

PreShutdown(c) ==
    /\ main = "waiting" /\ shutter[c] = "pre"
    /\ ExecuteHooks
    /\ shutter' = [shutter EXCEPT ![c] = "close"]
    /\ shutState' = "stopping"
    /\ UNCHANGED <<main, up, oStarted, oClosed, boots>>

CloseOrchestrator(c) ==
    /\ main = "waiting" /\ shutter[c] = "close"
    /\ \/ Close /\ shutter' = [shutter EXCEPT ![c] = "post"]
       \/ CloseHangs /\ shutter' = [shutter EXCEPT ![c] = "hung"]
    /\ UNCHANGED <<main, serving, shutState, boots>>

\* Mutant: Shutdown does not close the completion channel
PostShutdownSilent(c) ==
    /\ main = "waiting" /\ shutter[c] = "post"
    /\ ExecuteHooks
    /\ shutter' = [shutter EXCEPT ![c] = "done"]
    /\ UNCHANGED <<main, up, shutState, oStarted, oClosed, boots>>

PostShutdown(c) ==
    /\ main = "waiting" /\ shutter[c] = "post"
    /\ ExecuteHooks
    /\ shutter' = [shutter EXCEPT ![c] = "done"]
    /\ shutState' = "complete"
    /\ UNCHANGED <<main, up, oStarted, oClosed, boots>>

-----------------------------------------------------------------------------
(* External: the process is killed; an operator removes what is left.      *)

KillProcess ==
    /\ main \notin {"off", "exited"}
    /\ main' = "exited" /\ up' = {} /\ serving' = FALSE
    /\ excused' = TRUE
    /\ UNCHANGED <<processVars, boxes, mine, known>>

RemoveLeftover ==
    /\ main \in {"off", "exited"}
    /\ \E b \in boxes : boxes' = boxes \ {b} /\ mine' = mine \ {b} /\ known' = known \ {b}
    /\ UNCHANGED <<main, up, serving, processVars, excused>>

LifeNext ==
    \/ StartProcess \/ InitializeFails \/ Initialize \/ BootstrapFails
    \/ StartService \/ (\E a \in Agents : StartAgent(a)) \/ Exit
    \/ \E c \in Callers : Shutdown(c) \/ PreShutdown(c) \/ CloseOrchestrator(c) \/ PostShutdown(c)
    \/ KillProcess \/ RemoveLeftover

LifeSpec == LifeInit /\ [][LifeNext]_lifeVars

\* The goroutine of the shutdown runs, and what it calls returns but for the Close of
\* the session manager, which may hang (CloseHangs).
LifeFairness ==
    /\ WF_lifeVars(Exit)
    /\ \A c \in Callers : WF_lifeVars(PreShutdown(c) \/ CloseOrchestrator(c) \/ PostShutdown(c))

-----------------------------------------------------------------------------
\* Every variable has its type, and at most one caller shuts down: a second
\* one would close the completion channel twice.
LifeTypeOK ==
    /\ main \in MainAt /\ up \subseteq Subsystems \cup {"gateway"}
    /\ {oStarted, oClosed, serving, excused} \subseteq BOOLEAN
    /\ boxes \subseteq Agents \cup {"gateway"} /\ mine \subseteq boxes
    /\ shutState \in {"running", "initiated", "stopping", "complete"}
    /\ shutter \in [Callers -> ShutAt]
    /\ Cardinality({c \in Callers : shutter[c] \notin {"none", "refused"}}) <= 1

\* Initialize leaves no subsystem running when it fails, at whichever of them.
LadderComplete == up # {} => oStarted

\* The gRPC server, whose handlers use them, stops before the session
\* manager and the event bus are closed.
ServerStopsFirst == serving => {"bus", "sessions"} \subseteq up

\* A process that ends on its own has removed the containers it created:
\* all of them after a shutdown; when main returns early, the agents'.
NothingLeft ==
    main = "exited" /\ ~excused => mine \subseteq (IF shutState = "complete" THEN {} ELSE {"gateway"})

\* A shutdown that began gets to the end and the process exits, unless the session
\* manager's Close hangs: main then waits for the completion without a timeout.
ShutdownEnds == (shutState # "running") ~> (main = "exited" \/ \E c \in Callers : shutter[c] = "hung")

\* Initialization that fails at any step and shutdowns that overlap leave no subsystem
\* and no container, and the server stops before what its handlers use
\* (orchestrator.go, shutdown.go, main.go).
OrchestratorLeavesNothing ==
    /\ LifeTypeOK
    /\ LadderComplete
    /\ ServerStopsFirst
    /\ NothingLeft
=============================================================================
