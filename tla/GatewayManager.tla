--------------------------- MODULE GatewayManager ---------------------------
(***************************************************************************)
(* What the orchestrator does with containers: the manager of the LLM      *)
(* gateway's container, and the runtimes with the containers of tools and  *)
(* agents.  The two share no state.                                        *)
(***************************************************************************)
EXTENDS Naturals, FiniteSets

-----------------------------------------------------------------------------
(***************************************************************************)
(* The manager of the LLM gateway container: Start, Stop, Restart, Close   *)
(* and the health monitor, a goroutine per successful Start.               *)
(*                                                                         *)
(* The manager's mutex is held through Start, Stop, Restart and Close, so  *)
(* each of them is one step.  The monitor takes it for moments only: what  *)
(* it read before is used after, and its steps are separate.  Docker is    *)
(* external: box is the state of the one container with the gateway's      *)
(* fixed name, "absent" when there is none.                                *)
(***************************************************************************)

CONSTANTS
    MaxConsecutiveFailures, \* failed checks before an automatic restart
    MaxStarts               \* bound: successful starts

ASSUME GmAssumption == MaxConsecutiveFailures \in Nat /\ MaxStarts \in Nat

VARIABLES
    box,        \* Docker's container
    gwStarted,  \* started
    gwClosed,   \* closed
    knowsBox,   \* containerID is not empty
    ctxLive,    \* healthCheckCtx is not canceled
    failures,   \* consecutiveFailures, capped one above the limit
    monitor,    \* where each health monitor goroutine is
    starts      \* successful starts so far

gwVars == <<box, gwStarted, gwClosed, knowsBox, ctxLive, failures, monitor, starts>>

Box == {"absent", "created", "starting", "healthy", "unhealthy", "stopped"}
MonitorAt == {"none", "select", "check", "good", "bad", "try", "backoff", "restart", "reset", "ended"}
FailureCap == MaxConsecutiveFailures + 1

GwInit ==
    /\ box = "absent"
    /\ gwStarted = FALSE /\ gwClosed = FALSE /\ knowsBox = FALSE
    /\ ctxLive = TRUE
    /\ failures = 0 /\ starts = 0
    /\ monitor = [n \in 1..MaxStarts |-> "none"]

-----------------------------------------------------------------------------
(* External: the container on its own, and what an operator does to it.    *)

BoxStep ==
    /\ \/ box \in {"starting", "unhealthy"} /\ box' = "healthy"
       \/ box \in {"starting", "healthy"} /\ box' = "unhealthy"
       \/ box \in {"starting", "healthy", "unhealthy"} /\ box' = "stopped"
       \/ box = "stopped" /\ box' = "absent"
    /\ UNCHANGED <<gwStarted, gwClosed, knowsBox, ctxLive, failures, monitor, starts>>

-----------------------------------------------------------------------------
(* The operations.  Creating a container needs the name to be free; every  *)
(* call of Docker may fail.                                                *)

\* cleanupContainer: the id is forgotten only when Docker removed the container.
CleanupContainer ==
    \/ box' = "absent" /\ knowsBox' = FALSE
    \/ box' = "created" /\ knowsBox' = TRUE

GwStart ==
    /\ ~gwClosed /\ ~gwStarted
    /\ box = "absent"
    /\ starts < MaxStarts
    /\ box' = "starting" /\ knowsBox' = TRUE
    /\ gwStarted' = TRUE
    /\ ctxLive' = TRUE
    /\ starts' = starts + 1
    /\ monitor' = [monitor EXCEPT ![starts + 1] = "select"]
    /\ UNCHANGED <<gwClosed, failures>>

\* The container was created and does not start.
GwStartFails ==
    /\ ~gwClosed /\ ~gwStarted
    /\ box = "absent"
    /\ CleanupContainer
    /\ UNCHANGED <<gwStarted, gwClosed, ctxLive, failures, monitor, starts>>

\* Monitoring ends whether or not Docker stops the container.
GwStop ==
    /\ gwStarted
    /\ ctxLive' = FALSE
    /\ \/ /\ box # "absent" /\ box' = "stopped"
          /\ gwStarted' = FALSE
          /\ failures' = 0
       \/ UNCHANGED <<box, gwStarted, failures>>
    /\ UNCHANGED <<gwClosed, knowsBox, monitor, starts>>

\* Mutant: Restart does not look whether the gateway is started
RestartableAlways == knowsBox

Restartable == gwStarted

GwRestart ==
    /\ Restartable
    /\ box # "absent" /\ box' = "starting"
    /\ UNCHANGED <<gwStarted, gwClosed, knowsBox, ctxLive, failures, monitor, starts>>

\* Close forgets the container even when Docker kept it.
GwClose ==
    /\ ~gwClosed
    /\ ctxLive' = FALSE
    /\ gwClosed' = TRUE /\ gwStarted' = FALSE
    /\ knowsBox' = FALSE
    /\ failures' = 0
    /\ box' \in IF knowsBox
                THEN {"absent", box} \cup (IF gwStarted /\ box # "absent" THEN {"stopped"} ELSE {})
                ELSE {box}
    /\ UNCHANGED <<monitor, starts>>

-----------------------------------------------------------------------------
(* Health monitor n.  It reads the manager's context, not one of its own.  *)

Go(n, at) == monitor' = [monitor EXCEPT ![n] = at]

MonitorEnds(n) ==
    /\ monitor[n] = "select" /\ ~ctxLive
    /\ Go(n, "ended")
    /\ UNCHANGED <<box, gwStarted, gwClosed, knowsBox, ctxLive, failures, starts>>

Snapshot(n) ==
    /\ monitor[n] = "select"
    /\ gwStarted /\ knowsBox
    /\ Go(n, "check")
    /\ UNCHANGED <<box, gwStarted, gwClosed, knowsBox, ctxLive, failures, starts>>

\* What an inspection of the container says; a canceled one is an error.
HealthCheck ==
    IF ~ctxLive THEN {"bad"}
    ELSE CASE box = "healthy" -> {"good"}
           [] box \in {"starting", "created"} -> {"select"}
           [] box \in {"unhealthy", "stopped", "absent"} -> {"bad"}

Check(n) ==
    /\ monitor[n] = "check"
    /\ \E at \in HealthCheck \cup {"bad"} : Go(n, at)
    /\ UNCHANGED <<box, gwStarted, gwClosed, knowsBox, ctxLive, failures, starts>>

RecordGood(n) ==
    /\ monitor[n] = "good"
    /\ failures' = 0
    /\ Go(n, "select")
    /\ UNCHANGED <<box, gwStarted, gwClosed, knowsBox, ctxLive, starts>>

Counted == IF failures < FailureCap THEN failures + 1 ELSE failures

RecordBad(n) ==
    /\ monitor[n] = "bad"
    /\ failures' = Counted
    /\ Go(n, IF failures' >= MaxConsecutiveFailures THEN "try" ELSE "select")
    /\ UNCHANGED <<box, gwStarted, gwClosed, knowsBox, ctxLive, starts>>

\* attemptAutoRestart: look, wait, then restart whatever is there by then.
Try(n) ==
    /\ monitor[n] = "try"
    /\ Go(n, IF gwStarted /\ ~gwClosed THEN "backoff" ELSE "select")
    /\ UNCHANGED <<box, gwStarted, gwClosed, knowsBox, ctxLive, failures, starts>>

Backoff(n) ==
    /\ monitor[n] = "backoff"
    /\ \/ Go(n, "restart")
       \/ ~ctxLive /\ Go(n, "select")
    /\ UNCHANGED <<box, gwStarted, gwClosed, knowsBox, ctxLive, failures, starts>>

AutoRestart(n) ==
    /\ monitor[n] = "restart"
    /\ Restartable
    /\ box # "absent" /\ box' = "starting"
    /\ Go(n, "reset")
    /\ UNCHANGED <<gwStarted, gwClosed, knowsBox, ctxLive, failures, starts>>

\* Not started any more, or Docker fails: the next check will tell.
AutoRestartFails(n) ==
    /\ monitor[n] = "restart"
    /\ Go(n, "select")
    /\ UNCHANGED <<box, gwStarted, gwClosed, knowsBox, ctxLive, failures, starts>>

ResetFailures(n) ==
    /\ monitor[n] = "reset"
    /\ failures' = 0
    /\ Go(n, "select")
    /\ UNCHANGED <<box, gwStarted, gwClosed, knowsBox, ctxLive, starts>>

MonitorStep(n) ==
    \/ MonitorEnds(n) \/ Snapshot(n) \/ Check(n) \/ RecordGood(n) \/ RecordBad(n)
    \/ Try(n) \/ Backoff(n) \/ AutoRestart(n) \/ AutoRestartFails(n) \/ ResetFailures(n)

GwNext ==
    \/ BoxStep \/ GwStart \/ GwStartFails \/ GwStop \/ GwRestart \/ GwClose
    \/ \E n \in 1..MaxStarts : MonitorStep(n)

GmSpec == GwInit /\ [][GwNext]_gwVars

-----------------------------------------------------------------------------
(* A goroutine that can run does; Docker does not refuse every restart.    *)
GwFairness ==
    \A n \in 1..MaxStarts :
        /\ WF_gwVars(MonitorStep(n))
        /\ SF_gwVars(AutoRestart(n))

-----------------------------------------------------------------------------
\* Every variable has its type, and a goroutine exists for every start.
GwTypeOK ==
    /\ box \in Box
    /\ {gwStarted, gwClosed, knowsBox, ctxLive} \subseteq BOOLEAN
    /\ failures \in 0..FailureCap
    /\ starts \in 0..MaxStarts
    /\ \A n \in 1..MaxStarts : monitor[n] \in MonitorAt /\ (monitor[n] = "none" <=> n > starts)

\* Until it is closed the manager knows the container it created, also
\* after a start, a stop or a removal that failed.
ContainerKnown == box # "absent" => knowsBox \/ gwClosed

\* A gateway that is not started is not brought up by a monitor that was
\* waiting to restart it when it was stopped or closed.
StoppedStaysDown == [][~gwStarted /\ ~gwStarted' => box' # "starting" \/ box = "starting"]_gwVars

\* A started gateway that is unhealthy or has died is restarted, recovers or
\* is stopped, whatever its monitor was doing.
GatewayRecovers ==
    (gwStarted /\ ctxLive /\ box \in {"unhealthy", "stopped"})
        ~> (~gwStarted \/ ~ctxLive \/ box \notin {"unhealthy", "stopped"})

-----------------------------------------------------------------------------
(***************************************************************************)
(* The registry of container runtimes and the life of a container under    *)
(* the lifecycle manager.  The registry makes at most one instance per     *)
(* type; whoever holds an instance may close it behind the registry's      *)
(* back.  The lifecycle manager serializes its operations on a mutex,      *)
(* except StopAndDestroy, whose two calls of Docker run without it.        *)
(* Docker is external: ct is what it does with a container.                *)
(***************************************************************************)

CONSTANTS
    RuntimeTypes,  \* "docker" and others
    MaxInstances,  \* bound: runtime instances created
    Boxes          \* containers

\* "none" is the type of an instance that does not exist yet.
ASSUME CrAssumption == "none" \notin RuntimeTypes /\ MaxInstances \in Nat

VARIABLES
    factories,   \* types with a factory
    runtimes,    \* the cached instance of each type, 0 when there is none
    instance,    \* the instances: their type and whether they are open
    ct,          \* Docker's state of each container
    destroyer    \* where a StopAndDestroy of each container is

rtVars == <<factories, runtimes, instance, ct, destroyer>>

ContainerState == {"absent", "created", "running", "paused", "exited"}
NoInstance == [type |-> "none", open |-> FALSE]
Instances == 1..MaxInstances

RtInit ==
    /\ factories = {} /\ runtimes = [t \in RuntimeTypes |-> 0]
    /\ instance = [i \in Instances |-> NoInstance]
    /\ ct = [c \in Boxes |-> "absent"] /\ destroyer = [c \in Boxes |-> "none"]

-----------------------------------------------------------------------------
(* The registry.                                                           *)

RegisterRuntime(t) ==
    /\ factories' = factories \cup {t}
    /\ UNCHANGED <<runtimes, instance, ct, destroyer>>

Closed(t) == IF runtimes[t] = 0 THEN instance ELSE [instance EXCEPT ![runtimes[t]].open = FALSE]

UnregisterRuntime(t) ==
    /\ factories' = factories \ {t}
    /\ instance' = Closed(t)
    /\ runtimes' = [runtimes EXCEPT ![t] = 0]
    /\ UNCHANGED <<ct, destroyer>>

\* A closed Docker instance is replaced; of other types it is handed out.
Usable(t) == runtimes[t] # 0 /\ (t = "docker" => instance[runtimes[t]].open)

GetRuntime(t) ==
    /\ ~Usable(t)
    /\ \/ /\ t \in factories
          /\ \E i \in Instances :
              /\ instance[i] = NoInstance
              /\ \A j \in Instances : j < i => instance[j] # NoInstance
              /\ instance' = [instance EXCEPT ![i] = [type |-> t, open |-> TRUE]]
              /\ runtimes' = [runtimes EXCEPT ![t] = i]
       \/ /\ runtimes' = [runtimes EXCEPT ![t] = 0]
          /\ UNCHANGED instance
    /\ UNCHANGED <<factories, ct, destroyer>>

\* Also when closing it fails the instance is dropped.
CloseRuntime(t) ==
    /\ runtimes[t] # 0
    /\ instance' = Closed(t)
    /\ runtimes' = [runtimes EXCEPT ![t] = 0]
    /\ UNCHANGED <<factories, ct, destroyer>>

CloseRegistry ==
    /\ instance' = [i \in Instances |->
                       [instance[i] EXCEPT !.open = @ /\ \A t \in RuntimeTypes : runtimes[t] # i]]
    /\ runtimes' = [t \in RuntimeTypes |-> 0]
    /\ factories' = {}
    /\ UNCHANGED <<ct, destroyer>>

\* A holder closes the instance; the registry is not told.
CloseInstance(i) ==
    /\ instance[i].open
    /\ instance' = [instance EXCEPT ![i].open = FALSE]
    /\ UNCHANGED <<factories, runtimes, ct, destroyer>>

-----------------------------------------------------------------------------
(* The lifecycle manager.                                                  *)

Move(c, from, to) ==
    /\ ct[c] \in from
    /\ ct' = [ct EXCEPT ![c] = to]
    /\ UNCHANGED <<factories, runtimes, instance, destroyer>>

CreateContainer(c) ==
    /\ ct[c] = "absent" /\ ct' = [ct EXCEPT ![c] = "created"]
    /\ destroyer[c] \in {"none", "ok", "error"} /\ destroyer' = [destroyer EXCEPT ![c] = "none"]
    /\ UNCHANGED <<factories, runtimes, instance>>
Start(c) == Move(c, {"created", "exited"}, "running")
Stop(c) == Move(c, {"running", "paused"}, "exited")
Restart(c) == Move(c, ContainerState \ {"absent"}, "running")
Pause(c) == Move(c, {"running"}, "paused")
Unpause(c) == Move(c, {"paused"}, "running")
KillContainer(c) == Move(c, {"running", "paused"}, "exited")
Destroy(c) == Move(c, {"created", "exited", "running", "paused"}, "absent")

\* StopAndDestroy: a failing stop is logged, a failing removal returned.
StopFirst(c) ==
    /\ destroyer[c] = "none" /\ ct[c] # "absent"
    /\ destroyer' = [destroyer EXCEPT ![c] = "destroy"]
    /\ \/ UNCHANGED ct
       \/ ct[c] \in {"running", "paused"} /\ ct' = [ct EXCEPT ![c] = "exited"]
    /\ UNCHANGED <<factories, runtimes, instance>>

ThenDestroy(c) ==
    /\ destroyer[c] = "destroy"
    /\ \/ ct[c] # "absent" /\ ct' = [ct EXCEPT ![c] = "absent"] /\ destroyer' = [destroyer EXCEPT ![c] = "ok"]
       \/ UNCHANGED ct /\ destroyer' = [destroyer EXCEPT ![c] = "error"]
    /\ UNCHANGED <<factories, runtimes, instance>>

RtNext ==
    \/ \E t \in RuntimeTypes : RegisterRuntime(t) \/ UnregisterRuntime(t) \/ GetRuntime(t) \/ CloseRuntime(t)
    \/ CloseRegistry \/ \E i \in Instances : CloseInstance(i)
    \/ \E c \in Boxes : \/ CreateContainer(c) \/ Start(c) \/ Stop(c) \/ Restart(c) \/ Pause(c) \/ Unpause(c)
                        \/ KillContainer(c) \/ Destroy(c) \/ StopFirst(c) \/ ThenDestroy(c)

CrSpec == RtInit /\ [][RtNext]_rtVars

-----------------------------------------------------------------------------
\* Every variable has its type; a type's instance is of that type.
RtTypeOK ==
    /\ factories \subseteq RuntimeTypes
    /\ runtimes \in [RuntimeTypes -> 0..MaxInstances]
    /\ instance \in [Instances -> [type : RuntimeTypes \cup {"none"}, open : BOOLEAN]]
    /\ ct \in [Boxes -> ContainerState]
    /\ destroyer \in [Boxes -> {"none", "destroy", "ok", "error"}]
    /\ \A t \in RuntimeTypes : runtimes[t] # 0 => instance[runtimes[t]].type = t

\* No instance is open that the registry has dropped or replaced: through
\* Unregister, Close and a replacement after somebody else closed it.
NoInstanceLost == \A i \in Instances : instance[i].open => runtimes[instance[i].type] = i

\* When StopAndDestroy succeeds the container is gone, also when its stop
\* failed or another operation started it in between.
DestroyedIsGone == \A c \in Boxes : destroyer[c] = "ok" => ct[c] = "absent"

-----------------------------------------------------------------------------
\* Of the gateway manager and the container runtimes: no container or instance is lost
\* through failing calls, a stopped gateway stays down though its monitor was about
\* to restart it (gateway_manager.go, runtime_factory.go, lifecycle.go).
ContainersTracked ==
    /\ [](GwTypeOK /\ ContainerKnown /\ RtTypeOK /\ NoInstanceLost /\ DestroyedIsGone)
    /\ StoppedStaysDown
=============================================================================
