------------------------------ MODULE Scheduler ------------------------------
(***************************************************************************)
(* The task scheduler of pkg/scheduler/scheduler.go: Submit, Cancel and    *)
(* Close called from any goroutine, and a pool of workers that take tasks  *)
(* from the queue, run their handlers and re-enqueue the ones that fail.   *)
(*                                                                         *)
(* A worker's steps are split where it holds no lock, so that Cancel and   *)
(* the other workers see what they can see in the code:                    *)
(*   idle      top of worker.run, or of the loop in Queue.Dequeue          *)
(*   parked    blocked in Dequeue on notifyChan or its context             *)
(*   claimed   Dequeue returned a task, w.currentTask not yet set          *)
(*   published w.currentTask set, status not yet running                   *)
(*   running   the handler runs                                            *)
(*   requeue   a failed task is marked queued, not yet re-enqueued         *)
(*   finish    outcome recorded, w.currentTask not yet cleared             *)
(*   stopped   worker.run returned                                         *)
(***************************************************************************)
EXTENDS TaskQueue

CONSTANTS
    Workers,     \* the worker pool
    MaxRetries,  \* SchedulerConfig.MaxRetries
    NoId         \* no identifier

ASSUME SchedulerAssumption ==
    /\ IsFiniteSet(Workers) /\ Workers # {}
    /\ MaxRetries \in Nat
    /\ NoId \notin Ids

VARIABLES
    sched,        \* "open", "closing" (Close holds s.mu), "closed", "timedout"
    pc,           \* where each worker is
    hand,         \* the task each worker holds as a local variable
    current,      \* worker.currentTask
    retries,      \* Task.Retries
    started,      \* Task.StartedAt is set
    finished,     \* Task.CompletedAt is set
    successCount, \* Scheduler.successCount
    failureCount, \* Scheduler.failureCount
    cancelId,     \* the ID a Cancel scans the workers for, NoId if none does
    toScan,       \* the workers that Cancel has not looked at yet
    removed,      \* history: tasks that left the heap through Cancel
    runs          \* history: how often each task's handler was started

taskVars == <<retries, started, finished, successCount, failureCount>>
cancelVars == <<cancelId, toScan, removed>>
vars == <<queueVars, sched, pc, hand, current, taskVars, cancelVars, runs>>

PC == {"idle", "parked", "claimed", "published", "running", "requeue",
       "finish", "stopped"}

TypeOK ==
    /\ QueueTypeOK
    /\ sched \in {"open", "closing", "closed", "timedout"}
    /\ pc \in [Workers -> PC]
    /\ hand \in [Workers -> Tasks \cup {NoTask}]
    /\ current \in [Workers -> Tasks \cup {NoTask}]
    /\ retries \in [Tasks -> Nat]
    /\ started \in [Tasks -> BOOLEAN]
    /\ finished \in [Tasks -> BOOLEAN]
    /\ successCount \in Nat
    /\ failureCount \in Nat
    /\ cancelId \in Ids \cup {NoId}
    /\ toScan \subseteq Workers
    /\ removed \subseteq Tasks
    /\ runs \in [Tasks -> Nat]

Init ==
    /\ NewQueue
    /\ sched = "open"
    /\ pc = [w \in Workers |-> "idle"]
    /\ hand = [w \in Workers |-> NoTask]
    /\ current = [w \in Workers |-> NoTask]
    /\ retries = [t \in Tasks |-> 0]
    /\ started = [t \in Tasks |-> FALSE]
    /\ finished = [t \in Tasks |-> FALSE]
    /\ successCount = 0
    /\ failureCount = 0
    /\ cancelId = NoId
    /\ toScan = {}
    /\ removed = {}
    /\ runs = [t \in Tasks |-> 0]

Goto(w, l) == pc' = [pc EXCEPT ![w] = l]

-----------------------------------------------------------------------------
(* The callers.  s.mu is held by Close while it waits for the workers and  *)
(* (for reading) by Cancel while it scans them.                            *)

Submit(t) ==
    /\ sched = "open" /\ cancelId = NoId
    /\ t \notin Submitted
    /\ Create(t)
    /\ Enqueue(t)
    /\ UNCHANGED <<sched, pc, hand, current, taskVars, cancelVars, runs>>

CancelQueued(i) ==
    /\ sched = "open" /\ cancelId = NoId
    /\ Remove(i)
    /\ removed' = removed \cup {t \in pq : IdOf[t] = i}
    /\ UNCHANGED <<sched, pc, hand, current, taskVars, cancelId, toScan, runs>>

\* The ID is not in the queue: scan the workers for it.
CancelMiss(i) ==
    /\ sched = "open" /\ cancelId = NoId
    /\ byId[i] = NoTask
    /\ \E t \in Submitted : IdOf[t] = i
    /\ cancelId' = i
    /\ toScan' = Workers
    /\ UNCHANGED <<queueVars, sched, pc, hand, current, taskVars, removed, runs>>

CancelScan(w) ==
    /\ w \in toScan
    /\ IF current[w] # NoTask /\ IdOf[current[w]] = cancelId
         THEN /\ status' = [status EXCEPT ![current[w]] = "canceled"]
              /\ cancelId' = NoId
              /\ toScan' = {}
         ELSE /\ toScan' = toScan \ {w}
              /\ cancelId' = IF toScan = {w} THEN NoId ELSE cancelId
              /\ UNCHANGED status
    /\ UNCHANGED <<pq, byId, qclosed, notify, prio, created, sched, pc, hand,
                   current, taskVars, removed, runs>>

\* Close closes the queue, cancels the workers' context and waits for them.
CloseBegin ==
    /\ sched = "open" /\ cancelId = NoId
    /\ sched' = "closing"
    /\ CloseQueue
    /\ UNCHANGED <<pc, hand, current, taskVars, cancelVars, runs>>

CloseGraceful ==
    /\ sched = "closing"
    /\ \A w \in Workers : pc[w] = "stopped"
    /\ sched' = "closed"
    /\ UNCHANGED <<queueVars, pc, hand, current, taskVars, cancelVars, runs>>

CloseTimeout ==
    /\ sched = "closing"
    /\ sched' = "timedout"
    /\ UNCHANGED <<queueVars, pc, hand, current, taskVars, cancelVars, runs>>

-----------------------------------------------------------------------------
(* The workers.                                                            *)

Take(w) ==
    /\ pc[w] = "idle"
    /\ \E t \in pq : tryDequeue(t) /\ hand' = [hand EXCEPT ![w] = t]
    /\ Goto(w, "claimed")
    /\ UNCHANGED <<qclosed, notify, status, prio, created, sched, current,
                   taskVars, cancelVars, runs>>

Park(w) ==
    /\ pc[w] = "idle"
    /\ ~qclosed /\ pq = {}
    /\ Goto(w, "parked")
    /\ UNCHANGED <<queueVars, sched, hand, current, taskVars, cancelVars, runs>>

\* A receive on notifyChan: takes the token, or finds the channel closed.
Wake(w) ==
    /\ pc[w] = "parked"
    /\ notify \/ qclosed
    /\ notify' = FALSE
    /\ Goto(w, "idle")
    /\ UNCHANGED <<pq, byId, qclosed, status, prio, created, sched, hand,
                   current, taskVars, cancelVars, runs>>

\* The Dequeue context (TaskTimeout) expires or is canceled.
WakeTimeout(w) ==
    /\ pc[w] = "parked"
    /\ Goto(w, "idle")
    /\ UNCHANGED <<queueVars, sched, hand, current, taskVars, cancelVars, runs>>

Stop(w) ==
    /\ pc[w] = "idle"
    /\ qclosed
    /\ Goto(w, "stopped")
    /\ UNCHANGED <<queueVars, sched, hand, current, taskVars, cancelVars, runs>>

Publish(w) ==
    /\ pc[w] = "claimed"
    /\ current' = [current EXCEPT ![w] = hand[w]]
    /\ Goto(w, "published")
    /\ UNCHANGED <<queueVars, sched, hand, taskVars, cancelVars, runs>>

\* The status becomes running whatever it was; the handler starts.
Start(w) ==
    /\ pc[w] = "published"
    /\ status' = [status EXCEPT ![hand[w]] = "running"]
    /\ started' = [started EXCEPT ![hand[w]] = TRUE]
    /\ runs' = [runs EXCEPT ![hand[w]] = @ + 1]
    /\ Goto(w, "running")
    /\ UNCHANGED <<pq, byId, qclosed, notify, prio, created, sched, hand,
                   current, retries, finished, successCount, failureCount,
                   cancelVars>>

\* The handler returned: the outcome overwrites the status.
Record(w, s) ==
    /\ pc[w] = "running"
    /\ status' = [status EXCEPT ![hand[w]] = s]
    /\ finished' = [finished EXCEPT ![hand[w]] = TRUE]
    /\ UNCHANGED <<pq, byId, qclosed, notify, prio, created, sched, hand,
                   current, started, cancelVars, runs>>

Succeed(w) ==
    /\ Record(w, "completed")
    /\ successCount' = successCount + 1
    /\ Goto(w, "finish")
    /\ UNCHANGED <<retries, failureCount>>

Fail(w) ==
    /\ Record(w, "failed")
    /\ retries[hand[w]] >= MaxRetries
    /\ failureCount' = failureCount + 1
    /\ Goto(w, "finish")
    /\ UNCHANGED <<retries, successCount>>

Retry(w) ==
    /\ Record(w, "queued")
    /\ retries[hand[w]] < MaxRetries
    /\ retries' = [retries EXCEPT ![hand[w]] = @ + 1]
    /\ Goto(w, "requeue")
    /\ UNCHANGED <<successCount, failureCount>>

Requeue(w) ==
    /\ pc[w] = "requeue"
    /\ Enqueue(hand[w])
    /\ Goto(w, "finish")
    /\ UNCHANGED <<created, sched, hand, current, taskVars, cancelVars, runs>>

\* Mutant of RequeueFails: the error of Enqueue is only logged.
RequeueFailsSilently(w) ==
    /\ pc[w] = "requeue"
    /\ qclosed \/ IsFull
    /\ Goto(w, "finish")
    /\ UNCHANGED <<queueVars, sched, hand, current, taskVars, cancelVars, runs>>

\* The queue is full or closed: the retry is given up.
RequeueFails(w) ==
    /\ pc[w] = "requeue"
    /\ qclosed \/ IsFull
    /\ status' = [status EXCEPT ![hand[w]] = "failed"]
    /\ failureCount' = failureCount + 1
    /\ Goto(w, "finish")
    /\ UNCHANGED <<pq, byId, qclosed, notify, prio, created, sched, hand,
                   current, retries, started, finished, successCount,
                   cancelVars, runs>>

Finish(w) ==
    /\ pc[w] = "finish"
    /\ current' = [current EXCEPT ![w] = NoTask]
    /\ hand' = [hand EXCEPT ![w] = NoTask]
    /\ Goto(w, "idle")
    /\ UNCHANGED <<queueVars, sched, taskVars, cancelVars, runs>>

-----------------------------------------------------------------------------
\* Everything a worker does on its own, the handler's return included.
Loop(w) == Take(w) \/ Park(w) \/ Wake(w) \/ Stop(w)
Execute(w) == \/ Publish(w) \/ Start(w)
              \/ Succeed(w) \/ Fail(w) \/ Retry(w)
              \/ Requeue(w) \/ RequeueFails(w) \/ Finish(w)

Next ==
    \/ \E t \in Tasks : Submit(t)
    \/ \E i \in Ids : CancelQueued(i) \/ CancelMiss(i)
    \/ CloseBegin \/ CloseGraceful \/ CloseTimeout
    \/ \E w \in Workers :
         CancelScan(w) \/ Loop(w) \/ WakeTimeout(w) \/ Execute(w)

Spec == Init /\ [][Next]_vars

\* The Go runtime runs every goroutine that can run, timers expire, and
\* handlers return (each is given a context with a deadline).  Callers of
\* Submit, Cancel and Close need not call; a Cancel that began finishes.
Fairness ==
    /\ \A w \in Workers : WF_vars(Loop(w)) /\ WF_vars(Execute(w))
    /\ \A w \in Workers : WF_vars(WakeTimeout(w)) /\ WF_vars(CancelScan(w))
    /\ WF_vars(CloseGraceful) /\ WF_vars(CloseTimeout)

FairSpec == Spec /\ Fairness

-----------------------------------------------------------------------------
(* Properties                                                              *)

\* The workers that have a task to run or to give back to the queue.
Holds(w) == pc[w] \in {"claimed", "published", "running", "requeue"}
Holders == {w \in Workers : Holds(w)}

\* No task is in the hands of two workers, or of a worker and the queue at
\* once, although a retried task is re-enqueued before its worker lets go of
\* it (executeTask calls Enqueue before it clears currentTask).
ExclusiveOwner ==
    /\ \A w \in Holders : hand[w] \notin pq
    /\ \A v, w \in Holders : hand[v] = hand[w] => v = w

\* Every submitted task is accounted for exactly once: waiting, held by a
\* worker, taken out by Cancel, or counted as a success or a failure (Submit,
\* Cancel, executeTask and the counters of Stats).
Conservation ==
    Cardinality(Submitted) =
        Cardinality(pq) + Cardinality(Holders) + Cardinality(removed)
        + successCount + failureCount

\* A handler runs at most once more than the retries it is allowed, whatever
\* Cancel and the queue's limit do to it in between.
RunsBounded == \A t \in Tasks : runs[t] <= MaxRetries + 1

\* Once Close has returned without a timeout no handler runs any more.
ClosedMeansQuiet == sched = "closed" => \A w \in Workers : pc[w] = "stopped"

\* A task that Cancel took out of the queue is never started again, even when
\* it was waiting for a retry and its last worker still points to it.
RemovedNeverRuns == [][\A t \in removed : runs'[t] = runs[t]]_vars

\* An outcome is final, except that a Cancel that finds the task still in
\* w.currentTask overwrites it.
OutcomeOnlyCanceled ==
    [][\A t \in Tasks : status[t] \in {"completed", "failed"} =>
            status'[t] \in {status[t], "canceled"}]_vars

\* Every task that was accepted reaches an outcome while the scheduler is open,
\* if handlers return: no wake-up is lost for good.
EveryTaskSettles ==
    \A t \in Tasks :
        t \in Submitted ~> \/ status[t] \in {"completed", "failed", "canceled"}
                           \/ sched # "open"

\* After Close every worker returns, with tasks still waiting in the queue or
\* not, if handlers return.
CloseStopsWorkers == sched # "open" ~> \A w \in Workers : pc[w] = "stopped"

\* "Cancel cancels a pending or running task" (scheduler.go:220): what Cancel
\* reported as canceled stays canceled.
CanceledStaysCanceled ==
    [][\A t \in Tasks : status[t] = "canceled" => status'[t] = "canceled"]_vars

\* "WaitForResult waits for a task to complete and returns its result"
\* (scheduler.go:161): on a terminal status it dereferences StartedAt and
\* CompletedAt, so both must be set.
WaitForResult(t) ==
    status[t] \in {"completed", "failed", "canceled"} => started[t] /\ finished[t]
ResultAvailable == \A t \in Tasks : WaitForResult(t)

\* What becomes of a task: its handler runs at most once more than its retries,
\* not at all once it was canceled in the queue nor after Close has returned, and
\* an outcome is final but for a late Cancel (executeTask, Cancel, Close).
TaskOutcomes ==
    /\ [](TypeOK /\ RunsBounded /\ ClosedMeansQuiet)
    /\ RemovedNeverRuns
    /\ OutcomeOnlyCanceled

\* Accepted tasks reach an outcome while the scheduler is open, and after Close the
\* workers return, although one token wakes one of many waiting workers
\* (Dequeue, worker.run, Close).
TasksSettle ==
    /\ EveryTaskSettles
    /\ CloseStopsWorkers
=============================================================================
