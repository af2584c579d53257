------------------------------ MODULE TaskQueue ------------------------------
(***************************************************************************)
(* The bounded priority queue of pkg/scheduler/queue.go.                   *)
(*                                                                         *)
(* A Queue keeps the same tasks twice: in a heap (pq) that orders them and *)
(* in a map (byId, the code's "tasks") that is keyed by task ID.  The size *)
(* limit is checked against the map, the workers are fed from the heap.    *)
(* IDs are generated, so distinct task objects normally have distinct IDs, *)
(* but WithTaskID lets a caller choose one: IdOf need not be injective.    *)
(*                                                                         *)
(* The heap is abstracted to the set of tasks in it: container/heap pops   *)
(* a task that no other task precedes (Less).                              *)
(***************************************************************************)
EXTENDS Integers, FiniteSets

CONSTANTS
    Tasks,       \* the task objects that are ever submitted
    Ids,         \* task identifiers
    IdOf,        \* the identifier of each task object
    Priorities,  \* the task priorities, a set of integers
    MaxSize,     \* Queue.maxSize, 0 for an unbounded queue
    NoTask       \* the nil *Task

ASSUME QueueAssumption ==
    /\ IsFiniteSet(Tasks)
    /\ IdOf \in [Tasks -> Ids]
    /\ Priorities \subseteq Int
    /\ MaxSize \in Nat
    /\ NoTask \notin Tasks

VARIABLES
    pq,       \* Queue.pq: the tasks in the heap
    byId,     \* Queue.tasks: the map from ID to task
    qclosed,  \* Queue.closed
    notify,   \* TRUE when notifyChan (capacity 1) holds a token
    status,   \* Task.Status, "none" for a task not yet created
    prio,     \* Task.Priority
    created   \* Task.CreatedAt: rank in creation order, 0 when not created

queueVars == <<pq, byId, qclosed, notify, status, prio, created>>

Status == {"none", "queued", "running", "completed", "failed", "canceled"}

QueueTypeOK ==
    /\ pq \subseteq Tasks
    /\ byId \in [Ids -> Tasks \cup {NoTask}]
    /\ qclosed \in BOOLEAN
    /\ notify \in BOOLEAN
    /\ status \in [Tasks -> Status]
    /\ prio \in [Tasks -> Priorities]
    /\ created \in [Tasks -> Nat]

NewQueue ==
    /\ pq = {}
    /\ byId = [i \in Ids |-> NoTask]
    /\ qclosed = FALSE
    /\ notify = FALSE
    /\ status = [t \in Tasks |-> "none"]
    /\ prio \in [Tasks -> Priorities]
    /\ created = [t \in Tasks |-> 0]

-----------------------------------------------------------------------------
Submitted == {t \in Tasks : created[t] # 0}

QueueSize == Cardinality({i \in Ids : byId[i] # NoTask})

IsFull == MaxSize > 0 /\ QueueSize >= MaxSize

\* Higher priority first, then the older task.
Less(t, u) ==
    \/ prio[t] > prio[u]
    \/ prio[t] = prio[u] /\ created[t] < created[u]

\* A task heap.Pop may return.
Peek(t) == t \in pq /\ \A u \in pq : ~Less(u, t)

\* The effect of an Enqueue that is accepted, on everything but the status.
Push(t) ==
    /\ pq' = pq \cup {t}
    /\ byId' = [byId EXCEPT ![IdOf[t]] = t]
    /\ notify' = TRUE

Enqueue(t) ==
    /\ ~qclosed
    /\ ~IsFull
    /\ Push(t)
    /\ status' = [status EXCEPT ![t] = "queued"]
    /\ UNCHANGED <<qclosed, prio>>

\* A new task object gets its timestamp before it is enqueued.
Create(t) == created' = [created EXCEPT ![t] = Cardinality(Submitted) + 1]

\* Mutant of tryDequeue: returns the head of the heap without popping it.
tryDequeueNoPop(t) ==
    /\ ~qclosed
    /\ Peek(t)
    /\ byId' = [byId EXCEPT ![IdOf[t]] = NoTask]
    /\ UNCHANGED pq

\* Pops a task; the map entry of its ID goes, whichever task it refers to.
tryDequeue(t) ==
    /\ ~qclosed
    /\ Peek(t)
    /\ pq' = pq \ {t}
    /\ byId' = [byId EXCEPT ![IdOf[t]] = NoTask]

\* Mutant of Remove: marks the task and forgets to rebuild the heap.
RemoveNoRebuild(i) ==
    /\ ~qclosed
    /\ byId[i] # NoTask
    /\ status' = [status EXCEPT ![byId[i]] = "canceled"]
    /\ byId' = [byId EXCEPT ![i] = NoTask]
    /\ UNCHANGED <<pq, qclosed, notify, prio, created>>

\* Remove by ID: the task in the map is canceled, the heap is rebuilt without
\* any task of that ID.
Remove(i) ==
    /\ ~qclosed
    /\ byId[i] # NoTask
    /\ status' = [status EXCEPT ![byId[i]] = "canceled"]
    /\ byId' = [byId EXCEPT ![i] = NoTask]
    /\ pq' = {t \in pq : IdOf[t] # i}
    /\ UNCHANGED <<qclosed, notify, prio, created>>

\* Clear works on a closed queue too and leaves the token in notifyChan.
Clear ==
    /\ status' = [t \in Tasks |->
                    IF \E i \in Ids : byId[i] = t THEN "canceled" ELSE status[t]]
    /\ pq' = {}
    /\ byId' = [i \in Ids |-> NoTask]
    /\ UNCHANGED <<qclosed, notify, prio, created>>

UpdatePriority(i, p) ==
    /\ ~qclosed
    /\ byId[i] # NoTask
    /\ prio' = [prio EXCEPT ![byId[i]] = p]
    /\ UNCHANGED <<pq, byId, qclosed, notify, status, created>>

\* Closing notifyChan makes every receive succeed: the tasks stay where they are.
CloseQueue ==
    /\ qclosed' = TRUE
    /\ UNCHANGED <<pq, byId, notify, status, prio, created>>

-----------------------------------------------------------------------------
(* The queue on its own, driven by any caller.                             *)

EnqueueNew(t) == t \notin Submitted /\ Create(t) /\ Enqueue(t)

Dequeue(t) ==
    /\ tryDequeue(t)
    /\ UNCHANGED <<qclosed, notify, status, prio, created>>

\* Dequeue blocked on notifyChan consumes the token and looks again.
AwaitNotify ==
    /\ ~qclosed /\ pq = {} /\ notify
    /\ notify' = FALSE
    /\ UNCHANGED <<pq, byId, qclosed, status, prio, created>>

QueueNext ==
    \/ \E t \in Tasks : EnqueueNew(t)
    \/ \E t \in Tasks : Dequeue(t)
    \/ AwaitNotify
    \/ \E i \in Ids : Remove(i)
    \/ \E i \in Ids, p \in Priorities : UpdatePriority(i, p)
    \/ Clear
    \/ ~qclosed /\ CloseQueue

QueueSpec == NewQueue /\ [][QueueNext]_queueVars

-----------------------------------------------------------------------------
(* Properties                                                              *)

\* The heap and the map hold the same tasks: a task the workers can be given
\* is a task Get, Remove and UpdatePriority can find (queue.go: Enqueue,
\* tryDequeue, Remove and Clear each update both).
HeapMatchesMap == pq = {byId[i] : i \in Ids} \ {NoTask}

\* The number of tasks waiting for a worker never exceeds the queue's maximum
\* size (NewQueue "with the specified maximum size").
HeapBounded == MaxSize > 0 => Cardinality(pq) <= MaxSize

\* A task that waits in the queue is in status queued: Cancel and Clear take
\* the tasks they mark out of the heap.
WaitingIsQueued == \A t \in pq : status[t] = "queued"

\* Heap, map and status of the queue agree through enqueues, removals and clearing, as
\* long as no two tasks share an identifier, and what waits is within the limit (queue.go).
QueueConsistent ==
    /\ HeapMatchesMap
    /\ HeapBounded
    /\ WaitingIsQueued
=============================================================================
