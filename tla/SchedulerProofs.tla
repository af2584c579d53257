--------------------------- MODULE SchedulerProofs ---------------------------
(***************************************************************************)
(* Proofs about Scheduler, for any number of tasks and workers, any queue  *)
(* limit and any assignment of identifiers to tasks, about                 *)
(* ProviderRegistry, for any goroutines and providers, and about           *)
(* AssistantAgent, for any number of messages, sessions and limits.        *)
(***************************************************************************)
EXTENDS Scheduler, ProviderRegistry, AssistantAgent, FiniteSetTheorems, SequenceTheorems, TLAPS

\* Only submitted tasks circulate: Submit puts a new task on the heap, Requeue
\* only the one its worker holds.
Circulating ==
    /\ pq \subseteq Submitted
    /\ \A w \in Holders : hand[w] \in Submitted

\* A task Cancel took out of the heap is neither there nor held any more.
RemovedGone ==
    /\ removed \subseteq Submitted
    /\ removed \cap pq = {}
    /\ \A w \in Holders : hand[w] \notin removed

\* A worker with something to run or to give back has a task in its hand.
HandTyped == \A w \in Holders : hand[w] \in Tasks

TInv == TypeOK /\ HandTyped

\* The inductive invariant: ExclusiveOwner needs to know that what Submit and
\* Requeue put on the heap was nowhere else.
IInv == TInv /\ Circulating /\ RemovedGone /\ ExclusiveOwner

-----------------------------------------------------------------------------
\* The rank of a new task is positive: the task counts as submitted.
LEMMA RankPositive ==
    ASSUME TypeOK
    PROVE  Cardinality(Submitted) + 1 \in Nat \ {0}
  BY QueueAssumption, FS_Subset, FS_CardinalityType DEF Submitted

\* Creating a task adds it to the submitted ones and changes no other rank.
LEMMA CreateSubmits ==
    ASSUME TypeOK, NEW t \in Tasks, Create(t)
    PROVE  /\ created' \in [Tasks -> Nat]
           /\ Submitted' = Submitted \cup {t}
  BY RankPositive DEF TypeOK, QueueTypeOK, Create, Submitted

\* Every step preserves the types of the variables.
LEMMA TypeStep == TInv /\ [Next]_vars => TInv'
<1> SUFFICES ASSUME TInv, [Next]_vars PROVE TInv'
  OBVIOUS
<1> USE QueueAssumption, SchedulerAssumption
    DEF TInv, TypeOK, HandTyped, Holders, Holds, QueueTypeOK, Status, PC,
        queueVars, taskVars, cancelVars, Goto
<1>1. ASSUME NEW t \in Tasks, Submit(t) PROVE TInv'
  BY <1>1, CreateSubmits DEF Submit, Enqueue, Push
<1>2. ASSUME NEW i \in Ids, CancelQueued(i) PROVE TInv'
  BY <1>2 DEF CancelQueued, Remove
<1>3. ASSUME NEW i \in Ids, CancelMiss(i) PROVE TInv'
  BY <1>3 DEF CancelMiss
<1>4. CASE CloseBegin
  BY <1>4 DEF CloseBegin, CloseQueue
<1>5. CASE CloseGraceful
  BY <1>5 DEF CloseGraceful
<1>6. CASE CloseTimeout
  BY <1>6 DEF CloseTimeout
<1>7. ASSUME NEW w \in Workers, CancelScan(w) PROVE TInv'
  BY <1>7 DEF CancelScan
<1>8. ASSUME NEW w \in Workers, Loop(w) \/ WakeTimeout(w) PROVE TInv'
  <2>1. CASE Take(w)
    <3>1. PICK t \in Tasks : tryDequeue(t) /\ hand' = [hand EXCEPT ![w] = t]
      BY <2>1 DEF Take
    <3>2. pq' \subseteq Tasks /\ byId' \in [Ids -> Tasks \cup {NoTask}]
      BY <3>1 DEF tryDequeue
    <3>3. hand' \in [Workers -> Tasks \cup {NoTask}] /\ hand'[w] \in Tasks
      BY <3>1
    <3>4. /\ pc' \in [Workers -> PC]
          /\ UNCHANGED <<qclosed, notify, status, prio, created, sched, current,
                         taskVars, cancelVars, runs>>
      BY <2>1 DEF Take
    <3>5. \A v \in Workers : v # w => pc'[v] = pc[v] /\ hand'[v] = hand[v]
      BY <2>1, <3>1 DEF Take
    <3>6. TypeOK'
      BY <3>2, <3>3, <3>4
    <3>7. HandTyped'
      BY <3>3, <3>5
    <3>8. QED BY <3>6, <3>7
  <2>2. CASE Park(w)
    BY <2>2 DEF Park
  <2>3. CASE Wake(w)
    BY <2>3 DEF Wake
  <2>4. CASE Stop(w)
    BY <2>4 DEF Stop
  <2>5. CASE WakeTimeout(w)
    BY <2>5 DEF WakeTimeout
  <2>6. QED BY <1>8, <2>1, <2>2, <2>3, <2>4, <2>5 DEF Loop
<1>9. ASSUME NEW w \in Workers, Execute(w) PROVE TInv'
  <2>1. CASE Publish(w)
    BY <2>1 DEF Publish
  <2>2. CASE Start(w)
    <3>1. hand[w] \in Tasks /\ runs[hand[w]] \in Nat
      BY <2>2 DEF Start
    <3>2. /\ runs' \in [Tasks -> Nat]
          /\ status' \in [Tasks -> Status]
          /\ started' \in [Tasks -> BOOLEAN]
      BY <2>2, <3>1 DEF Start
    <3>3. QED BY <2>2, <3>2 DEF Start
  <2>3. CASE Succeed(w)
    BY <2>3 DEF Succeed, Record
  <2>4. CASE Fail(w)
    BY <2>4 DEF Fail, Record
  <2>5. CASE Retry(w)
    <3>1. hand[w] \in Tasks /\ retries[hand[w]] \in Nat
      BY <2>5 DEF Retry, Record
    <3>2. QED BY <2>5, <3>1 DEF Retry, Record
  <2>6. CASE Requeue(w)
    BY <2>6 DEF Requeue, Enqueue, Push
  <2>7. CASE RequeueFails(w)
    BY <2>7 DEF RequeueFails
  <2>8. CASE Finish(w)
    BY <2>8 DEF Finish
  <2>9. QED BY <1>9, <2>1, <2>2, <2>3, <2>4, <2>5, <2>6, <2>7, <2>8 DEF Execute
<1>10. CASE UNCHANGED vars
  BY <1>10 DEF vars
<1>11. QED
  BY <1>1, <1>2, <1>3, <1>4, <1>5, <1>6, <1>7, <1>8, <1>9, <1>10 DEF Next

\* The state of a new scheduler is typed.
LEMMA TypeInit == Init => TInv
<1> SUFFICES ASSUME Init PROVE TInv
  OBVIOUS
<1>1. QueueTypeOK
  BY QueueAssumption DEF Init, NewQueue, QueueTypeOK, Status
<1>2. TypeOK
  BY <1>1, SchedulerAssumption DEF Init, TypeOK, PC
<1>3. HandTyped
  BY DEF Init, HandTyped, Holders, Holds
<1>4. QED BY <1>2, <1>3 DEF TInv

\* Type correctness of the scheduler and its queue.
THEOREM TypeCorrect == Spec => []TypeOK
<1>1. TInv => TypeOK
  BY DEF TInv
<1>2. QED
  BY <1>1, TypeInit, TypeStep, PTL DEF Spec

-----------------------------------------------------------------------------
(* Ownership.                                                              *)

\* IInv without the types.
Ownership == Circulating /\ RemovedGone /\ ExclusiveOwner

\* The steps that neither move a task nor change who holds what.
LEMMA OwnershipStable ==
    ASSUME Ownership, UNCHANGED <<pq, created, removed, hand>>, Holders' \subseteq Holders
    PROVE  Ownership'
  BY DEF Ownership, Circulating, RemovedGone, ExclusiveOwner, Submitted

\* No step gives a task a second owner, or loses it.
LEMMA OwnershipStep == IInv /\ [Next]_vars => Ownership'
<1> SUFFICES ASSUME IInv, [Next]_vars PROVE Ownership'
  OBVIOUS
<1> USE DEF IInv, TInv, queueVars, taskVars, cancelVars, Goto
<1>0. Ownership
  BY DEF Ownership
<1>a. pc \in [Workers -> PC] /\ hand \in [Workers -> Tasks \cup {NoTask}]
  BY DEF TypeOK
<1>1. ASSUME NEW t \in Tasks, Submit(t) PROVE Ownership'
  <2>1. Submitted' = Submitted \cup {t} /\ t \notin Submitted
    BY <1>1, CreateSubmits DEF Submit
  <2>2. pq' = pq \cup {t} /\ UNCHANGED <<hand, pc, removed>>
    BY <1>1 DEF Submit, Enqueue, Push
  <2>3. Holders' = Holders
    BY <2>2 DEF Holders, Holds
  <2>4. QED
    BY <1>0, <2>1, <2>2, <2>3 DEF Ownership, Circulating, RemovedGone, ExclusiveOwner
<1>2. ASSUME NEW i \in Ids, CancelQueued(i) PROVE Ownership'
  <2>1. /\ pq' = {t \in pq : IdOf[t] # i}
        /\ removed' = removed \cup {t \in pq : IdOf[t] = i}
        /\ UNCHANGED <<hand, pc, created>>
    BY <1>2 DEF CancelQueued, Remove
  <2>2. Holders' = Holders /\ Submitted' = Submitted
    BY <2>1 DEF Holders, Holds, Submitted
  <2>3. QED
    BY <1>0, <2>1, <2>2 DEF Ownership, Circulating, RemovedGone, ExclusiveOwner
<1>3. ASSUME NEW i \in Ids, CancelMiss(i) PROVE Ownership'
  BY <1>0, <1>3, OwnershipStable DEF CancelMiss, Holders, Holds
<1>4. CASE CloseBegin \/ CloseGraceful \/ CloseTimeout
  BY <1>0, <1>4, OwnershipStable
     DEF CloseBegin, CloseGraceful, CloseTimeout, CloseQueue, Holders, Holds
<1>5. ASSUME NEW w \in Workers, CancelScan(w) PROVE Ownership'
  BY <1>0, <1>5, OwnershipStable DEF CancelScan, Holders, Holds
<1>6. ASSUME NEW w \in Workers, Take(w) PROVE Ownership'
  <2>1. PICK t \in pq : tryDequeue(t) /\ hand' = [hand EXCEPT ![w] = t]
    BY <1>6 DEF Take
  <2>2. /\ pq' = pq \ {t} /\ hand'[w] = t
        /\ \A v \in Workers \ {w} : hand'[v] = hand[v]
        /\ UNCHANGED <<created, removed>>
    BY <1>6, <1>a, <2>1 DEF Take, tryDequeue
  <2>3. Holders' = Holders \cup {w} /\ w \notin Holders /\ Submitted' = Submitted
    BY <1>6, <1>a DEF Take, Holders, Holds, Submitted
  <2>4. QED
    BY <1>0, <2>1, <2>2, <2>3
       DEF Ownership, Circulating, RemovedGone, ExclusiveOwner, Holders
<1>7. ASSUME NEW w \in Workers, Park(w) \/ Wake(w) \/ Stop(w) \/ WakeTimeout(w)
      PROVE  Ownership'
  <2>1. Holders' \subseteq Holders /\ UNCHANGED <<pq, created, removed, hand>>
    BY <1>7, <1>a DEF Park, Wake, Stop, WakeTimeout, Holders, Holds
  <2>2. QED BY <1>0, <2>1, OwnershipStable
<1>8. ASSUME NEW w \in Workers, Requeue(w) PROVE Ownership'
  <2>1. /\ pq' = pq \cup {hand[w]}
        /\ UNCHANGED <<hand, created, removed>>
    BY <1>8 DEF Requeue, Enqueue, Push
  <2>2. Holders' = Holders \ {w} /\ w \in Holders /\ Submitted' = Submitted
    BY <1>8, <1>a DEF Requeue, Enqueue, Holders, Holds, Submitted
  <2>3. QED
    BY <1>0, <2>1, <2>2 DEF Ownership, Circulating, RemovedGone, ExclusiveOwner
<1>9. ASSUME NEW w \in Workers, Execute(w), ~Requeue(w), ~Finish(w) PROVE Ownership'
  <2>1. Holders' \subseteq Holders /\ UNCHANGED <<pq, created, removed, hand>>
    BY <1>9, <1>a DEF Execute, Publish, Start, Succeed, Fail, Retry, Record,
                      RequeueFails, Holders, Holds
  <2>2. QED BY <1>0, <2>1, OwnershipStable
<1>10. ASSUME NEW w \in Workers, Finish(w) PROVE Ownership'
  <2>1. /\ Holders' = Holders /\ w \notin Holders /\ Submitted' = Submitted
        /\ \A v \in Workers \ {w} : hand'[v] = hand[v]
        /\ UNCHANGED <<pq, created, removed>>
    BY <1>10, <1>a DEF Finish, Holders, Holds, Submitted
  <2>2. QED
    BY <1>0, <2>1 DEF Ownership, Circulating, RemovedGone, ExclusiveOwner, Holders
<1>11. CASE UNCHANGED vars
  BY <1>0, <1>11, OwnershipStable DEF vars, Holders, Holds
<1>12. QED
  BY <1>1, <1>2, <1>3, <1>4, <1>5, <1>6, <1>7, <1>8, <1>9, <1>10, <1>11
     DEF Next, Loop

\* Every behaviour stays in the inductive invariant.
LEMMA Invariance == Spec => []IInv
<1>1. Init => IInv
  <2>1. Init => Ownership
    BY DEF Init, NewQueue, Ownership, Circulating, RemovedGone, ExclusiveOwner,
           Holders, Holds
  <2>2. QED BY <2>1, TypeInit DEF Ownership, IInv
<1>2. IInv /\ [Next]_vars => IInv'
  BY TypeStep, OwnershipStep DEF Ownership, IInv
<1>3. QED BY <1>1, <1>2, PTL DEF Spec

\* No task is held by two workers, or waits in the queue while a worker holds
\* it, although executeTask re-enqueues a task before it clears currentTask.
THEOREM Exclusive == Spec => []ExclusiveOwner
<1>1. IInv => ExclusiveOwner
  BY DEF IInv
<1>2. QED BY <1>1, Invariance, PTL

-----------------------------------------------------------------------------
(* Accounting.                                                             *)

\* The parts a task can be in are finite, and are counted in naturals.
Countable ==
    /\ IsFiniteSet(Submitted) /\ Cardinality(Submitted) \in Nat
    /\ IsFiniteSet(pq) /\ Cardinality(pq) \in Nat
    /\ IsFiniteSet(removed) /\ Cardinality(removed) \in Nat
    /\ IsFiniteSet(Holders) /\ Cardinality(Holders) \in Nat
    /\ successCount \in Nat /\ failureCount \in Nat

\* Tasks and workers are finite in number, so the parts are.
LEMMA PartsFinite == IInv => Countable
<1> SUFFICES ASSUME IInv PROVE Countable
  OBVIOUS
<1>1. /\ Submitted \subseteq Tasks /\ pq \subseteq Tasks /\ removed \subseteq Tasks
      /\ Holders \subseteq Workers
  BY DEF IInv, TInv, TypeOK, QueueTypeOK, Submitted, Holders
<1>2. IsFiniteSet(Tasks) /\ IsFiniteSet(Workers)
  BY QueueAssumption, SchedulerAssumption
<1>3. \A S : S \subseteq Tasks \/ S \subseteq Workers => IsFiniteSet(S)
  BY <1>2, FS_Subset
<1>4. \A S : S \subseteq Tasks \/ S \subseteq Workers => Cardinality(S) \in Nat
  BY <1>3, FS_CardinalityType
<1> QED BY <1>1, <1>3, <1>4 DEF Countable, IInv, TInv, TypeOK

\* A step that changes no part and no counter changes no count.
LEMMA CountStable ==
    ASSUME Conservation, Submitted' = Submitted, Holders' = Holders,
           UNCHANGED <<pq, removed, successCount, failureCount>>
    PROVE  Conservation'
  BY DEF Conservation

\* Each step moves a task from one part to another, or none.
LEMMA CountStep == IInv /\ Conservation /\ [Next]_vars => Conservation'
<1> SUFFICES ASSUME IInv, Conservation, [Next]_vars PROVE Conservation'
  OBVIOUS
<1> USE DEF queueVars, taskVars, cancelVars, Goto, Countable
<1>f. Countable
  BY PartsFinite
<1>a. pc \in [Workers -> PC]
  BY DEF IInv, TInv, TypeOK
<1>1. ASSUME NEW t \in Tasks, Submit(t) PROVE Conservation'
  <2>1. Submitted' = Submitted \cup {t} /\ t \notin Submitted
    BY <1>1, CreateSubmits DEF Submit, IInv, TInv
  <2>2. t \notin pq
    BY <2>1 DEF IInv, Circulating
  <2>3. /\ pq' = pq \cup {t} /\ Holders' = Holders
        /\ UNCHANGED <<removed, successCount, failureCount>>
    BY <1>1 DEF Submit, Enqueue, Push, Holders, Holds
  <2>4. /\ Cardinality(Submitted \cup {t}) = Cardinality(Submitted) + 1
        /\ Cardinality(pq \cup {t}) = Cardinality(pq) + 1
    BY <1>f, <2>1, <2>2, FS_AddElement
  <2> QED BY <1>f, <2>1, <2>3, <2>4 DEF Conservation
<1>2. ASSUME NEW i \in Ids, CancelQueued(i) PROVE Conservation'
  <2> DEFINE R == {t \in pq : IdOf[t] = i}
  <2>1. pq' = pq \ R /\ removed' = removed \cup R
    BY <1>2 DEF CancelQueued, Remove
  <2>2. /\ Submitted' = Submitted /\ Holders' = Holders
        /\ UNCHANGED <<successCount, failureCount>>
    BY <1>2 DEF CancelQueued, Remove, Submitted, Holders, Holds
  <2>3. R \subseteq pq /\ removed \cap R = {} /\ pq \cap R = R
    BY DEF IInv, RemovedGone
  <2> HIDE DEF R
  <2>4. IsFiniteSet(R) /\ Cardinality(R) \in Nat
    BY <1>f, <2>3, FS_Subset, FS_CardinalityType
  <2>5. Cardinality(pq \ R) = Cardinality(pq) - Cardinality(R)
    BY <1>f, <2>3, FS_Difference
  <2>6. Cardinality(removed \cup R) = Cardinality(removed) + Cardinality(R)
    <3>1. Cardinality(removed \cap R) = 0
      BY <2>3, FS_EmptySet
    <3>2. Cardinality(removed \cup R)
            = Cardinality(removed) + Cardinality(R) - Cardinality(removed \cap R)
      BY <1>f, <2>4, FS_Union
    <3> QED BY <1>f, <2>4, <3>1, <3>2
  <2> QED BY <1>f, <2>1, <2>2, <2>4, <2>5, <2>6 DEF Conservation
<1>3. ASSUME NEW w \in Workers, Take(w) PROVE Conservation'
  <2>1. PICK t \in pq : tryDequeue(t)
    BY <1>3 DEF Take
  <2>2. /\ pq' = pq \ {t} /\ Submitted' = Submitted
        /\ UNCHANGED <<removed, successCount, failureCount>>
    BY <1>3, <2>1 DEF Take, tryDequeue, Submitted
  <2>3. Holders' = Holders \cup {w} /\ w \notin Holders
    BY <1>3, <1>a DEF Take, Holders, Holds
  <2>4. /\ Cardinality(pq \ {t}) = Cardinality(pq) - 1
        /\ Cardinality(Holders \cup {w}) = Cardinality(Holders) + 1
    BY <1>f, <2>1, <2>3, FS_AddElement, FS_RemoveElement
  <2> QED BY <1>f, <2>2, <2>3, <2>4 DEF Conservation
<1>4. ASSUME NEW w \in Workers, Requeue(w) PROVE Conservation'
  <2>1. pq' = pq \cup {hand[w]} /\ hand[w] \notin pq
    BY <1>4 DEF Requeue, Enqueue, Push, IInv, ExclusiveOwner, Holders, Holds
  <2>2. Submitted' = Submitted /\ UNCHANGED <<removed, successCount, failureCount>>
    BY <1>4 DEF Requeue, Enqueue, Submitted
  <2>3. Holders' = Holders \ {w} /\ w \in Holders
    BY <1>4, <1>a DEF Requeue, Holders, Holds
  <2>4. /\ Cardinality(pq \cup {hand[w]}) = Cardinality(pq) + 1
        /\ Cardinality(Holders \ {w}) = Cardinality(Holders) - 1
    BY <1>f, <2>1, <2>3, FS_AddElement, FS_RemoveElement
  <2> QED BY <1>f, <2>1, <2>2, <2>3, <2>4 DEF Conservation
<1>5. ASSUME NEW w \in Workers, Succeed(w) \/ Fail(w) \/ RequeueFails(w)
      PROVE  Conservation'
  <2>1. Submitted' = Submitted /\ pq' = pq /\ removed' = removed
    BY <1>5 DEF Succeed, Fail, RequeueFails, Record, Submitted
  <2>2. \/ successCount' = successCount + 1 /\ failureCount' = failureCount
        \/ successCount' = successCount /\ failureCount' = failureCount + 1
    BY <1>5 DEF Succeed, Fail, RequeueFails
  <2>3. Holders' = Holders \ {w} /\ w \in Holders
    BY <1>5, <1>a DEF Succeed, Fail, RequeueFails, Record, Holders, Holds
  <2>4. Cardinality(Holders \ {w}) = Cardinality(Holders) - 1
    BY <1>f, <2>3, FS_RemoveElement
  <2>5. Cardinality(Holders') = Cardinality(Holders) - 1
    BY <2>3, <2>4
  <2> QED BY <1>f, <2>1, <2>2, <2>5 DEF Conservation
<1>6. ASSUME NEW w \in Workers,
             Publish(w) \/ Start(w) \/ Retry(w) \/ Finish(w) \/ Park(w) \/ Wake(w)
             \/ Stop(w) \/ WakeTimeout(w) \/ CancelScan(w)
      PROVE  Conservation'
  <2>1. Holders' = Holders
    BY <1>6, <1>a
    DEF Publish, Start, Retry, Record, Finish, Park, Wake, Stop, WakeTimeout, CancelScan,
        Holders, Holds
  <2>2. Submitted' = Submitted /\ UNCHANGED <<pq, removed, successCount, failureCount>>
    BY <1>6
    DEF Publish, Start, Retry, Record, Finish, Park, Wake, Stop, WakeTimeout, CancelScan,
        Submitted
  <2> QED BY <2>1, <2>2, CountStable
<1>7. ASSUME (\E i \in Ids : CancelMiss(i)) \/ CloseBegin \/ CloseGraceful \/ CloseTimeout
      PROVE  Conservation'
  BY <1>7, CountStable
  DEF CancelMiss, CloseBegin, CloseQueue, CloseGraceful, CloseTimeout, Holders, Holds, Submitted
<1>8. CASE UNCHANGED vars
  BY <1>8, CountStable DEF vars, Holders, Holds, Submitted
<1> QED
  BY <1>1, <1>2, <1>3, <1>4, <1>5, <1>6, <1>7, <1>8 DEF Next, Loop, Execute

\* Every submitted task is waiting, held, taken out or counted, and in one of
\* these only (Submit, Cancel, executeTask).
THEOREM Counted == Spec => []Conservation
<1>1. Init => Conservation
  <2>1. SUFFICES ASSUME Init PROVE Conservation
    OBVIOUS
  <2>2. Submitted = {} /\ pq = {} /\ removed = {} /\ Holders = {} /\ successCount = 0 /\ failureCount = 0
    BY <2>1 DEF Init, NewQueue, Submitted, Holders, Holds
  <2>3. QED BY <2>2, FS_EmptySet DEF Conservation
<1>2. Spec => [](IInv /\ Conservation)
  BY <1>1, CountStep, Invariance, PTL DEF Spec
<1> QED BY <1>2, PTL

-----------------------------------------------------------------------------
(* The queue on its own.                                                   *)

\* Identifiers are generated unless a caller of WithTaskID chooses one again.
UniqueIdentifiers == \A t, u \in Tasks : IdOf[t] = IdOf[u] => t = u

\* A task is in the map under its own identifier.
FiledUnderId == \A i \in Ids : byId[i] # NoTask => IdOf[byId[i]] = i

\* The inductive invariant: a new task is in neither container, and one in the map is
\* found under its identifier, so that what a removal by identifier takes from the map is
\* what it takes from the heap.
QInv == QueueTypeOK /\ QueueConsistent /\ FiledUnderId /\ pq \subseteq Submitted

\* The map has as many entries as the heap has tasks: the size the limit is checked
\* against is the number of tasks that wait.
LEMMA SizeIsWaiting ==
    ASSUME UniqueIdentifiers, QueueTypeOK, HeapMatchesMap, FiledUnderId
    PROVE  IsFiniteSet(pq) /\ Cardinality(pq) = QueueSize /\ QueueSize \in Nat
<1> DEFINE filled == {i \in Ids : byId[i] # NoTask}
           f == [t \in pq |-> IdOf[t]]
<1>1. IsFiniteSet(pq)
  BY QueueAssumption, FS_Subset DEF QueueTypeOK
<1>2. \A t \in pq : IdOf[t] \in filled /\ byId[IdOf[t]] = t
  BY QueueAssumption DEF HeapMatchesMap, FiledUnderId, QueueTypeOK
<1>3. \A i \in filled : byId[i] \in pq /\ IdOf[byId[i]] = i
  BY DEF HeapMatchesMap, FiledUnderId
<1>4. f \in [pq -> filled]
  BY <1>2
<1>5. f \in Bijection(pq, filled)
  <2>1. \A t, u \in pq : f[t] = f[u] => t = u
    BY <1>2
  <2>2. \A i \in filled : \E t \in pq : f[t] = i
    BY <1>3
  <2> HIDE DEF f, filled
  <2> QED
    BY <1>4, <2>1, <2>2 DEF Bijection, Injection, Surjection, IsInjective
<1>6. IsFiniteSet(filled) /\ Cardinality(filled) = Cardinality(pq)
  <2>1. ExistsBijection(pq, filled)
    BY <1>5 DEF ExistsBijection
  <2> QED
    BY <1>1, <2>1, FS_Bijection
<1> QED
  BY <1>1, <1>6, FS_CardinalityType DEF QueueSize

\* Every operation of the queue preserves the invariant.
LEMMA QueueStep ==
    ASSUME UniqueIdentifiers, QInv, [QueueNext]_queueVars
    PROVE  QInv'
<1> USE QueueAssumption
<1>1. QueueTypeOK /\ HeapMatchesMap /\ HeapBounded /\ WaitingIsQueued /\ FiledUnderId /\ pq \subseteq Submitted
  BY DEF QInv, QueueConsistent
<1>2. /\ pq \subseteq Tasks /\ byId \in [Ids -> Tasks \cup {NoTask}]
      /\ status \in [Tasks -> Status] /\ created \in [Tasks -> Nat] /\ prio \in [Tasks -> Priorities]
      /\ qclosed \in BOOLEAN /\ notify \in BOOLEAN
  BY <1>1 DEF QueueTypeOK
<1>3. IsFiniteSet(pq) /\ Cardinality(pq) = QueueSize /\ QueueSize \in Nat
  BY <1>1, SizeIsWaiting
\* Who takes tasks out does not exceed the limit.
<1>4. ASSUME pq' \subseteq pq PROVE HeapBounded'
  <2>1. IsFiniteSet(pq') /\ Cardinality(pq') <= Cardinality(pq) /\ Cardinality(pq') \in Nat
    BY <1>3, <1>4, FS_Subset, FS_CardinalityType
  <2> QED
    BY <1>1, <1>3, <2>1 DEF HeapBounded
<1>5. ASSUME NEW t \in Tasks, EnqueueNew(t) PROVE QInv'
  <2>1. /\ t \notin Submitted /\ ~IsFull
        /\ created' = [created EXCEPT ![t] = Cardinality(Submitted) + 1]
        /\ pq' = pq \cup {t} /\ byId' = [byId EXCEPT ![IdOf[t]] = t] /\ notify' = TRUE
        /\ status' = [status EXCEPT ![t] = "queued"]
        /\ UNCHANGED <<qclosed, prio>>
    BY <1>5 DEF EnqueueNew, Create, Enqueue, Push
  <2>2. Cardinality(Submitted) + 1 \in Nat \ {0}
    BY FS_Subset, FS_CardinalityType DEF Submitted
  <2>3. created' \in [Tasks -> Nat] /\ Submitted' = Submitted \cup {t}
    BY <1>2, <2>1, <2>2 DEF Submitted
  <2>4. t \notin pq /\ IdOf[t] \in Ids
    BY <1>1, <2>1
  <2>5. QueueTypeOK'
    BY <1>2, <2>1, <2>3 DEF QueueTypeOK, Status
  <2>6. byId[IdOf[t]] = NoTask
    BY <1>1, <1>2, <2>4 DEF UniqueIdentifiers, HeapMatchesMap, FiledUnderId
  <2>7. HeapMatchesMap' /\ FiledUnderId'
    BY <1>1, <1>2, <2>1, <2>4, <2>6 DEF HeapMatchesMap, FiledUnderId
  <2>8. HeapBounded'
    <3>1. Cardinality(pq') = Cardinality(pq) + 1
      BY <1>3, <2>1, <2>4, FS_AddElement
    <3> QED
      BY <1>3, <2>1, <3>1 DEF HeapBounded, IsFull
  <2>9. WaitingIsQueued'
    BY <1>1, <1>2, <2>1 DEF WaitingIsQueued
  <2> QED
    BY <1>1, <2>1, <2>3, <2>5, <2>7, <2>8, <2>9 DEF QInv, QueueConsistent
<1>6. ASSUME NEW t \in Tasks, Dequeue(t) PROVE QInv'
  <2>1. /\ t \in pq /\ pq' = pq \ {t} /\ byId' = [byId EXCEPT ![IdOf[t]] = NoTask]
        /\ UNCHANGED <<qclosed, notify, status, prio, created>>
    BY <1>6 DEF Dequeue, tryDequeue, Peek
  <2>2. byId[IdOf[t]] = t /\ \A i \in Ids : byId[i] = t => i = IdOf[t]
    BY <1>1, <1>2, <2>1 DEF HeapMatchesMap, FiledUnderId
  <2>3. QueueTypeOK' /\ WaitingIsQueued' /\ Submitted' = Submitted
    BY <1>1, <1>2, <2>1 DEF QueueTypeOK, WaitingIsQueued, Submitted
  <2>4. HeapMatchesMap' /\ FiledUnderId'
    BY <1>1, <1>2, <2>1, <2>2 DEF HeapMatchesMap, FiledUnderId
  <2> QED
    BY <1>1, <1>4, <2>1, <2>3, <2>4 DEF QInv, QueueConsistent
<1>7. ASSUME NEW i \in Ids, Remove(i) PROVE QInv'
  <2>1. /\ byId[i] # NoTask /\ status' = [status EXCEPT ![byId[i]] = "canceled"]
        /\ byId' = [byId EXCEPT ![i] = NoTask] /\ pq' = {t \in pq : IdOf[t] # i}
        /\ UNCHANGED <<qclosed, notify, prio, created>>
    BY <1>7 DEF Remove
  <2>2. \A t \in pq : IdOf[t] = i <=> t = byId[i]
    BY <1>1, <1>2, <2>1 DEF UniqueIdentifiers, FiledUnderId
  <2>3. QueueTypeOK' /\ Submitted' = Submitted
    BY <1>1, <1>2, <2>1 DEF QueueTypeOK, Submitted, Status
  <2>4. WaitingIsQueued'
    BY <1>1, <1>2, <2>1, <2>2 DEF WaitingIsQueued
  <2>5. HeapMatchesMap' /\ FiledUnderId'
    BY <1>1, <1>2, <2>1, <2>2 DEF HeapMatchesMap, FiledUnderId
  <2> QED
    BY <1>1, <1>4, <2>1, <2>3, <2>4, <2>5 DEF QInv, QueueConsistent
<1>8. ASSUME NEW i \in Ids, NEW p \in Priorities, UpdatePriority(i, p) PROVE QInv'
  <2>1. /\ prio' = [prio EXCEPT ![byId[i]] = p]
        /\ UNCHANGED <<pq, byId, qclosed, notify, status, created>>
    BY <1>8 DEF UpdatePriority
  <2>2. prio' \in [Tasks -> Priorities]
    BY <1>2, <2>1
  <2> QED
    BY <1>1, <1>2, <1>4, <2>1, <2>2 DEF QInv, QueueTypeOK, QueueConsistent, HeapMatchesMap, WaitingIsQueued,
       FiledUnderId, Submitted
<1>9. CASE Clear
  <2>1. /\ pq' = {} /\ byId' = [i \in Ids |-> NoTask] /\ UNCHANGED <<qclosed, notify, prio, created>>
        /\ status' \in [Tasks -> Status]
    BY <1>2, <1>9 DEF Clear, Status
  <2> QED
    BY <1>1, <1>2, <1>4, <2>1 DEF QInv, QueueTypeOK, QueueConsistent, HeapMatchesMap, WaitingIsQueued,
       FiledUnderId, Submitted
<1>10. CASE AwaitNotify \/ CloseQueue \/ UNCHANGED queueVars
  <2>1. UNCHANGED <<pq, byId, status, prio, created>> /\ qclosed' \in BOOLEAN /\ notify' \in BOOLEAN
    BY <1>2, <1>10 DEF AwaitNotify, CloseQueue, queueVars
  <2> QED
    BY <1>1, <1>2, <1>4, <2>1 DEF QInv, QueueTypeOK, QueueConsistent, HeapMatchesMap, WaitingIsQueued,
       FiledUnderId, Submitted
<1> QED
  BY <1>5, <1>6, <1>7, <1>8, <1>9, <1>10 DEF QueueNext

\* Driven by any callers, a queue of tasks with identifiers of their own keeps heap and
\* map the same, and no more tasks wait than the limit allows, all of them in status
\* queued (queue.go: Enqueue, tryDequeue, Remove, Clear).
THEOREM QueueStaysConsistent ==
    ASSUME UniqueIdentifiers
    PROVE  QueueSpec => []QueueConsistent
<1>1. NewQueue => QInv
  <2> SUFFICES ASSUME NewQueue PROVE QInv
    OBVIOUS
  <2>1. QueueTypeOK /\ HeapMatchesMap /\ FiledUnderId /\ WaitingIsQueued /\ pq \subseteq Submitted
    BY QueueAssumption DEF NewQueue, QueueTypeOK, HeapMatchesMap, FiledUnderId, WaitingIsQueued, Status
  <2>2. HeapBounded
    BY QueueAssumption, FS_EmptySet DEF NewQueue, HeapBounded
  <2> QED
    BY <2>1, <2>2 DEF QInv, QueueConsistent
<1>2. QInv /\ [QueueNext]_queueVars => QInv'
  BY QueueStep
<1>3. QInv => QueueConsistent
  BY DEF QInv
<1> QED
  BY <1>1, <1>2, <1>3, PTL DEF QueueSpec

-----------------------------------------------------------------------------
(* Outcomes.                                                               *)

Settled == {"completed", "failed"}

\* A task that is new, waits, or is held by a worker has no outcome.
Unsettled ==
    /\ \A t \in Tasks : t \notin Submitted \/ t \in pq => status[t] \notin Settled
    /\ \A w \in Holders : status[hand[w]] \notin Settled

\* A task has run once per retry, and once more from the start of its handler
\* until the retry is counted.
RunsMatch ==
    /\ \A t \in Tasks : retries[t] <= MaxRetries /\ runs[t] <= retries[t] + 1
    /\ \A t \in Tasks : t \notin Submitted \/ t \in pq => runs[t] <= retries[t]
    /\ \A w \in Holders : pc[w] # "running" => runs[hand[w]] <= retries[hand[w]]

\* What the outcome of a task depends on, beside who owns it.
OutInv == Unsettled /\ RunsMatch /\ ClosedMeansQuiet

\* Steps that change neither counts nor status, and let no worker get hold of a
\* task, keep the outcomes.
LEMMA OutStable ==
    ASSUME IInv, Unsettled, RunsMatch, UNCHANGED <<status, created, hand, retries, runs>>,
           pq' \subseteq pq, Holders' \subseteq Holders,
           \A w \in Holders' : pc'[w] = pc[w]
    PROVE  Unsettled' /\ RunsMatch'
  BY DEF Unsettled, RunsMatch, Submitted

\* A step of the worker w with the task t it holds, which changes nothing of
\* other tasks and workers.
OfWorker(w, t) ==
    /\ \A u \in Tasks \ {t} : status'[u] = status[u] /\ retries'[u] = retries[u] /\ runs'[u] = runs[u]
    /\ \A v \in Workers \ {w} : pc'[v] = pc[v]
    /\ UNCHANGED <<hand, created>>
    /\ pq' \subseteq pq \cup {t}

\* Such a step keeps the outcomes if it keeps those of its task.
LEMMA OutOfWorker ==
    ASSUME IInv, Unsettled, RunsMatch, NEW w \in Holders, OfWorker(w, hand[w]),
           retries'[hand[w]] <= MaxRetries, runs'[hand[w]] <= retries'[hand[w]] + 1,
           hand[w] \in pq' \/ w \in Holders' => status'[hand[w]] \notin Settled,
           hand[w] \in pq' \/ (w \in Holders' /\ pc'[w] # "running") => runs'[hand[w]] <= retries'[hand[w]]
    PROVE  Unsettled' /\ RunsMatch'
<1> DEFINE t == hand[w]
<1>1. t \in Tasks /\ t \in Submitted /\ w \in Workers
  BY DEF IInv, TInv, HandTyped, Circulating, Holders
<1>2. \A v \in Holders' : v # w => v \in Holders /\ hand'[v] = hand[v] /\ hand[v] # t /\ hand[v] \in Tasks /\ pc'[v] = pc[v]
  <2> SUFFICES ASSUME NEW v \in Holders', v # w
               PROVE  v \in Holders /\ hand'[v] = hand[v] /\ hand[v] # t /\ hand[v] \in Tasks /\ pc'[v] = pc[v]
    OBVIOUS
  <2>1. v \in Workers /\ pc'[v] = pc[v] /\ hand' = hand
    BY DEF Holders, OfWorker
  <2>2. v \in Holders
    BY <2>1 DEF Holders, Holds
  <2> QED
    BY <2>1, <2>2 DEF IInv, ExclusiveOwner, TInv, HandTyped
<1>3. Submitted' = Submitted /\ hand' = hand
  BY DEF OfWorker, Submitted
<1>4. \A u \in Tasks : u # t => /\ status'[u] = status[u] /\ retries'[u] = retries[u] /\ runs'[u] = runs[u]
                                /\ u \in pq' => u \in pq
  BY DEF OfWorker
<1> HIDE DEF t
<1>5. Unsettled'
  <2>1. ASSUME NEW u \in Tasks, u \notin Submitted' \/ u \in pq' PROVE status'[u] \notin Settled
    BY <1>1, <1>3, <1>4, <2>1 DEF Unsettled, t
  <2>2. ASSUME NEW v \in Holders' PROVE status'[hand'[v]] \notin Settled
    BY <1>2, <1>3, <1>4, <2>2 DEF Unsettled, t
  <2> QED
    BY <2>1, <2>2 DEF Unsettled
<1>6. RunsMatch'
  <2>1. ASSUME NEW u \in Tasks PROVE retries'[u] <= MaxRetries /\ runs'[u] <= retries'[u] + 1
    BY <1>4, <2>1 DEF RunsMatch, t
  <2>2. ASSUME NEW u \in Tasks, u \notin Submitted' \/ u \in pq' PROVE runs'[u] <= retries'[u]
    <3>1. CASE u = t
      BY <1>1, <1>3, <2>2, <3>1 DEF t
    <3>2. CASE u # t
      <4>1. u \notin Submitted \/ u \in pq
        BY <1>3, <1>4, <2>2, <3>2
      <4> QED
        BY <1>4, <3>2, <4>1 DEF RunsMatch
    <3> QED
      BY <3>1, <3>2
  <2>3. ASSUME NEW v \in Holders', pc'[v] # "running" PROVE runs'[hand'[v]] <= retries'[hand'[v]]
    BY <1>2, <1>3, <1>4, <2>3 DEF RunsMatch, t
  <2> QED
    BY <2>1, <2>2, <2>3 DEF RunsMatch
<1> QED
  BY <1>5, <1>6

\* What the handler's start, its return and a retry do to the task that is held.
LEMMA OutExecute ==
    ASSUME IInv, Unsettled, RunsMatch, NEW w \in Workers,
           \/ Publish(w) \/ Start(w) \/ Succeed(w) \/ Fail(w) \/ Retry(w) \/ Requeue(w) \/ RequeueFails(w)
    PROVE  Unsettled' /\ RunsMatch'
<1> USE DEF queueVars, taskVars, cancelVars, Goto
<1> DEFINE t == hand[w]
<1>1. w \in Holders /\ t \in Tasks
  BY DEF Holders, Holds, IInv, TInv, HandTyped, Publish, Start, Succeed, Fail, Retry, Record, Requeue, RequeueFails
<1>2. /\ pc \in [Workers -> PC] /\ hand \in [Workers -> Tasks \cup {NoTask}]
      /\ retries \in [Tasks -> Nat] /\ runs \in [Tasks -> Nat] /\ status \in [Tasks -> Status]
      /\ retries[t] \in Nat /\ runs[t] \in Nat /\ MaxRetries \in Nat
  BY <1>1, SchedulerAssumption DEF IInv, TInv, TypeOK, QueueTypeOK
<1>3. /\ t \notin pq /\ status[t] \notin Settled
      /\ retries[t] <= MaxRetries /\ runs[t] <= retries[t] + 1
      /\ pc[w] # "running" => runs[t] <= retries[t]
  BY <1>1 DEF IInv, ExclusiveOwner, Unsettled, RunsMatch
<1>4. OfWorker(w, t)
  <2>1. CASE Publish(w)
    BY <1>1, <1>2, <2>1 DEF Publish, OfWorker
  <2>2. CASE Start(w)
    BY <1>1, <1>2, <2>2 DEF Start, OfWorker
  <2>3. CASE Succeed(w) \/ Fail(w)
    BY <1>1, <1>2, <2>3 DEF Succeed, Fail, Record, OfWorker
  <2>4. CASE Retry(w)
    BY <1>1, <1>2, <2>4 DEF Retry, Record, OfWorker
  <2>5. CASE Requeue(w)
    BY <1>1, <1>2, <2>5 DEF Requeue, Enqueue, Push, OfWorker
  <2>6. CASE RequeueFails(w)
    BY <1>1, <1>2, <2>6 DEF RequeueFails, OfWorker
  <2> QED
    BY <2>1, <2>2, <2>3, <2>4, <2>5, <2>6
<1>5. /\ retries'[t] <= MaxRetries /\ runs'[t] <= retries'[t] + 1
      /\ t \in pq' \/ w \in Holders' => status'[t] \notin Settled
      /\ t \in pq' \/ (w \in Holders' /\ pc'[w] # "running") => runs'[t] <= retries'[t]
  <2>1. CASE Publish(w)
    BY <1>1, <1>2, <1>3, <2>1 DEF Publish
  <2>2. CASE Start(w)
    <3>1. pc[w] = "published" /\ pc'[w] = "running" /\ status'[t] = "running" /\ runs'[t] = runs[t] + 1
          /\ retries' = retries /\ pq' = pq
      BY <1>1, <1>2, <2>2 DEF Start
    <3> QED
      BY <1>2, <1>3, <3>1 DEF Settled
  <2>3. CASE Succeed(w) \/ Fail(w)
    <3>1. pc'[w] = "finish" /\ retries' = retries /\ runs' = runs /\ pq' = pq
      BY <1>1, <1>2, <2>3 DEF Succeed, Fail, Record
    <3> QED
      BY <1>2, <1>3, <3>1 DEF Holders, Holds
  <2>4. CASE Retry(w)
    <3>1. status'[t] = "queued" /\ retries[t] < MaxRetries /\ retries'[t] = retries[t] + 1 /\ runs' = runs /\ pq' = pq
      BY <1>1, <1>2, <2>4 DEF Retry, Record
    <3> QED
      BY <1>2, <1>3, <3>1 DEF Settled
  <2>5. CASE Requeue(w)
    <3>1. pc[w] = "requeue" /\ status'[t] = "queued" /\ retries' = retries /\ runs' = runs
      BY <1>1, <1>2, <2>5 DEF Requeue, Enqueue, Push
    <3> QED
      BY <1>2, <1>3, <3>1 DEF Settled
  <2>6. CASE RequeueFails(w)
    <3>1. pc'[w] = "finish" /\ retries' = retries /\ runs' = runs /\ pq' = pq
      BY <1>1, <1>2, <2>6 DEF RequeueFails
    <3> QED
      BY <1>2, <1>3, <3>1 DEF Holders, Holds
  <2> QED
    BY <2>1, <2>2, <2>3, <2>4, <2>5, <2>6
<1> QED
  BY <1>1, <1>4, <1>5, OutOfWorker

\* Every step keeps the outcomes.
LEMMA OutStep == IInv /\ OutInv /\ [Next]_vars => OutInv'
<1> SUFFICES ASSUME IInv, OutInv, [Next]_vars PROVE OutInv'
  OBVIOUS
<1> USE DEF queueVars, taskVars, cancelVars, Goto
<1>a. /\ pc \in [Workers -> PC] /\ hand \in [Workers -> Tasks \cup {NoTask}]
      /\ status \in [Tasks -> Status] /\ Unsettled /\ RunsMatch
  BY DEF IInv, TInv, TypeOK, QueueTypeOK, OutInv
<1>b. ClosedMeansQuiet'
  <2>1. CASE UNCHANGED <<sched, pc>>
    BY <2>1 DEF OutInv, ClosedMeansQuiet
  <2>2. CASE CloseBegin \/ CloseGraceful \/ CloseTimeout
    BY <2>2 DEF CloseBegin, CloseGraceful, CloseTimeout, ClosedMeansQuiet
  <2>3. ASSUME NEW w \in Workers, Loop(w) \/ WakeTimeout(w) \/ Execute(w) PROVE ClosedMeansQuiet'
    <3>1. sched' = sched /\ pc[w] # "stopped"
      BY <2>3 DEF Loop, Take, Park, Wake, Stop, WakeTimeout, Execute, Publish, Start, Succeed, Fail, Retry,
                  Record, Requeue, RequeueFails, Finish
    <3> QED
      BY <3>1 DEF OutInv, ClosedMeansQuiet
  <2>4. ASSUME NEW t \in Tasks, Submit(t) PROVE UNCHANGED <<sched, pc>>
    BY <2>4 DEF Submit
  <2>5. ASSUME NEW i \in Ids, CancelQueued(i) \/ CancelMiss(i) PROVE UNCHANGED <<sched, pc>>
    BY <2>5 DEF CancelQueued, CancelMiss
  <2>6. ASSUME NEW w \in Workers, CancelScan(w) PROVE UNCHANGED <<sched, pc>>
    BY <2>6 DEF CancelScan
  <2> QED
    BY <2>1, <2>2, <2>3, <2>4, <2>5, <2>6 DEF Next, vars
<1>1. ASSUME NEW t \in Tasks, Submit(t) PROVE Unsettled' /\ RunsMatch'
  <2>1. /\ t \notin Submitted /\ status' = [status EXCEPT ![t] = "queued"] /\ pq' = pq \cup {t}
        /\ UNCHANGED <<hand, pc, retries, runs>>
    BY <1>1 DEF Submit, Enqueue, Push
  <2>2. Submitted' = Submitted \cup {t}
    BY <1>1, CreateSubmits DEF Submit, IInv, TInv
  <2>3. Holders' = Holders /\ \A w \in Holders : hand[w] # t
    BY <2>1 DEF Holders, Holds, IInv, Circulating
  <2>4. status'[t] = "queued" /\ \A u \in Tasks \ {t} : status'[u] = status[u]
    BY <1>a, <2>1
  <2>5. Unsettled'
    <3>1. \A w \in Holders : hand[w] \in Tasks
      BY DEF IInv, TInv, HandTyped
    <3> QED
      BY <1>a, <2>1, <2>2, <2>3, <2>4, <3>1 DEF Unsettled, Settled
  <2>6. RunsMatch'
    BY <1>a, <2>1, <2>2, <2>3 DEF RunsMatch
  <2> QED
    BY <2>5, <2>6
<1>2. ASSUME NEW S \in SUBSET Tasks, \A u \in Tasks : status'[u] = IF u \in S THEN "canceled" ELSE status[u],
             pq' \subseteq pq, UNCHANGED <<created, hand, pc, retries, runs>>
      PROVE  Unsettled' /\ RunsMatch'
  <2>1. Submitted' = Submitted /\ Holders' = Holders
    BY <1>2 DEF Submitted, Holders, Holds
  <2>2. \A u \in Tasks : status[u] \notin Settled => status'[u] \notin Settled
    BY <1>2 DEF Settled
  <2>3. \A w \in Holders : hand[w] \in Tasks
    BY DEF IInv, TInv, HandTyped
  <2> QED
    BY <1>2, <1>a, <2>1, <2>2, <2>3 DEF Unsettled, RunsMatch
<1>3. ASSUME NEW i \in Ids, CancelQueued(i) PROVE Unsettled' /\ RunsMatch'
  <2>1. byId[i] \in Tasks
    BY <1>3 DEF CancelQueued, Remove, IInv, TInv, TypeOK, QueueTypeOK
  <2>2. /\ \A u \in Tasks : status'[u] = IF u \in {byId[i]} THEN "canceled" ELSE status[u]
        /\ pq' \subseteq pq /\ UNCHANGED <<created, hand, pc, retries, runs>>
    BY <1>3, <1>a DEF CancelQueued, Remove
  <2> QED
    BY <1>2, <2>1, <2>2
<1>4. ASSUME NEW w \in Workers, CancelScan(w) PROVE Unsettled' /\ RunsMatch'
  <2>1. CASE current[w] # NoTask /\ IdOf[current[w]] = cancelId
    <3>1. current[w] \in Tasks
      BY <2>1 DEF IInv, TInv, TypeOK
    <3>2. /\ \A u \in Tasks : status'[u] = IF u \in {current[w]} THEN "canceled" ELSE status[u]
          /\ pq' \subseteq pq /\ UNCHANGED <<created, hand, pc, retries, runs>>
      BY <1>4, <1>a, <2>1 DEF CancelScan
    <3> QED
      BY <1>2, <3>1, <3>2
  <2>2. CASE UNCHANGED status
    <3>1. UNCHANGED <<pq, pc, created, hand, retries, runs>>
      BY <1>4 DEF CancelScan
    <3> QED
      BY <1>a, <2>2, <3>1, OutStable DEF Holders, Holds
  <2> QED
    BY <1>4, <2>1, <2>2 DEF CancelScan
<1>5. ASSUME NEW w \in Workers, Take(w) PROVE Unsettled' /\ RunsMatch'
  <2>1. PICK t \in pq : tryDequeue(t) /\ hand' = [hand EXCEPT ![w] = t]
    BY <1>5 DEF Take
  <2>2. /\ pq' = pq \ {t} /\ hand'[w] = t /\ t \in Tasks
        /\ \A v \in Workers \ {w} : hand'[v] = hand[v] /\ pc'[v] = pc[v]
        /\ UNCHANGED <<status, created, retries, runs>>
    BY <1>5, <1>a, <2>1 DEF Take, tryDequeue, IInv, TInv, TypeOK, QueueTypeOK
  <2>3. Holders' = Holders \cup {w} /\ w \notin Holders /\ Submitted' = Submitted
    BY <1>5, <1>a DEF Take, Holders, Holds, Submitted
  <2>4. Unsettled'
    BY <1>a, <2>1, <2>2, <2>3 DEF Unsettled, Holders
  <2>5. RunsMatch'
    BY <1>a, <2>1, <2>2, <2>3 DEF RunsMatch, Holders
  <2> QED
    BY <2>4, <2>5
<1>6. ASSUME NEW w \in Workers, Park(w) \/ Wake(w) \/ Stop(w) \/ WakeTimeout(w)
      PROVE  Unsettled' /\ RunsMatch'
  <2>1. /\ UNCHANGED <<pq, status, created, hand, retries, runs>>
        /\ Holders' \subseteq Holders /\ \A v \in Holders' : pc'[v] = pc[v]
    BY <1>6, <1>a DEF Park, Wake, Stop, WakeTimeout, Holders, Holds
  <2> QED
    BY <1>a, <2>1, OutStable
<1>7. ASSUME NEW w \in Workers, Finish(w) PROVE Unsettled' /\ RunsMatch'
  <2>1. /\ Holders' = Holders /\ w \notin Holders /\ Submitted' = Submitted
        /\ \A v \in Workers \ {w} : hand'[v] = hand[v] /\ pc'[v] = pc[v]
        /\ UNCHANGED <<pq, status, retries, runs>>
    BY <1>7, <1>a DEF Finish, Holders, Holds, Submitted
  <2>2. \A v \in Holders : hand'[v] = hand[v] /\ pc'[v] = pc[v]
    BY <2>1 DEF Holders
  <2> QED
    BY <1>a, <2>1, <2>2 DEF Unsettled, RunsMatch
<1>8. ASSUME (\E i \in Ids : CancelMiss(i)) \/ CloseBegin \/ CloseGraceful \/ CloseTimeout \/ UNCHANGED vars
      PROVE  Unsettled' /\ RunsMatch'
  <2>1. UNCHANGED <<pq, pc, status, created, hand, retries, runs>>
    BY <1>8 DEF CancelMiss, CloseBegin, CloseQueue, CloseGraceful, CloseTimeout, vars
  <2> QED
    <3>1. Holders' = Holders
      BY <2>1 DEF Holders, Holds
    <3> QED
      BY <1>a, <2>1, <3>1, OutStable
<1>9. Unsettled' /\ RunsMatch'
  <2>1. CASE \E x \in Tasks : Submit(x)
    BY <1>1, <2>1
  <2>2. CASE \E i \in Ids : CancelQueued(i)
    BY <1>3, <2>2
  <2>3. CASE \E w \in Workers : CancelScan(w)
    BY <1>4, <2>3
  <2>4. CASE \E w \in Workers : Loop(w) \/ WakeTimeout(w)
    BY <1>5, <1>6, <2>4 DEF Loop
  <2>5. CASE \E w \in Workers : Execute(w)
    BY <1>a, <1>7, <2>5, OutExecute DEF Execute
  <2> QED
    BY <1>8, <2>1, <2>2, <2>3, <2>4, <2>5 DEF Next, vars
<1> QED
  BY <1>b, <1>9 DEF OutInv

\* Every behaviour stays in the invariants of owners and outcomes.
LEMMA OutInvariance == Spec => [](IInv /\ OutInv)
<1>1. Init => OutInv
  <2> SUFFICES ASSUME Init PROVE OutInv
    OBVIOUS
  <2>1. Holders = {} /\ pq = {} /\ sched = "open" /\ \A t \in Tasks : status[t] = "none" /\ retries[t] = 0 /\ runs[t] = 0
    BY DEF Init, NewQueue, Holders, Holds
  <2> QED
    BY <2>1, SchedulerAssumption DEF OutInv, Unsettled, Settled, RunsMatch, ClosedMeansQuiet
<1> QED
  BY <1>1, OutStep, Invariance, PTL DEF Spec

\* A step starts the handler of a task its worker holds, or none.
LEMMA OutMoves ==
    IInv /\ OutInv /\ [Next]_vars =>
        /\ \A t \in removed : runs'[t] = runs[t]
        /\ \A t \in Tasks : status[t] \in Settled => status'[t] \in {status[t], "canceled"}
<1> SUFFICES ASSUME IInv, OutInv, [Next]_vars
             PROVE  /\ \A t \in removed : runs'[t] = runs[t]
                    /\ \A t \in Tasks : status[t] \in Settled => status'[t] \in {status[t], "canceled"}
  OBVIOUS
<1> USE DEF queueVars, taskVars, cancelVars, Goto
<1>1. runs \in [Tasks -> Nat] /\ status \in [Tasks -> Status] /\ removed \subseteq Tasks
  BY DEF IInv, TInv, TypeOK, QueueTypeOK
<1>2. \A w \in Holders : hand[w] \notin removed /\ status[hand[w]] \notin Settled
  BY DEF IInv, RemovedGone, OutInv, Unsettled
<1>3. CASE UNCHANGED <<runs, status>>
  BY <1>3
<1>4. ASSUME NEW t \in Tasks, Submit(t) PROVE runs' = runs /\ status' = [status EXCEPT ![t] = "queued"] /\ status[t] \notin Settled
  BY <1>4 DEF Submit, Enqueue, Push, OutInv, Unsettled
<1>5. ASSUME NEW i \in Ids, CancelQueued(i) PROVE runs' = runs /\ \A t \in Tasks : status'[t] \in {status[t], "canceled"}
  BY <1>1, <1>5 DEF CancelQueued, Remove
<1>6. ASSUME NEW w \in Workers, CancelScan(w) PROVE runs' = runs /\ \A t \in Tasks : status'[t] \in {status[t], "canceled"}
  BY <1>1, <1>6 DEF CancelScan
<1>7. ASSUME NEW w \in Workers, Execute(w), ~Finish(w)
      PROVE  /\ w \in Holders
             /\ \A t \in Tasks : t # hand[w] => runs'[t] = runs[t] /\ status'[t] = status[t]
  <2>1. w \in Holders
    BY <1>7 DEF Execute, Publish, Start, Succeed, Fail, Retry, Record, Requeue, RequeueFails, Holders, Holds
  <2>2. \A t \in Tasks : t # hand[w] => runs'[t] = runs[t]
    BY <1>1, <1>7 DEF Execute, Publish, Start, Succeed, Fail, Retry, Record, Requeue, RequeueFails
  <2>3. \A t \in Tasks : t # hand[w] => status'[t] = status[t]
    BY <1>1, <1>7 DEF Execute, Publish, Start, Succeed, Fail, Retry, Record, Requeue, RequeueFails, Enqueue, Push
  <2> QED
    BY <2>1, <2>2, <2>3
<1>8. ASSUME NEW w \in Workers, Loop(w) \/ WakeTimeout(w) \/ Finish(w) PROVE UNCHANGED <<runs, status>>
  BY <1>8 DEF Loop, Take, Park, Wake, Stop, WakeTimeout, Finish
<1>9. CASE (\E i \in Ids : CancelMiss(i)) \/ CloseBegin \/ CloseGraceful \/ CloseTimeout \/ UNCHANGED vars
  BY <1>9 DEF CancelMiss, CloseBegin, CloseQueue, CloseGraceful, CloseTimeout, vars
<1>10. CASE \E t \in Tasks : Submit(t)
  BY <1>1, <1>4, <1>10
<1>11. CASE \E i \in Ids : CancelQueued(i)
  BY <1>5, <1>11
<1>12. CASE \E w \in Workers : CancelScan(w)
  BY <1>6, <1>12
<1>13. CASE \E w \in Workers : Execute(w) /\ ~Finish(w)
  BY <1>1, <1>2, <1>7, <1>13
<1>14. CASE \E w \in Workers : Loop(w) \/ WakeTimeout(w) \/ Finish(w)
  BY <1>3, <1>8, <1>14
<1> QED
  BY <1>3, <1>9, <1>10, <1>11, <1>12, <1>13, <1>14 DEF Next, vars

\* What becomes of a task, for any number of tasks and workers: its handler runs
\* at most once more than its retries, not at all once it was canceled in the
\* queue nor after Close has returned, and an outcome is final but for a late
\* Cancel (executeTask, Cancel, Close).
THEOREM OutcomesStayFinal == Spec => TaskOutcomes
<1>1. IInv /\ OutInv => TypeOK /\ RunsBounded /\ ClosedMeansQuiet
  <2> SUFFICES ASSUME IInv, OutInv PROVE RunsBounded
    BY DEF IInv, TInv, OutInv
  <2>1. \A t \in Tasks : runs[t] \in Nat /\ retries[t] \in Nat /\ MaxRetries \in Nat
    BY SchedulerAssumption DEF IInv, TInv, TypeOK
  <2> QED
    BY <2>1 DEF OutInv, RunsMatch, RunsBounded
<1>2. IInv /\ OutInv /\ [Next]_vars => [\A t \in removed : runs'[t] = runs[t]]_vars
  BY OutMoves
<1>3. IInv /\ OutInv /\ [Next]_vars =>
        [\A t \in Tasks : status[t] \in {"completed", "failed"} => status'[t] \in {status[t], "canceled"}]_vars
  BY OutMoves DEF Settled
<1>4. Spec => [](TypeOK /\ RunsBounded /\ ClosedMeansQuiet)
  BY <1>1, OutInvariance, PTL
<1>5. Spec => RemovedNeverRuns
  BY <1>2, OutInvariance, PTL DEF Spec, RemovedNeverRuns
<1>6. Spec => OutcomeOnlyCanceled
  BY <1>3, OutInvariance, PTL DEF Spec, OutcomeOnlyCanceled
<1> QED
  BY <1>4, <1>5, <1>6 DEF TaskOutcomes

-----------------------------------------------------------------------------
(* The locks of the provider registry.                                     *)

WriteOps == {"fail", "succeed", "reset", "resetAll", "setHealth", "register", "unregister", "close", "record"}

\* Every writing call has its lock.
LEMMA WriteLocks ==
    /\ DOMAIN WriteLock = WriteOps
    /\ \A op \in WriteOps : WriteLock[op] \in Locks
    /\ \A op \in {"fail", "succeed", "reset", "resetAll"} : WriteLock[op] = "failover"
    /\ \A op \in {"register", "unregister", "close"} : WriteLock[op] = "registry"
    /\ WriteLock["setHealth"] = "health" /\ WriteLock["record"] = "account"
BY DEF WriteLock, WriteOps, Locks

\* The calls that hold a lock while they take another one.
LEMMA NestedLocks ==
    /\ DOMAIN Nested = {"check", "states", "stats"}
    /\ Nested["check"][1] = "health" /\ Nested["check"][2] = "registry"
    /\ Nested["states"][1] = "failover" /\ Nested["states"][2] = "failover"
    /\ Nested["stats"][1] = "account" /\ Nested["stats"][2] = "account"
BY DEF Nested

\* A mutex, and all of them.
Mutex == [readers : [PrCallers -> {0, 1}], writer : SUBSET PrCallers, waiting : SUBSET PrCallers]
LockTable == [Locks -> Mutex]

\* Only t's place at l differs between two tables.
OthersKeep(a, b, t) ==
    \A l \in Locks : \A u \in PrCallers \ {t} :
        /\ b[l].readers[u] = a[l].readers[u]
        /\ u \in b[l].writer <=> u \in a[l].writer
        /\ u \in b[l].waiting <=> u \in a[l].waiting

\* A lock is taken for reading or given back.
LEMMA ReadHeldIs ==
    ASSUME NEW a \in LockTable, NEW t \in PrCallers, NEW l \in Locks, NEW d \in {0, 1}
    PROVE  LET b == ReadHeld(a, t, l, d)
           IN  /\ b \in LockTable /\ OthersKeep(a, b, t)
               /\ b[l].readers[t] = d
               /\ \A m \in Locks \ {l} : b[m] = a[m]
               /\ b[l].writer = a[l].writer /\ b[l].waiting = a[l].waiting
BY DEF ReadHeld, LockTable, Mutex, OthersKeep

\* A writer gets into the queue.
LEMMA WaitingIs ==
    ASSUME NEW a \in LockTable, NEW t \in PrCallers, NEW l \in Locks
    PROVE  LET b == Waiting(a, t, l)
           IN  /\ b \in LockTable /\ OthersKeep(a, b, t)
               /\ t \in b[l].waiting
               /\ \A m \in Locks \ {l} : b[m] = a[m]
               /\ b[l].writer = a[l].writer /\ b[l].readers = a[l].readers
BY DEF Waiting, LockTable, Mutex, OthersKeep

\* A free lock is taken for writing.
LEMMA WriteHeldIs ==
    ASSUME NEW a \in LockTable, NEW t \in PrCallers, NEW l \in Locks, a[l].writer = {}
    PROVE  LET b == WriteHeld(a, t, l)
           IN  /\ b \in LockTable /\ OthersKeep(a, b, t)
               /\ t \notin b[l].waiting /\ t \in b[l].writer
               /\ \A m \in Locks \ {l} : b[m] = a[m]
               /\ b[l].readers = a[l].readers
BY DEF WriteHeld, LockTable, Mutex, OthersKeep

\* A lock is taken for writing and given back, or given back.
LEMMA WrittenIs ==
    ASSUME NEW a \in LockTable, NEW t \in PrCallers, NEW l \in Locks
    PROVE  LET b == Written(a, t, l)
           IN  /\ b \in LockTable /\ OthersKeep(a, b, t)
               /\ t \notin b[l].waiting /\ t \notin b[l].writer
               /\ \A m \in Locks \ {l} : b[m] = a[m]
               /\ b[l].readers = a[l].readers
BY DEF Written, LockTable, Mutex, OthersKeep

\* Two changes one after the other.
LEMMA KeptTwice ==
    ASSUME NEW a, NEW b, NEW c, NEW t \in PrCallers, OthersKeep(a, b, t), OthersKeep(b, c, t)
    PROVE  OthersKeep(a, c, t)
BY DEF OthersKeep

\* A call is at a place of its operation, and has seen backups only where it asks for them.
CallRecs == [op : Readers \cup WriteOps \cup {"none"}, of : Providers \cup {NoProvider},
             at : {"none", "enter", "failover", "health", "primary", "missing", "backups", "inner", "circuit"},
             seen : SUBSET Providers, fit : SUBSET Providers]

PlaceOK(c) ==
    \/ c = NoCall
    \/ /\ c.of \in Providers
       /\ c.at # "backups" => c.seen = {} /\ c.fit = {}
       /\ \/ c.at = "enter" /\ c.op \in Readers \cup WriteOps
          \/ c.at \in {"failover", "health"} /\ c.op = "close"
          \/ c.at \in {"primary", "missing", "backups"} /\ c.op = "pick"
          \/ c.at = "inner" /\ c.op \in {"check", "states", "stats"}
          \/ c.at = "circuit" /\ c.op = "healthy"

\* Which locks a call holds and for which one it waits in the queue, by its place.
ReadsAt(c, l) ==
    \/ l = "registry" /\ c.op = "pick" /\ c.at \in {"primary", "missing", "backups"}
    \/ c.at = "inner" /\ \/ l = "health" /\ c.op = "check"
                         \/ l = "failover" /\ c.op = "states"
                         \/ l = "account" /\ c.op = "stats"
WritesAt(c, l) ==
    c.op = "close" /\ \/ l = "registry" /\ c.at \in {"failover", "health"}
                      \/ l = "failover" /\ c.at = "health"
QueuesAt(c, l) ==
    \/ c.at = "enter" /\ c.op \in WriteOps /\ WriteLock[c.op] = l
    \/ c.op = "close" /\ c.at \in {"failover", "health"} /\ c.at = l
    \/ c.op = "pick" /\ c.at = "missing" /\ l = "failover"

\* The lock says of the caller what its place says.
Tells(locks, t, c, l) ==
    /\ locks[l].readers[t] = IF ReadsAt(c, l) THEN 1 ELSE 0
    /\ t \in locks[l].writer <=> WritesAt(c, l)
    /\ t \in locks[l].waiting <=> QueuesAt(c, l)

\* A writer is alone.
Excludes(t, l) ==
    WritesAt(prCall[t], l) =>
        \A u \in PrCallers \ {t} : ~WritesAt(prCall[u], l) /\ ~ReadsAt(prCall[u], l)

LocksInv ==
    /\ prCall \in [PrCallers -> CallRecs] /\ prLocks \in LockTable
    /\ \A t \in PrCallers : PlaceOK(prCall[t])
    /\ \A t \in PrCallers, l \in Locks : Tells(prLocks, t, prCall[t], l)
    /\ \A t \in PrCallers, l \in Locks : Excludes(t, l)

\* A call goes on to another place.
LEMMA LocksMove ==
    ASSUME LocksInv, NEW t \in PrCallers, NEW c \in CallRecs, PlaceOK(c),
           prCall' = [prCall EXCEPT ![t] = c], prLocks' \in LockTable, OthersKeep(prLocks, prLocks', t),
           \A l \in Locks : Tells(prLocks', t, c, l),
           \A l \in Locks : WritesAt(c, l) /\ ~WritesAt(prCall[t], l) =>
                prLocks[l].writer = {} /\ \A u \in PrCallers : prLocks[l].readers[u] = 0,
           \A l \in Locks : ReadsAt(c, l) /\ ~ReadsAt(prCall[t], l) => prLocks[l].writer = {}
    PROVE  LocksInv'
<1>1. prCall' \in [PrCallers -> CallRecs] /\ prCall'[t] = c /\ \A u \in PrCallers \ {t} : prCall'[u] = prCall[u]
  BY DEF LocksInv
<1>2. \A u \in PrCallers : PlaceOK(prCall'[u])
  BY <1>1 DEF LocksInv
<1>3. \A u \in PrCallers \ {t}, l \in Locks : Tells(prLocks', u, prCall'[u], l)
  BY <1>1 DEF LocksInv, Tells, OthersKeep
<1>4. \A u \in PrCallers, l \in Locks : Tells(prLocks', u, prCall'[u], l)
  BY <1>1, <1>3
<1>5. \A u \in PrCallers, l \in Locks : /\ prLocks[l].readers[u] = 0 => ~ReadsAt(prCall[u], l)
                                        /\ prLocks[l].writer = {} => ~WritesAt(prCall[u], l)
  BY DEF LocksInv, Tells
<1>6. \A u \in PrCallers, l \in Locks : Excludes(u, l)'
  <2>1. SUFFICES ASSUME NEW u \in PrCallers, NEW v \in PrCallers \ {u}, NEW l \in Locks, WritesAt(prCall'[u], l)
                 PROVE  ~WritesAt(prCall'[v], l) /\ ~ReadsAt(prCall'[v], l)
    BY DEF Excludes
  <2>2. WritesAt(prCall[u], l) => ~WritesAt(prCall[v], l) /\ ~ReadsAt(prCall[v], l)
    BY DEF LocksInv, Excludes
  <2>3. WritesAt(prCall[v], l) => ~WritesAt(prCall[u], l)
    BY DEF LocksInv, Excludes
  <2>4. CASE u = t
    BY <1>1, <1>5, <2>1, <2>2, <2>4
  <2>5. CASE v = t
    <3>1. prCall'[u] = prCall[u] /\ prCall'[v] = c /\ WritesAt(prCall[u], l)
      BY <1>1, <2>1, <2>5
    <3>2. prLocks[l].writer # {}
      BY <1>5, <3>1
    <3> QED
      BY <2>2, <2>5, <3>1, <3>2
  <2>6. CASE u # t /\ v # t
    BY <1>1, <2>1, <2>2, <2>6
  <2> QED
    BY <2>4, <2>5, <2>6
<1> QED
  BY <1>1, <1>2, <1>4, <1>6 DEF LocksInv

\* Before a call and after it no lock is held or awaited.
LEMMA NoCallPlace ==
    /\ NoCall \in CallRecs /\ PlaceOK(NoCall) /\ NoCall.op = "none" /\ NoCall.at = "none"
    /\ NoCall.of = NoProvider /\ NoCall.seen = {} /\ NoCall.fit = {}
    /\ \A l \in Locks : ~ReadsAt(NoCall, l) /\ ~WritesAt(NoCall, l) /\ ~QueuesAt(NoCall, l)
<1>1. NoCall.op = "none" /\ NoCall.at = "none" /\ NoCall.of = NoProvider /\ NoCall.seen = {} /\ NoCall.fit = {}
  BY DEF NoCall
<1>2. NoCall \in CallRecs /\ PlaceOK(NoCall)
  BY DEF NoCall, CallRecs, PlaceOK
<1>3. \A l \in Locks : ~ReadsAt(NoCall, l) /\ ~WritesAt(NoCall, l) /\ ~QueuesAt(NoCall, l)
  BY <1>1 DEF ReadsAt, WritesAt, QueuesAt
<1> QED
  BY <1>1, <1>2, <1>3

\* A lock that is left alone says the same of a call that means the same to it.
LEMMA LeftAlone ==
    ASSUME LocksInv, NEW t \in PrCallers, NEW c, NEW b, NEW l \in Locks, b[l] = prLocks[l],
           ReadsAt(c, l) <=> ReadsAt(prCall[t], l), WritesAt(c, l) <=> WritesAt(prCall[t], l),
           QueuesAt(c, l) <=> QueuesAt(prCall[t], l)
    PROVE  Tells(b, t, c, l)
BY DEF LocksInv, Tells

\* The locks when a call starts.
LEMMA CallLocks ==
    ASSUME LocksInv, NEW t \in PrCallers, NEW op \in Readers \cup WriteOps, NEW p \in Providers, Call(t, op, p)
    PROVE  LocksInv'
<1> DEFINE c == [NoCall EXCEPT !.op = op, !.of = p, !.at = "enter"]
<1>1. c \in CallRecs /\ PlaceOK(c) /\ c.op = op /\ c.at = "enter" /\ prCall[t] = NoCall
  BY DEF Call, NoCall, CallRecs, PlaceOK
<1>2. prCall' = [prCall EXCEPT ![t] = c] /\ prLocks \in LockTable
  BY DEF Call, LocksInv
<1>3. \A l \in Locks : ~ReadsAt(c, l) /\ ~WritesAt(c, l) /\ (QueuesAt(c, l) <=> op \in WriteOps /\ WriteLock[op] = l)
  BY <1>1 DEF ReadsAt, WritesAt, QueuesAt
<1>4. Readers \cap WriteOps = {}
  BY DEF Readers, WriteOps
<1> HIDE DEF c
<1>5. CASE op \in Readers
  <2>1. prLocks' = prLocks
    BY <1>5 DEF Call
  <2>2. \A l \in Locks : Tells(prLocks', t, c, l)
    BY <1>1, <1>3, <1>4, <1>5, <2>1, NoCallPlace, LeftAlone
  <2>3. OthersKeep(prLocks, prLocks', t)
    BY <2>1 DEF OthersKeep
  <2> QED
    BY <1>1, <1>2, <1>3, <2>1, <2>2, <2>3, LocksMove
<1>6. CASE op \notin Readers
  <2>1. op \in WriteOps /\ WriteLock[op] \in Locks /\ prLocks' = Waiting(prLocks, t, WriteLock[op])
    BY <1>6, WriteLocks DEF Call
  <2>2. /\ prLocks' \in LockTable /\ OthersKeep(prLocks, prLocks', t)
        /\ t \in prLocks'[WriteLock[op]].waiting
        /\ \A m \in Locks \ {WriteLock[op]} : prLocks'[m] = prLocks[m]
        /\ prLocks'[WriteLock[op]].writer = prLocks[WriteLock[op]].writer
        /\ prLocks'[WriteLock[op]].readers = prLocks[WriteLock[op]].readers
    BY <1>2, <2>1, WaitingIs
  <2>3. \A l \in Locks \ {WriteLock[op]} : Tells(prLocks', t, c, l)
    BY <1>1, <1>3, <2>2, NoCallPlace, LeftAlone
  <2>4. Tells(prLocks', t, c, WriteLock[op])
    BY <1>1, <1>3, <2>1, <2>2, NoCallPlace DEF LocksInv, Tells
  <2> QED
    BY <1>1, <1>2, <1>3, <2>2, <2>3, <2>4, LocksMove
<1> QED
  BY <1>5, <1>6

\* A call that ends gives back what it holds.
LEMMA EndsMove ==
    ASSUME LocksInv, NEW t \in PrCallers, Ends(t), prLocks' \in LockTable, OthersKeep(prLocks, prLocks', t),
           \A l \in Locks : /\ prLocks'[l].readers[t] = 0
                            /\ t \notin prLocks'[l].writer /\ t \notin prLocks'[l].waiting
    PROVE  LocksInv'
<1>1. prCall' = [prCall EXCEPT ![t] = NoCall]
  BY DEF Ends
<1>2. \A l \in Locks : Tells(prLocks', t, NoCall, l)
  BY NoCallPlace DEF Tells
<1> QED
  BY <1>1, <1>2, NoCallPlace, LocksMove

\* A writing call ends after its first lock.
LEMMA WrittenEnds ==
    ASSUME LocksInv, NEW t \in PrCallers, NEW op \in WriteOps, prCall[t].op = op, prCall[t].at = "enter",
           prLocks' = Written(prLocks, t, WriteLock[op]), Ends(t)
    PROVE  LocksInv'
<1> DEFINE l == WriteLock[op]
<1>1. l \in Locks /\ prLocks \in LockTable
  BY WriteLocks DEF LocksInv
<1>2. \A m \in Locks : ~ReadsAt(prCall[t], m) /\ ~WritesAt(prCall[t], m) /\ (QueuesAt(prCall[t], m) <=> m = l)
  BY <1>1 DEF ReadsAt, WritesAt, QueuesAt
<1>3. \A m \in Locks : /\ prLocks[m].readers[t] = 0 /\ t \notin prLocks[m].writer
                       /\ t \in prLocks[m].waiting <=> m = l
  BY <1>2 DEF LocksInv, Tells
<1> HIDE DEF l
<1>4. /\ prLocks' \in LockTable /\ OthersKeep(prLocks, prLocks', t)
      /\ t \notin prLocks'[l].waiting /\ t \notin prLocks'[l].writer
      /\ \A m \in Locks \ {l} : prLocks'[m] = prLocks[m]
      /\ prLocks'[l].readers = prLocks[l].readers
  BY <1>1, WrittenIs DEF l
<1> QED
  BY <1>1, <1>3, <1>4, EndsMove

\* The locks after a write under one of them.
LEMMA WritesLocks ==
    ASSUME LocksInv, NEW t \in PrCallers, NEW op \in WriteOps \ {"close"}, Writes(t, op)
    PROVE  LocksInv'
BY WrittenEnds DEF Writes, At

\* What a call is when it has gone on within its operation.
Gone(t, at) == [prCall[t] EXCEPT !.at = at]

\* It is a call, and elsewhere; nothing else about it is new.
LEMMA GoesIs ==
    ASSUME LocksInv, NEW t \in PrCallers, NEW at \in {"failover", "health", "primary", "missing", "backups", "inner", "circuit"},
           Goes(t, at)
    PROVE  LET c == Gone(t, at)
           IN  /\ prCall' = [prCall EXCEPT ![t] = c] /\ c \in CallRecs
               /\ c.op = prCall[t].op /\ c.of = prCall[t].of /\ c.at = at
               /\ c.seen = prCall[t].seen /\ c.fit = prCall[t].fit
<1>1. prCall \in [PrCallers -> CallRecs] /\ prCall[t] \in CallRecs
  BY DEF LocksInv
<1> QED
  BY <1>1 DEF Goes, Gone, CallRecs

\* Where a call is, its operation is known.
LEMMA PlaceIs ==
    ASSUME LocksInv, NEW t \in PrCallers
    PROVE  /\ prCall[t] \in CallRecs
           /\ prCall[t].op # "none" => prCall[t] # NoCall /\ prCall[t].of \in Providers
           /\ prCall[t].at # "backups" => prCall[t].seen = {} /\ prCall[t].fit = {}
<1>1. prCall[t] \in CallRecs /\ PlaceOK(prCall[t])
  BY DEF LocksInv
<1> QED
  BY <1>1, NoCallPlace DEF PlaceOK

\* Close gets the lock of the registry.
LEMMA CloseEnterLocks ==
    ASSUME LocksInv, NEW t \in PrCallers, CloseEnter(t)
    PROVE  LocksInv'
<1>1. prCall[t].op = "close" /\ prCall[t].at = "enter" /\ CanWrite(t, "registry") /\ prLocks \in LockTable
  BY DEF CloseEnter, At, LocksInv
<1>2. "close" \in WriteOps /\ WriteLock["close"] = "registry" /\ "registry" \in Locks /\ "failover" \in Locks
  BY WriteLocks DEF WriteOps, Locks
<1>3. CASE prClosed["registry"]
  BY <1>1, <1>2, <1>3, WrittenEnds DEF CloseEnter
<1>4. CASE ~prClosed["registry"]
  <2> DEFINE a == WriteHeld(prLocks, t, "registry")
             c == Gone(t, "failover")
  <2>1. prLocks' = Waiting(a, t, "failover") /\ Goes(t, "failover")
    BY <1>4 DEF CloseEnter
  <2>2. /\ prCall' = [prCall EXCEPT ![t] = c] /\ c \in CallRecs /\ c.op = "close" /\ c.at = "failover"
        /\ c.of \in Providers /\ c.seen = {} /\ c.fit = {}
    BY <1>1, <2>1, GoesIs, PlaceIs
  <2>3. PlaceOK(c)
    BY <2>2 DEF PlaceOK
  <2>4. prLocks["registry"].writer = {} /\ \A u \in PrCallers : prLocks["registry"].readers[u] = 0
    BY <1>1 DEF CanWrite
  <2>5. /\ a \in LockTable /\ OthersKeep(prLocks, a, t)
        /\ t \notin a["registry"].waiting /\ t \in a["registry"].writer
        /\ \A m \in Locks \ {"registry"} : a[m] = prLocks[m]
        /\ a["registry"].readers = prLocks["registry"].readers
    BY <1>1, <1>2, <2>4, WriteHeldIs
  <2> HIDE DEF a, c
  <2>6. /\ prLocks' \in LockTable /\ OthersKeep(a, prLocks', t)
        /\ t \in prLocks'["failover"].waiting
        /\ \A m \in Locks \ {"failover"} : prLocks'[m] = a[m]
        /\ prLocks'["failover"].writer = a["failover"].writer /\ prLocks'["failover"].readers = a["failover"].readers
    BY <1>2, <2>1, <2>5, WaitingIs
  <2>7. OthersKeep(prLocks, prLocks', t)
    BY <2>5, <2>6, KeptTwice
  <2>8. \A m \in Locks : /\ ~ReadsAt(c, m) /\ (WritesAt(c, m) <=> m = "registry") /\ (QueuesAt(c, m) <=> m = "failover")
    BY <2>2 DEF ReadsAt, WritesAt, QueuesAt
  <2>9. \A m \in Locks : ~ReadsAt(prCall[t], m) /\ ~WritesAt(prCall[t], m) /\ (QueuesAt(prCall[t], m) <=> m = "registry")
    BY <1>1, <1>2 DEF ReadsAt, WritesAt, QueuesAt
  <2>10. \A m \in Locks \ {"registry", "failover"} : Tells(prLocks', t, c, m)
    BY <2>5, <2>6, <2>8, <2>9, LeftAlone
  <2>11. \A m \in Locks : /\ prLocks[m].readers[t] = 0 /\ t \notin prLocks[m].writer
                          /\ t \in prLocks[m].waiting <=> m = "registry"
    BY <2>9 DEF LocksInv, Tells
  <2>12. Tells(prLocks', t, c, "registry")
    BY <1>2, <2>5, <2>6, <2>8, <2>11 DEF Tells
  <2>13. Tells(prLocks', t, c, "failover")
    BY <1>2, <2>5, <2>6, <2>8, <2>11 DEF Tells
  <2>14. \A m \in Locks : Tells(prLocks', t, c, m)
    BY <2>10, <2>12, <2>13
  <2>15. \A m \in Locks : WritesAt(c, m) /\ ~WritesAt(prCall[t], m) =>
              prLocks[m].writer = {} /\ \A u \in PrCallers : prLocks[m].readers[u] = 0
    BY <2>4, <2>8
  <2>16. \A m \in Locks : ~ReadsAt(c, m)
    BY <2>8
  <2> QED
    BY <2>2, <2>3, <2>6, <2>7, <2>14, <2>15, <2>16, LocksMove
<1> QED
  BY <1>3, <1>4

\* Close gets the lock of the failover manager.
LEMMA CloseFailoverLocks ==
    ASSUME LocksInv, NEW t \in PrCallers, CloseFailover(t)
    PROVE  LocksInv'
<1> DEFINE a == WriteHeld(prLocks, t, "failover")
           c == Gone(t, "health")
<1>1. /\ prCall[t].op = "close" /\ prCall[t].at = "failover" /\ CanWrite(t, "failover") /\ prLocks \in LockTable
      /\ prLocks' = Waiting(a, t, "health") /\ Goes(t, "health")
      /\ "registry" \in Locks /\ "failover" \in Locks /\ "health" \in Locks
  BY DEF CloseFailover, At, LocksInv, Locks
<1>2. /\ prCall' = [prCall EXCEPT ![t] = c] /\ c \in CallRecs /\ c.op = "close" /\ c.at = "health"
      /\ c.of \in Providers /\ c.seen = {} /\ c.fit = {}
  BY <1>1, GoesIs, PlaceIs
<1>3. PlaceOK(c)
  BY <1>2 DEF PlaceOK
<1>4. prLocks["failover"].writer = {} /\ \A u \in PrCallers : prLocks["failover"].readers[u] = 0
  BY <1>1 DEF CanWrite
<1>5. /\ a \in LockTable /\ OthersKeep(prLocks, a, t)
      /\ t \notin a["failover"].waiting /\ t \in a["failover"].writer
      /\ \A m \in Locks \ {"failover"} : a[m] = prLocks[m]
      /\ a["failover"].readers = prLocks["failover"].readers
  BY <1>1, <1>4, WriteHeldIs
<1> HIDE DEF a, c
<1>6. /\ prLocks' \in LockTable /\ OthersKeep(a, prLocks', t)
      /\ t \in prLocks'["health"].waiting
      /\ \A m \in Locks \ {"health"} : prLocks'[m] = a[m]
      /\ prLocks'["health"].writer = a["health"].writer /\ prLocks'["health"].readers = a["health"].readers
  BY <1>1, <1>5, WaitingIs
<1>7. OthersKeep(prLocks, prLocks', t)
  BY <1>5, <1>6, KeptTwice
<1>8. \A m \in Locks : /\ ~ReadsAt(c, m) /\ (WritesAt(c, m) <=> m \in {"registry", "failover"})
                       /\ (QueuesAt(c, m) <=> m = "health")
  BY <1>2 DEF ReadsAt, WritesAt, QueuesAt
<1>9. \A m \in Locks : /\ ~ReadsAt(prCall[t], m) /\ (WritesAt(prCall[t], m) <=> m = "registry")
                       /\ (QueuesAt(prCall[t], m) <=> m = "failover")
  BY <1>1 DEF ReadsAt, WritesAt, QueuesAt
<1>10. \A m \in Locks \ {"failover", "health"} : Tells(prLocks', t, c, m)
  BY <1>5, <1>6, <1>8, <1>9, LeftAlone
<1>11. \A m \in Locks : /\ prLocks[m].readers[t] = 0 /\ (t \in prLocks[m].writer <=> m = "registry")
                        /\ (t \in prLocks[m].waiting <=> m = "failover")
  BY <1>9 DEF LocksInv, Tells
<1>12. Tells(prLocks', t, c, "failover")
  BY <1>1, <1>5, <1>6, <1>8, <1>11 DEF Tells
<1>13. Tells(prLocks', t, c, "health")
  BY <1>1, <1>5, <1>6, <1>8, <1>11 DEF Tells
<1>14. \A m \in Locks : Tells(prLocks', t, c, m)
  BY <1>10, <1>12, <1>13
<1>15. \A m \in Locks : WritesAt(c, m) /\ ~WritesAt(prCall[t], m) =>
            prLocks[m].writer = {} /\ \A u \in PrCallers : prLocks[m].readers[u] = 0
  BY <1>4, <1>8, <1>9
<1>16. \A m \in Locks : ~ReadsAt(c, m)
  BY <1>8
<1> QED
  BY <1>2, <1>3, <1>6, <1>7, <1>14, <1>15, <1>16, LocksMove

\* Close gets the lock of the health checker and gives all three back.
LEMMA CloseRestLocks ==
    ASSUME LocksInv, NEW t \in PrCallers, CloseRest(t)
    PROVE  LocksInv'
<1>1. /\ prCall[t].op = "close" /\ prCall[t].at = "health" /\ prLocks \in LockTable
      /\ prLocks' = [l \in Locks |-> Written(prLocks, t, l)[l]] /\ Ends(t)
  BY DEF CloseRest, At, LocksInv
<1>2. \A l \in Locks : Written(prLocks, t, l) \in LockTable
  BY <1>1, WrittenIs
<1>3. \A l \in Locks : /\ prLocks'[l] = Written(prLocks, t, l)[l]
                       /\ t \notin prLocks'[l].waiting /\ t \notin prLocks'[l].writer
                       /\ prLocks'[l].readers = prLocks[l].readers
  BY <1>1, WrittenIs
<1>4. prLocks' \in LockTable
  BY <1>1, <1>2 DEF LockTable
<1>5. OthersKeep(prLocks, prLocks', t)
  <2>1. SUFFICES ASSUME NEW l \in Locks, NEW u \in PrCallers \ {t}
                 PROVE  /\ prLocks'[l].readers[u] = prLocks[l].readers[u]
                        /\ u \in prLocks'[l].writer <=> u \in prLocks[l].writer
                        /\ u \in prLocks'[l].waiting <=> u \in prLocks[l].waiting
    BY DEF OthersKeep
  <2>2. OthersKeep(prLocks, Written(prLocks, t, l), t)
    BY <1>1, WrittenIs
  <2> QED
    BY <1>3, <2>2 DEF OthersKeep
<1>6. \A l \in Locks : prLocks[l].readers[t] = 0
  <2>1. \A l \in Locks : ~ReadsAt(prCall[t], l)
    BY <1>1 DEF ReadsAt
  <2> QED
    BY <2>1 DEF LocksInv, Tells
<1> QED
  BY <1>1, <1>3, <1>4, <1>5, <1>6, EndsMove

\* A reader ends and gives its lock back.
LEMMA ReadEnds ==
    ASSUME LocksInv, NEW t \in PrCallers, NEW l \in Locks, prLocks' = ReadHeld(prLocks, t, l, 0), Ends(t),
           \A m \in Locks : /\ ~WritesAt(prCall[t], m) /\ ~QueuesAt(prCall[t], m)
                            /\ ReadsAt(prCall[t], m) => m = l
    PROVE  LocksInv'
<1>1. prLocks \in LockTable
  BY DEF LocksInv
<1>2. /\ prLocks' \in LockTable /\ OthersKeep(prLocks, prLocks', t)
      /\ prLocks'[l].readers[t] = 0
      /\ \A m \in Locks \ {l} : prLocks'[m] = prLocks[m]
      /\ prLocks'[l].writer = prLocks[l].writer /\ prLocks'[l].waiting = prLocks[l].waiting
  BY <1>1, ReadHeldIs
<1>3. \A m \in Locks : /\ m # l => prLocks[m].readers[t] = 0
                       /\ t \notin prLocks[m].writer /\ t \notin prLocks[m].waiting
  BY DEF LocksInv, Tells
<1> QED
  BY <1>2, <1>3, EndsMove

\* A reader that holds nothing gets its first lock.
LEMMA ReadGoes ==
    ASSUME LocksInv, NEW t \in PrCallers, NEW l \in Locks, prLocks' = ReadHeld(prLocks, t, l, 1), CanRead(l),
           NEW c \in CallRecs, PlaceOK(c), prCall' = [prCall EXCEPT ![t] = c],
           \A m \in Locks : /\ ~WritesAt(prCall[t], m) /\ ~QueuesAt(prCall[t], m) /\ ~ReadsAt(prCall[t], m)
                            /\ ~WritesAt(c, m) /\ ~QueuesAt(c, m) /\ (ReadsAt(c, m) <=> m = l)
    PROVE  LocksInv'
<1>1. prLocks \in LockTable /\ prLocks[l].writer = {}
  BY DEF LocksInv, CanRead
<1>2. /\ prLocks' \in LockTable /\ OthersKeep(prLocks, prLocks', t)
      /\ prLocks'[l].readers[t] = 1
      /\ \A m \in Locks \ {l} : prLocks'[m] = prLocks[m]
      /\ prLocks'[l].writer = prLocks[l].writer /\ prLocks'[l].waiting = prLocks[l].waiting
  BY <1>1, ReadHeldIs
<1>3. \A m \in Locks \ {l} : Tells(prLocks', t, c, m)
  BY <1>2, LeftAlone
<1>4. t \notin prLocks[l].writer /\ t \notin prLocks[l].waiting
  BY DEF LocksInv, Tells
<1>5. Tells(prLocks', t, c, l)
  BY <1>2, <1>4 DEF Tells
<1>6. \A m \in Locks : Tells(prLocks', t, c, m)
  BY <1>3, <1>5
<1>7. \A m \in Locks : ReadsAt(c, m) /\ ~ReadsAt(prCall[t], m) => prLocks[m].writer = {}
  BY <1>1
<1> QED
  BY <1>2, <1>6, <1>7, LocksMove

\* A call goes on and no lock is taken or given back.
LEMMA SameGoes ==
    ASSUME LocksInv, NEW t \in PrCallers, prLocks' = prLocks,
           NEW c \in CallRecs, PlaceOK(c), prCall' = [prCall EXCEPT ![t] = c],
           \A m \in Locks : /\ WritesAt(c, m) <=> WritesAt(prCall[t], m)
                            /\ QueuesAt(c, m) <=> QueuesAt(prCall[t], m)
                            /\ ReadsAt(c, m) <=> ReadsAt(prCall[t], m)
    PROVE  LocksInv'
<1>1. prLocks \in LockTable /\ OthersKeep(prLocks, prLocks', t)
  BY DEF LocksInv, OthersKeep
<1>2. \A m \in Locks : Tells(prLocks', t, c, m)
  BY LeftAlone
<1> QED
  BY <1>1, <1>2, LocksMove

\* A call of the choice enters the registry.
LEMMA PickEnterLocks ==
    ASSUME LocksInv, NEW t \in PrCallers, PickEnter(t)
    PROVE  LocksInv'
<1>1. prCall[t].op = "pick" /\ prCall[t].at = "enter" /\ "registry" \in Locks /\ "pick" \notin WriteOps
  BY DEF PickEnter, At, Locks, WriteOps
<1>2. \A m \in Locks : ~WritesAt(prCall[t], m) /\ ~QueuesAt(prCall[t], m) /\ ~ReadsAt(prCall[t], m)
  BY <1>1 DEF WritesAt, QueuesAt, ReadsAt
<1>3. CASE prClosed["registry"]
  BY <1>2, <1>3, NoCallPlace, SameGoes DEF PickEnter, Ends
<1>4. CASE ~prClosed["registry"]
  <2> DEFINE c == Gone(t, "primary")
  <2>1. prLocks' = ReadHeld(prLocks, t, "registry", 1) /\ Goes(t, "primary") /\ CanRead("registry")
    BY <1>4 DEF PickEnter
  <2>2. /\ prCall' = [prCall EXCEPT ![t] = c] /\ c \in CallRecs /\ c.op = "pick" /\ c.at = "primary"
        /\ c.of \in Providers /\ c.seen = {} /\ c.fit = {}
    BY <1>1, <2>1, GoesIs, PlaceIs
  <2> HIDE DEF c
  <2>3. PlaceOK(c)
    BY <2>2 DEF PlaceOK
  <2>4. \A m \in Locks : ~WritesAt(c, m) /\ ~QueuesAt(c, m) /\ (ReadsAt(c, m) <=> m = "registry")
    BY <2>2 DEF WritesAt, QueuesAt, ReadsAt
  <2> QED
    BY <1>1, <1>2, <2>1, <2>2, <2>3, <2>4, ReadGoes
<1> QED
  BY <1>3, <1>4

\* What a call of the choice holds while it chooses.
LEMMA ChoosingHolds ==
    ASSUME NEW c, c.op = "pick", c.at \in {"primary", "missing", "backups"}
    PROVE  \A m \in Locks : /\ ~WritesAt(c, m) /\ (ReadsAt(c, m) <=> m = "registry")
                            /\ QueuesAt(c, m) <=> c.at = "missing" /\ m = "failover"
BY DEF WritesAt, QueuesAt, ReadsAt, Locks, WriteOps

\* A choice is made.
LEMMA GivenLocks ==
    ASSUME LocksInv, NEW t \in PrCallers, NEW p, prCall[t].op = "pick", prCall[t].at \in {"primary", "backups"},
           Given(t, p)
    PROVE  LocksInv'
<1>1. "registry" \in Locks
  BY DEF Locks
<1>2. \A m \in Locks : ~WritesAt(prCall[t], m) /\ ~QueuesAt(prCall[t], m) /\ (ReadsAt(prCall[t], m) => m = "registry")
  BY ChoosingHolds
<1> QED
  BY <1>1, <1>2, ReadEnds DEF Given

\* The primary is asked about.
LEMMA PickPrimaryLocks ==
    ASSUME LocksInv, NEW t \in PrCallers, PickPrimary(t)
    PROVE  LocksInv'
<1>1. prCall[t].op = "pick" /\ prCall[t].at = "primary" /\ prLocks \in LockTable /\ "failover" \in Locks
  BY DEF PickPrimary, At, LocksInv, Locks
<1>2. \A m \in Locks : ~WritesAt(prCall[t], m) /\ ~QueuesAt(prCall[t], m) /\ (ReadsAt(prCall[t], m) <=> m = "registry")
  BY <1>1, ChoosingHolds
<1>3. CASE Given(t, prCall[t].of)
  BY <1>1, <1>3, GivenLocks
<1>4. CASE prLocks' = Waiting(prLocks, t, "failover") /\ Goes(t, "missing")
  <2> DEFINE c == Gone(t, "missing")
  <2>1. /\ prCall' = [prCall EXCEPT ![t] = c] /\ c \in CallRecs /\ c.op = "pick" /\ c.at = "missing"
        /\ c.of \in Providers /\ c.seen = {} /\ c.fit = {}
    BY <1>1, <1>4, GoesIs, PlaceIs
  <2> HIDE DEF c
  <2>2. PlaceOK(c)
    BY <2>1 DEF PlaceOK
  <2>3. \A m \in Locks : ~WritesAt(c, m) /\ (QueuesAt(c, m) <=> m = "failover") /\ (ReadsAt(c, m) <=> m = "registry")
    BY <2>1, ChoosingHolds
  <2>4. /\ prLocks' \in LockTable /\ OthersKeep(prLocks, prLocks', t)
        /\ t \in prLocks'["failover"].waiting
        /\ \A m \in Locks \ {"failover"} : prLocks'[m] = prLocks[m]
        /\ prLocks'["failover"].writer = prLocks["failover"].writer
        /\ prLocks'["failover"].readers = prLocks["failover"].readers
    BY <1>1, <1>4, WaitingIs
  <2>5. \A m \in Locks \ {"failover"} : Tells(prLocks', t, c, m)
    BY <1>2, <2>3, <2>4, LeftAlone
  <2>6. Tells(prLocks, t, prCall[t], "failover")
    BY <1>1 DEF LocksInv
  <2>7. Tells(prLocks', t, c, "failover")
    BY <1>1, <1>2, <2>3, <2>4, <2>6 DEF Tells
  <2>8. \A m \in Locks : Tells(prLocks', t, c, m)
    BY <2>5, <2>7
  <2> QED
    BY <1>2, <2>1, <2>2, <2>3, <2>4, <2>8, LocksMove
<1>5. CASE prLocks' = prLocks /\ Goes(t, "backups")
  <2> DEFINE c == Gone(t, "backups")
  <2>1. /\ prCall' = [prCall EXCEPT ![t] = c] /\ c \in CallRecs /\ c.op = "pick" /\ c.at = "backups"
        /\ c.of \in Providers
    BY <1>1, <1>5, GoesIs, PlaceIs
  <2> HIDE DEF c
  <2>2. PlaceOK(c)
    BY <2>1 DEF PlaceOK
  <2>3. \A m \in Locks : ~WritesAt(c, m) /\ ~QueuesAt(c, m) /\ (ReadsAt(c, m) <=> m = "registry")
    BY <2>1, ChoosingHolds
  <2> QED
    BY <1>2, <1>5, <2>1, <2>2, <2>3, SameGoes
<1> QED
  BY <1>3, <1>4, <1>5 DEF PickPrimary

\* A missing primary is recorded.
LEMMA PickMissingLocks ==
    ASSUME LocksInv, NEW t \in PrCallers, PickMissing(t)
    PROVE  LocksInv'
<1> DEFINE c == Gone(t, "backups")
<1>1. /\ prCall[t].op = "pick" /\ prCall[t].at = "missing" /\ prLocks \in LockTable /\ "failover" \in Locks
      /\ prLocks' = Written(prLocks, t, "failover") /\ Goes(t, "backups")
  BY DEF PickMissing, At, LocksInv, Locks
<1>2. /\ prCall' = [prCall EXCEPT ![t] = c] /\ c \in CallRecs /\ c.op = "pick" /\ c.at = "backups"
      /\ c.of \in Providers
  BY <1>1, GoesIs, PlaceIs
<1> HIDE DEF c
<1>3. PlaceOK(c)
  BY <1>2 DEF PlaceOK
<1>4. \A m \in Locks : /\ ~WritesAt(prCall[t], m) /\ (QueuesAt(prCall[t], m) <=> m = "failover")
                       /\ (ReadsAt(prCall[t], m) <=> m = "registry")
  BY <1>1, ChoosingHolds
<1>5. \A m \in Locks : ~WritesAt(c, m) /\ ~QueuesAt(c, m) /\ (ReadsAt(c, m) <=> m = "registry")
  BY <1>2, ChoosingHolds
<1>6. /\ prLocks' \in LockTable /\ OthersKeep(prLocks, prLocks', t)
      /\ t \notin prLocks'["failover"].waiting /\ t \notin prLocks'["failover"].writer
      /\ \A m \in Locks \ {"failover"} : prLocks'[m] = prLocks[m]
      /\ prLocks'["failover"].readers = prLocks["failover"].readers
  BY <1>1, WrittenIs
<1>7. \A m \in Locks \ {"failover"} : Tells(prLocks', t, c, m)
  BY <1>4, <1>5, <1>6, LeftAlone
<1>8. Tells(prLocks, t, prCall[t], "failover")
  BY <1>1 DEF LocksInv
<1>9. Tells(prLocks', t, c, "failover")
  BY <1>1, <1>4, <1>5, <1>6, <1>8 DEF Tells
<1>10. \A m \in Locks : Tells(prLocks', t, c, m)
  BY <1>7, <1>9
<1> QED
  BY <1>2, <1>3, <1>4, <1>5, <1>6, <1>10, LocksMove

\* A backup is asked about.
LEMMA PickCandidateLocks ==
    ASSUME LocksInv, NEW t \in PrCallers, NEW p \in Providers, PickCandidate(t, p)
    PROVE  LocksInv'
<1> DEFINE c == [prCall[t] EXCEPT !.seen = @ \cup {p}, !.fit = IF Attempts(p) THEN @ \cup {p} ELSE @]
<1>1. prCall[t].op = "pick" /\ prCall[t].at = "backups" /\ prLocks' = prLocks
  BY DEF PickCandidate, At
<1>2. prCall \in [PrCallers -> CallRecs] /\ prCall[t] \in CallRecs /\ prCall[t].of \in Providers
  BY <1>1, PlaceIs DEF LocksInv
<1>3. prCall' = [prCall EXCEPT ![t] = c]
  BY <1>2 DEF PickCandidate
<1>4. c \in CallRecs /\ c.op = "pick" /\ c.at = "backups" /\ c.of \in Providers
  BY <1>1, <1>2 DEF CallRecs
<1> HIDE DEF c
<1>5. PlaceOK(c)
  BY <1>4 DEF PlaceOK
<1>6. \A m \in Locks : /\ WritesAt(c, m) <=> WritesAt(prCall[t], m)
                       /\ QueuesAt(c, m) <=> QueuesAt(prCall[t], m)
                       /\ ReadsAt(c, m) <=> ReadsAt(prCall[t], m)
  BY <1>1, <1>4, ChoosingHolds
<1> QED
  BY <1>1, <1>3, <1>4, <1>5, <1>6, SameGoes

\* Reads that take two locks.
LEMMA ReadOuterLocks ==
    ASSUME LocksInv, NEW t \in PrCallers, ReadOuter(t)
    PROVE  LocksInv'
<1> DEFINE c == Gone(t, "inner")
           l == Nested[prCall[t].op][1]
<1>1. /\ prCall[t].op \in {"check", "states", "stats"} /\ prCall[t].at = "enter" /\ CanRead(l)
      /\ prLocks' = ReadHeld(prLocks, t, l, 1) /\ Goes(t, "inner")
  BY NestedLocks DEF ReadOuter
<1>2. l \in Locks
  BY <1>1, NestedLocks DEF Locks
<1>3. /\ prCall' = [prCall EXCEPT ![t] = c] /\ c \in CallRecs /\ c.op = prCall[t].op /\ c.at = "inner"
      /\ c.of \in Providers /\ c.seen = {} /\ c.fit = {}
  BY <1>1, GoesIs, PlaceIs
<1>4. \A m \in Locks : ~WritesAt(prCall[t], m) /\ ~QueuesAt(prCall[t], m) /\ ~ReadsAt(prCall[t], m)
  BY <1>1 DEF WritesAt, QueuesAt, ReadsAt, WriteOps
<1>5. \A m \in Locks : ~WritesAt(c, m) /\ ~QueuesAt(c, m) /\ (ReadsAt(c, m) <=> m = l)
  BY <1>1, <1>3, NestedLocks DEF WritesAt, QueuesAt, ReadsAt
<1> HIDE DEF c, l
<1>6. PlaceOK(c)
  BY <1>1, <1>3 DEF PlaceOK
<1> QED
  BY <1>1, <1>2, <1>3, <1>4, <1>5, <1>6, ReadGoes

\* The second lock of a read.
LEMMA ReadInnerLocks ==
    ASSUME LocksInv, NEW t \in PrCallers, ReadInner(t)
    PROVE  LocksInv'
<1> DEFINE l == Nested[prCall[t].op][1]
<1>1. /\ prCall[t].op \in {"check", "states", "stats"} /\ prCall[t].at = "inner"
      /\ prLocks' = ReadHeld(prLocks, t, l, 0) /\ Ends(t)
  BY NestedLocks DEF ReadInner
<1>2. l \in Locks
  BY <1>1, NestedLocks DEF Locks
<1>3. \A m \in Locks : ~WritesAt(prCall[t], m) /\ ~QueuesAt(prCall[t], m) /\ (ReadsAt(prCall[t], m) => m = l)
  BY <1>1, NestedLocks DEF WritesAt, QueuesAt, ReadsAt
<1> HIDE DEF l
<1> QED
  BY <1>1, <1>2, <1>3, ReadEnds

\* Two reads one after the other.
LEMMA ReadHealthyLocks ==
    ASSUME LocksInv, NEW t \in PrCallers, ReadHealthy(t)
    PROVE  LocksInv'
<1>1. prCall[t].op = "healthy" /\ prCall[t].at \in {"enter", "circuit"} /\ prLocks' = prLocks
  BY DEF ReadHealthy, At
<1>2. \A m \in Locks : ~WritesAt(prCall[t], m) /\ ~QueuesAt(prCall[t], m) /\ ~ReadsAt(prCall[t], m)
  BY <1>1 DEF WritesAt, QueuesAt, ReadsAt, WriteOps
<1>3. CASE Ends(t)
  BY <1>1, <1>2, <1>3, NoCallPlace, SameGoes DEF Ends
<1>4. CASE Goes(t, "circuit") /\ prCall[t].at = "enter"
  <2> DEFINE c == Gone(t, "circuit")
  <2>1. /\ prCall' = [prCall EXCEPT ![t] = c] /\ c \in CallRecs /\ c.op = "healthy" /\ c.at = "circuit"
        /\ c.of \in Providers /\ c.seen = {} /\ c.fit = {}
    BY <1>1, <1>4, GoesIs, PlaceIs
  <2> HIDE DEF c
  <2>2. PlaceOK(c)
    BY <2>1 DEF PlaceOK
  <2>3. \A m \in Locks : ~WritesAt(c, m) /\ ~QueuesAt(c, m) /\ ~ReadsAt(c, m)
    BY <2>1 DEF WritesAt, QueuesAt, ReadsAt, WriteOps
  <2> QED
    BY <1>1, <1>2, <2>1, <2>2, <2>3, SameGoes
<1> QED
  BY <1>1, <1>3, <1>4 DEF ReadHealthy, At

-----------------------------------------------------------------------------
(* What is registered and recorded.                                        *)

\* Whoever is at one of these places may yet record something.
OwingPlaces == {"enter", "primary", "missing"}
Owing == {t \in PrCallers : prCall[t].at \in OwingPlaces}

Circuits == {"none", "zero", "open", "expired"}
Healths == {"none", "empty", "healthy", "unhealthy"}
StateRecs == [fails : Nat, circuit : Circuits, health : Healths]

\* The circuit of a provider follows its failures in a row.
CircuitRight(s, n) == s.fails = n /\ (s.circuit \in {"open", "expired"} <=> n >= Threshold)

\* The backups a call has seen are registered, and the registry is as it was when the
\* call entered.
SeesRegistered(c) ==
    /\ c.seen \subseteq prRegistered \ {c.of} /\ c.fit \subseteq c.seen
    /\ ReadsAt(c, "registry") => ~prClosed["registry"]

DataInv ==
    /\ prRegistered \subseteq Providers /\ prUp \subseteq Providers
    /\ prClosed \in [{"registry", "failover", "health"} -> BOOLEAN]
    /\ prStates \in [Providers -> StateRecs] /\ prRun \in [Providers -> Nat]
    /\ prAccount \in Nat /\ prCalls \in 0..MaxPrCalls
    /\ prPicked \in [PrCallers -> Providers \cup {NoProvider}]
    /\ \A p \in Providers : CircuitRight(prStates[p], prRun[p])
    /\ \A p \in Providers : prRun[p] + Cardinality(Owing) <= prCalls
    /\ prAccount + Cardinality(Owing) <= prCalls
    /\ \A t \in PrCallers : SeesRegistered(prCall[t])
    /\ prClosed["registry"] => prRegistered = {}

\* Who owes is counted.
LEMMA OwingIsFinite ==
    IsFiniteSet(Owing) /\ Cardinality(Owing) \in Nat
<1>1. Owing \subseteq PrCallers
  BY DEF Owing
<1> QED
  BY <1>1, PrAssumption, FS_Subset, FS_CardinalityType

\* A caller that owes no longer, and one that owes no more than before.
LEMMA OwingMoves ==
    ASSUME LocksInv, NEW t \in PrCallers, NEW c \in CallRecs, prCall' = [prCall EXCEPT ![t] = c],
           c.at \in OwingPlaces => prCall[t].at \in OwingPlaces
    PROVE  /\ IsFiniteSet(Owing') /\ Cardinality(Owing') \in Nat
           /\ Cardinality(Owing') <= Cardinality(Owing)
           /\ prCall[t].at \in OwingPlaces /\ c.at \notin OwingPlaces
                => Cardinality(Owing') = Cardinality(Owing) - 1
<1>1. prCall'[t] = c /\ \A u \in PrCallers \ {t} : prCall'[u] = prCall[u]
  BY DEF LocksInv
<1>2. IsFiniteSet(Owing) /\ Cardinality(Owing) \in Nat
  BY OwingIsFinite
<1>3. CASE prCall[t].at \in OwingPlaces /\ c.at \notin OwingPlaces
  <2>1. Owing' = Owing \ {t} /\ t \in Owing
    BY <1>1, <1>3 DEF Owing
  <2>2. IsFiniteSet(Owing \ {t}) /\ Cardinality(Owing \ {t}) = Cardinality(Owing) - 1
    BY <1>2, <2>1, FS_RemoveElement
  <2>3. Cardinality(Owing \ {t}) \in Nat
    BY <2>2, FS_CardinalityType
  <2>4. IsFiniteSet(Owing') /\ Cardinality(Owing') = Cardinality(Owing) - 1 /\ Cardinality(Owing') \in Nat
    BY <2>1, <2>2, <2>3
  <2> QED
    BY <1>2, <1>3, <2>4
<1>4. CASE ~(prCall[t].at \in OwingPlaces /\ c.at \notin OwingPlaces)
  <2>1. \A u \in PrCallers : prCall'[u].at \in OwingPlaces <=> prCall[u].at \in OwingPlaces
    BY <1>1, <1>4
  <2>2. Owing' = Owing
    BY <2>1 DEF Owing
  <2> QED
    BY <1>2, <1>4, <2>2
<1> QED
  BY <1>3, <1>4

\* A step of a call that records nothing.
LEMMA QuietData ==
    ASSUME LocksInv, DataInv, NEW t \in PrCallers, NEW c \in CallRecs, prCall' = [prCall EXCEPT ![t] = c],
           UNCHANGED <<prRegistered, prUp, stateVars, prAccount, prCalls>>,
           prPicked' \in [PrCallers -> Providers \cup {NoProvider}],
           c.at \in OwingPlaces => prCall[t].at \in OwingPlaces, SeesRegistered(c)
    PROVE  DataInv'
<1>1. prCall'[t] = c /\ \A u \in PrCallers \ {t} : prCall'[u] = prCall[u]
  BY DEF LocksInv
<1>2. Cardinality(Owing') \in Nat /\ Cardinality(Owing') <= Cardinality(Owing) /\ Cardinality(Owing) \in Nat
  BY OwingMoves, OwingIsFinite
<1>3. prRegistered' = prRegistered /\ prUp' = prUp /\ prClosed' = prClosed /\ prStates' = prStates
      /\ prRun' = prRun /\ prAccount' = prAccount /\ prCalls' = prCalls
  BY DEF stateVars
<1>4. \A u \in PrCallers : SeesRegistered(prCall[u])'
  BY <1>1, <1>3 DEF DataInv, SeesRegistered
<1>5. \A p \in Providers : prRun'[p] + Cardinality(Owing') <= prCalls'
  <2>1. SUFFICES ASSUME NEW p \in Providers PROVE prRun'[p] + Cardinality(Owing') <= prCalls'
    OBVIOUS
  <2>2. prRun[p] \in Nat /\ prRun[p] + Cardinality(Owing) <= prCalls /\ prCalls \in Nat
    BY DEF DataInv
  <2> QED
    BY <1>2, <1>3, <2>2
<1>6. prAccount' + Cardinality(Owing') <= prCalls'
  <2>1. prAccount \in Nat /\ prAccount + Cardinality(Owing) <= prCalls /\ prCalls \in Nat
    BY DEF DataInv
  <2> QED
    BY <1>2, <1>3, <2>1
<1> QED
  BY <1>3, <1>4, <1>5, <1>6 DEF DataInv

\* A step of a call that writes under a lock, and owes nothing afterwards.
LEMMA WriteData ==
    ASSUME LocksInv, DataInv, NEW t \in PrCallers, NEW c \in CallRecs, prCall' = [prCall EXCEPT ![t] = c],
           UNCHANGED <<prUp, prClosed, prCalls, prPicked>>,
           prCall[t].at \in OwingPlaces, c.at \notin OwingPlaces, c.seen = {}, c.fit = {},
           ReadsAt(c, "registry") => ReadsAt(prCall[t], "registry"),
           prRegistered' \subseteq Providers,
           \/ prRegistered' = prRegistered
           \/ ~prClosed["registry"] /\ \A u \in PrCallers : ~ReadsAt(prCall[u], "registry"),
           prStates' \in [Providers -> StateRecs], prRun' \in [Providers -> Nat],
           \A p \in Providers : prRun'[p] <= prRun[p] + 1 /\ CircuitRight(prStates'[p], prRun'[p]),
           prAccount' \in {prAccount, prAccount + 1}
    PROVE  DataInv'
<1>1. prCall'[t] = c /\ \A u \in PrCallers \ {t} : prCall'[u] = prCall[u]
  BY DEF LocksInv
<1>2. Cardinality(Owing') \in Nat /\ Cardinality(Owing') = Cardinality(Owing) - 1 /\ Cardinality(Owing) \in Nat
  BY OwingMoves, OwingIsFinite
<1>3. \A u \in PrCallers : SeesRegistered(prCall[u])'
  <2>1. SUFFICES ASSUME NEW u \in PrCallers PROVE SeesRegistered(prCall[u])'
    OBVIOUS
  <2>2. SeesRegistered(prCall[u]) /\ SeesRegistered(prCall[t])
    BY DEF DataInv
  <2>3. CASE u = t
    BY <1>1, <2>2, <2>3 DEF SeesRegistered
  <2>4. CASE u # t /\ prRegistered' = prRegistered
    BY <1>1, <2>2, <2>4 DEF SeesRegistered
  <2>5. CASE u # t /\ \A v \in PrCallers : ~ReadsAt(prCall[v], "registry")
    <3>1. PlaceOK(prCall[u]) /\ ~ReadsAt(prCall[u], "registry")
      BY <2>5 DEF LocksInv
    <3>2. prCall[u].seen = {} /\ prCall[u].fit = {}
      BY <3>1, NoCallPlace DEF PlaceOK, ReadsAt
    <3> QED
      BY <1>1, <2>5, <3>1, <3>2 DEF SeesRegistered
  <2> QED
    BY <2>3, <2>4, <2>5
<1>4. \A p \in Providers : prRun'[p] + Cardinality(Owing') <= prCalls'
  <2>1. SUFFICES ASSUME NEW p \in Providers PROVE prRun'[p] + Cardinality(Owing') <= prCalls'
    OBVIOUS
  <2>2. prRun[p] \in Nat /\ prRun[p] + Cardinality(Owing) <= prCalls /\ prCalls \in Nat /\ prRun'[p] \in Nat
    BY DEF DataInv
  <2> QED
    BY <1>2, <2>2
<1>5. prAccount' \in Nat /\ prAccount' + Cardinality(Owing') <= prCalls'
  <2>1. prAccount \in Nat /\ prAccount + Cardinality(Owing) <= prCalls /\ prCalls \in Nat
    BY DEF DataInv
  <2> QED
    BY <1>2, <2>1
<1>6. prClosed'["registry"] => prRegistered' = {}
  BY DEF DataInv
<1> QED
  BY <1>3, <1>4, <1>5, <1>6 DEF DataInv

\* What a call sees when it has just gone on, and when it has ended.
LEMMA NoCallSees == SeesRegistered(NoCall) /\ NoCall.at \notin OwingPlaces
<1>1. ~ReadsAt(NoCall, "registry")
  BY NoCallPlace DEF Locks
<1> QED
  BY <1>1, NoCallPlace DEF SeesRegistered, OwingPlaces

\* The data when a call starts.
LEMMA CallData ==
    ASSUME LocksInv, DataInv, NEW t \in PrCallers, NEW op \in Readers \cup WriteOps, NEW p \in Providers, Call(t, op, p)
    PROVE  DataInv'
<1> DEFINE c == [NoCall EXCEPT !.op = op, !.of = p, !.at = "enter"]
<1>1. /\ c.at = "enter" /\ c.seen = {} /\ c.fit = {} /\ prCall[t] = NoCall /\ prCall' = [prCall EXCEPT ![t] = c]
      /\ prCalls < MaxPrCalls /\ prCalls' = prCalls + 1
      /\ prRegistered' = prRegistered /\ prUp' = prUp /\ prClosed' = prClosed /\ prStates' = prStates
      /\ prRun' = prRun /\ prAccount' = prAccount /\ prPicked' = prPicked
  BY DEF Call, NoCall, stateVars
<1> HIDE DEF c
<1>2. prCall'[t] = c /\ \A u \in PrCallers \ {t} : prCall'[u] = prCall[u]
  BY <1>1 DEF LocksInv
<1>3. SeesRegistered(c)
  BY <1>1 DEF SeesRegistered, ReadsAt
<1>4. \A u \in PrCallers : SeesRegistered(prCall[u])'
  BY <1>1, <1>2, <1>3 DEF DataInv, SeesRegistered
<1>5. Owing' = Owing \cup {t} /\ t \notin Owing
  BY <1>1, <1>2, NoCallSees DEF Owing, OwingPlaces
<1>6. IsFiniteSet(Owing) /\ Cardinality(Owing) \in Nat
  BY OwingIsFinite
<1>7. Cardinality(Owing \cup {t}) = Cardinality(Owing) + 1
  BY <1>5, <1>6, FS_AddElement
<1>8. Cardinality(Owing') = Cardinality(Owing) + 1
  BY <1>5, <1>7
<1>9. prCalls' \in 0..MaxPrCalls /\ prCalls \in Nat
  BY <1>1, PrAssumption DEF DataInv
<1>10. \A p1 \in Providers : prRun'[p1] + Cardinality(Owing') <= prCalls'
  <2>1. SUFFICES ASSUME NEW q \in Providers PROVE prRun'[q] + Cardinality(Owing') <= prCalls'
    OBVIOUS
  <2>2. prRun[q] \in Nat /\ prRun[q] + Cardinality(Owing) <= prCalls
    BY DEF DataInv
  <2> QED
    BY <1>1, <1>6, <1>8, <1>9, <2>2
<1>11. prAccount' + Cardinality(Owing') <= prCalls'
  <2>1. prAccount \in Nat /\ prAccount + Cardinality(Owing) <= prCalls
    BY DEF DataInv
  <2> QED
    BY <1>1, <1>6, <1>8, <1>9, <2>1
<1> QED
  BY <1>1, <1>4, <1>9, <1>10, <1>11 DEF DataInv

\* A failure that is recorded.
LEMMA FailedIs ==
    ASSUME DataInv, NEW p \in Providers, FailedIn(p)
    PROVE  /\ prStates' \in [Providers -> StateRecs] /\ prRun' \in [Providers -> Nat]
           /\ \A q \in Providers : prRun'[q] <= prRun[q] + 1 /\ CircuitRight(prStates'[q], prRun'[q])
<1>1. /\ prStates \in [Providers -> StateRecs] /\ prRun \in [Providers -> Nat] /\ Threshold \in Nat /\ Threshold > 0
      /\ \A q \in Providers : CircuitRight(prStates[q], prRun[q])
  BY PrAssumption DEF DataInv
<1>2. CASE prClosed["failover"]
  BY <1>1, <1>2 DEF FailedIn
<1>3. CASE ~prClosed["failover"]
  <2> DEFINE g == GetOrCreate(p)
             s == Failed(g)
  <2>1. prStates' = [prStates EXCEPT ![p] = s] /\ prRun' = [prRun EXCEPT ![p] = @ + 1]
    BY <1>3 DEF FailedIn
  <2>2. g \in StateRecs /\ CircuitRight(g, prRun[p])
    <3>1. CASE prStates[p] = NoState
      <4>1. g = NewState /\ CircuitRight(NoState, prRun[p])
        BY <1>1, <3>1 DEF GetOrCreate
      <4> QED
        BY <4>1 DEF NewState, NoState, StateRecs, Circuits, Healths, CircuitRight
    <3>2. CASE prStates[p] # NoState
      BY <1>1, <3>2 DEF GetOrCreate
    <3> QED
      BY <3>1, <3>2
  <2> HIDE DEF g
  <2>3. s \in StateRecs /\ s.fails = g.fails + 1
        /\ s.circuit = IF g.fails + 1 >= Threshold THEN "open" ELSE g.circuit
    <3>1. g \in [fails : Nat, circuit : Circuits, health : Healths] /\ g.fails \in Nat /\ g.circuit \in Circuits
      BY <2>2 DEF StateRecs
    <3> DEFINE d == IF g.fails + 1 >= Threshold THEN "open" ELSE g.circuit
    <3>2. d \in Circuits
      BY <3>1 DEF Circuits
    <3>3. s = [g EXCEPT !.fails = @ + 1, !.circuit = d]
      BY DEF Failed
    <3> HIDE DEF d, s
    <3>4. s = [fails |-> g.fails + 1, circuit |-> d, health |-> g.health]
      BY <3>1, <3>3
    <3>5. s \in StateRecs /\ s.fails = g.fails + 1 /\ s.circuit = d
      BY <3>1, <3>2, <3>4 DEF StateRecs
    <3> QED
      BY <3>5 DEF d
  <2>4. CircuitRight(s, prRun[p] + 1)
    <3>1. prRun[p] \in Nat /\ g.fails = prRun[p] /\ (g.circuit \in {"open", "expired"} <=> prRun[p] >= Threshold)
      BY <1>1, <2>2 DEF CircuitRight
    <3> QED
      BY <1>1, <2>3, <3>1 DEF CircuitRight
  <2> HIDE DEF s
  <2>5. prStates' \in [Providers -> StateRecs] /\ prRun' \in [Providers -> Nat]
    BY <1>1, <2>1, <2>3
  <2>6. \A q \in Providers \ {p} : prStates'[q] = prStates[q] /\ prRun'[q] = prRun[q]
    BY <1>1, <2>1
  <2>7. prStates'[p] = s /\ prRun'[p] = prRun[p] + 1
    BY <1>1, <2>1
  <2>8. \A q \in Providers : prRun'[q] <= prRun[q] + 1
    BY <1>1, <2>6, <2>7
  <2>9. \A q \in Providers : CircuitRight(prStates'[q], prRun'[q])
    BY <1>1, <2>4, <2>6, <2>7
  <2> QED
    BY <2>5, <2>8, <2>9
<1> QED
  BY <1>2, <1>3

\* What every step under one lock is.
LEMMA WritesIs ==
    ASSUME LocksInv, NEW t \in PrCallers, NEW op \in WriteOps, Writes(t, op)
    PROVE  /\ prCall' = [prCall EXCEPT ![t] = NoCall] /\ NoCall \in CallRecs
           /\ prCall[t].of \in Providers /\ prCall[t].at \in OwingPlaces /\ NoCall.at \notin OwingPlaces
           /\ NoCall.seen = {} /\ NoCall.fit = {} /\ ~ReadsAt(NoCall, "registry")
           /\ UNCHANGED <<prUp, prCalls, prPicked>>
           /\ \A u \in PrCallers : prLocks[WriteLock[op]].readers[u] = 0
<1>1. prCall[t].op = op /\ prCall[t].at = "enter" /\ op # "none"
  BY DEF Writes, At, WriteOps
<1> QED
  BY <1>1, NoCallPlace, NoCallSees, PlaceIs DEF Writes, Ends, CanWrite, OwingPlaces, Locks

\* Nothing is recorded: the states are as before.
LEMMA SameStates ==
    ASSUME DataInv, UNCHANGED <<prStates, prRun>>
    PROVE  /\ prStates' \in [Providers -> StateRecs] /\ prRun' \in [Providers -> Nat]
           /\ \A q \in Providers : prRun'[q] <= prRun[q] + 1 /\ CircuitRight(prStates'[q], prRun'[q])
BY DEF DataInv

\* A failure, a success and a reset.
LEMMA FailureData ==
    ASSUME LocksInv, DataInv, NEW t \in PrCallers, RecordFailure(t)
    PROVE  DataInv'
<1>1. Writes(t, "fail") /\ FailedIn(prCall[t].of) /\ UNCHANGED <<prRegistered, prClosed, prAccount>>
  BY DEF RecordFailure
<1>2. "fail" \in WriteOps
  BY DEF WriteOps
<1>3. prRegistered' \subseteq Providers /\ prAccount' \in {prAccount, prAccount + 1}
  BY <1>1 DEF DataInv
<1> QED
  BY <1>1, <1>2, <1>3, WritesIs, FailedIs, WriteData

\* See FailureData.
LEMMA SuccessData ==
    ASSUME LocksInv, DataInv, NEW t \in PrCallers, RecordSuccess(t)
    PROVE  DataInv'
<1> DEFINE p == prCall[t].of
<1>1. Writes(t, "succeed") /\ UNCHANGED <<prRegistered, prClosed, prAccount>>
  BY DEF RecordSuccess
<1>2. "succeed" \in WriteOps
  BY DEF WriteOps
<1>3. prRegistered' \subseteq Providers /\ prAccount' \in {prAccount, prAccount + 1} /\ p \in Providers
  BY <1>1, <1>2, WritesIs DEF DataInv
<1>4. /\ prStates' \in [Providers -> StateRecs] /\ prRun' \in [Providers -> Nat]
      /\ \A q \in Providers : prRun'[q] <= prRun[q] + 1 /\ CircuitRight(prStates'[q], prRun'[q])
  <2>1. CASE prClosed["failover"]
    BY <2>1, SameStates DEF RecordSuccess
  <2>2. CASE ~prClosed["failover"]
    <3> DEFINE s == [GetOrCreate(p) EXCEPT !.fails = 0, !.circuit = "zero"]
    <3>1. prStates' = [prStates EXCEPT ![p] = s] /\ prRun' = [prRun EXCEPT ![p] = 0]
      BY <2>2 DEF RecordSuccess
    <3>2. /\ prStates \in [Providers -> StateRecs] /\ prRun \in [Providers -> Nat]
          /\ \A q \in Providers : CircuitRight(prStates[q], prRun[q])
      BY DEF DataInv
    <3>3. GetOrCreate(p) \in StateRecs
      BY <1>3, <3>2 DEF GetOrCreate, NewState, StateRecs, Circuits, Healths
    <3>4. s \in StateRecs /\ s.fails = 0 /\ s.circuit = "zero"
      BY <3>3 DEF StateRecs, Circuits
    <3> HIDE DEF s, p
    <3>5. CircuitRight(s, 0)
      BY <3>4, PrAssumption DEF CircuitRight
    <3>6. \A q \in Providers : /\ prStates'[q] = IF q = p THEN s ELSE prStates[q]
                               /\ prRun'[q] = IF q = p THEN 0 ELSE prRun[q]
      BY <3>1, <3>2
    <3>7. prStates' \in [Providers -> StateRecs] /\ prRun' \in [Providers -> Nat]
      BY <3>1, <3>2, <3>4
    <3>8. \A q \in Providers : prRun'[q] <= prRun[q] + 1
      BY <3>2, <3>6
    <3> QED
      BY <3>2, <3>5, <3>6, <3>7, <3>8
  <2> QED
    BY <2>1, <2>2
<1> QED
  BY <1>1, <1>2, <1>3, <1>4, WritesIs, WriteData

\* See FailureData.
LEMMA ResetData ==
    ASSUME LocksInv, DataInv, NEW t \in PrCallers, NEW op \in {"reset", "resetAll"}, NEW ps, ResetStates(t, op, ps)
    PROVE  DataInv'
<1>1. Writes(t, op) /\ UNCHANGED <<prRegistered, prClosed, prAccount>> /\ op \in WriteOps
  BY DEF ResetStates, WriteOps
<1>2. prRegistered' \subseteq Providers /\ prAccount' \in {prAccount, prAccount + 1}
  BY <1>1 DEF DataInv
<1>3. /\ prStates \in [Providers -> StateRecs] /\ prRun \in [Providers -> Nat]
      /\ \A q \in Providers : CircuitRight(prStates[q], prRun[q])
  BY DEF DataInv
<1>4. Fresh \in StateRecs /\ Fresh.fails = 0 /\ Fresh.circuit = "zero" /\ NoState.fails = 0 /\ NoState.circuit = "none"
  BY DEF Fresh, NewState, NoState, StateRecs, Circuits, Healths
<1>5. CircuitRight(Fresh, 0) /\ CircuitRight(NoState, 0)
  BY <1>4, PrAssumption DEF CircuitRight
<1>6. /\ prStates' = [q \in Providers |-> IF q \in ps /\ prStates[q] # NoState THEN Fresh ELSE prStates[q]]
      /\ prRun' = [q \in Providers |-> IF q \in ps THEN 0 ELSE prRun[q]]
  BY DEF ResetStates
<1>7. prStates' \in [Providers -> StateRecs] /\ prRun' \in [Providers -> Nat]
  BY <1>3, <1>4, <1>6
<1>8. \A q \in Providers : prRun'[q] <= prRun[q] + 1
  BY <1>3, <1>6
<1>9. \A q \in Providers : CircuitRight(prStates'[q], prRun'[q])
  BY <1>3, <1>5, <1>6
<1> QED
  BY <1>1, <1>2, <1>7, <1>8, <1>9, WritesIs, WriteData

\* See FailureData.
LEMMA UnhealthyData ==
    ASSUME LocksInv, DataInv, NEW t \in PrCallers, SetUnhealthy(t)
    PROVE  DataInv'
<1> DEFINE p == prCall[t].of
           g == IF prStates[p] = NoState THEN Fresh ELSE prStates[p]
           s == [g EXCEPT !.health = "unhealthy"]
<1>1. Writes(t, "setHealth") /\ UNCHANGED <<prRegistered, prClosed, prRun, prAccount>> /\ "setHealth" \in WriteOps
  BY DEF SetUnhealthy, WriteOps
<1>2. prRegistered' \subseteq Providers /\ prAccount' \in {prAccount, prAccount + 1} /\ p \in Providers
  BY <1>1, WritesIs DEF DataInv
<1>3. /\ prStates \in [Providers -> StateRecs] /\ prRun \in [Providers -> Nat]
      /\ \A q \in Providers : CircuitRight(prStates[q], prRun[q])
  BY DEF DataInv
<1>4. CASE prClosed["health"]
  BY <1>1, <1>2, <1>4, SameStates, WritesIs, WriteData DEF SetUnhealthy
<1>5. CASE ~prClosed["health"]
  <2>1. prStates' = [prStates EXCEPT ![p] = s]
    BY <1>2, <1>3, <1>5 DEF SetUnhealthy
  <2>2. g \in StateRecs /\ CircuitRight(g, prRun[p])
    <3>1. CASE prStates[p] = NoState
      <4>1. CircuitRight(NoState, prRun[p]) /\ g = Fresh
        BY <1>2, <1>3, <3>1
      <4> QED
        BY <4>1 DEF CircuitRight, Fresh, NewState, NoState, StateRecs, Circuits, Healths
    <3>2. CASE prStates[p] # NoState
      BY <1>2, <1>3, <3>2
    <3> QED
      BY <3>1, <3>2
  <2> HIDE DEF g
  <2>3. s \in StateRecs /\ s.fails = g.fails /\ s.circuit = g.circuit
    BY <2>2 DEF StateRecs, Healths
  <2> HIDE DEF s
  <2>4. CircuitRight(s, prRun[p])
    BY <2>2, <2>3 DEF CircuitRight
  <2>5. prStates' \in [Providers -> StateRecs] /\ \A q \in Providers : prStates'[q] = IF q = p THEN s ELSE prStates[q]
    BY <1>3, <2>1, <2>3
  <2>6. \A q \in Providers : CircuitRight(prStates'[q], prRun'[q])
    BY <1>1, <1>3, <2>4, <2>5
  <2>7. prRun' \in [Providers -> Nat] /\ \A q \in Providers : prRun'[q] <= prRun[q] + 1
    BY <1>1, <1>3
  <2> QED
    BY <1>1, <1>2, <2>5, <2>6, <2>7, WritesIs, WriteData
<1> QED
  BY <1>4, <1>5

\* A provider comes or goes while nobody chooses.
LEMMA RegisterData ==
    ASSUME LocksInv, DataInv, NEW t \in PrCallers, Register(t) \/ Unregister(t)
    PROVE  DataInv'
<1>1. PICK op \in {"register", "unregister"} :
          /\ Writes(t, op) /\ UNCHANGED <<stateVars, prAccount>>
          /\ prRegistered' \in {prRegistered, prRegistered \cup {prCall[t].of}, prRegistered \ {prCall[t].of}}
          /\ prClosed["registry"] => prRegistered' = prRegistered
  BY DEF Register, Unregister
<1>2. op \in WriteOps /\ WriteLock[op] = "registry" /\ "registry" \in Locks
  BY WriteLocks DEF WriteOps, Locks
<1>3. \A u \in PrCallers : prLocks["registry"].readers[u] = 0
  BY <1>1, <1>2, WritesIs
<1>4. \A u \in PrCallers : ~ReadsAt(prCall[u], "registry")
  BY <1>2, <1>3 DEF LocksInv, Tells
<1>5. prCall[t].of \in Providers /\ prRegistered \subseteq Providers
  BY <1>1, <1>2, WritesIs DEF DataInv
<1>6. UNCHANGED <<prStates, prRun>> /\ prClosed' = prClosed
  BY <1>1 DEF stateVars
<1>7. prRegistered' \subseteq Providers /\ prAccount' \in {prAccount, prAccount + 1}
  BY <1>1, <1>5
<1>8. prRegistered' = prRegistered \/ ~prClosed["registry"]
  BY <1>1
<1> QED
  BY <1>1, <1>2, <1>4, <1>6, <1>7, <1>8, SameStates, WritesIs, WriteData

\* A request is recorded.
LEMMA UsageData ==
    ASSUME LocksInv, DataInv, NEW t \in PrCallers, RecordUsage(t)
    PROVE  DataInv'
<1>1. /\ Writes(t, "record") /\ "record" \in WriteOps /\ prAccount' = prAccount + 1
      /\ prRegistered' = prRegistered /\ prClosed' = prClosed /\ UNCHANGED <<prStates, prRun>>
  BY DEF RecordUsage, stateVars, WriteOps
<1>2. prRegistered' \subseteq Providers
  BY <1>1 DEF DataInv
<1> QED
  BY <1>1, <1>2, SameStates, WritesIs, WriteData

\* Close: on the way in, and when it has all three locks.
LEMMA CloseData ==
    ASSUME LocksInv, DataInv, NEW t \in PrCallers, CloseEnter(t) \/ CloseFailover(t)
    PROVE  DataInv'
<1>1. /\ prCall[t].op = "close" /\ prCall[t].at \in {"enter", "failover"}
      /\ UNCHANGED <<prRegistered, prUp, stateVars, prAccount, prCalls, prPicked>>
      /\ Ends(t) \/ \E at \in {"failover", "health"} : Goes(t, at)
  BY DEF CloseEnter, CloseFailover, At
<1>2. prPicked' \in [PrCallers -> Providers \cup {NoProvider}]
  BY <1>1 DEF DataInv
<1>3. CASE Ends(t)
  BY <1>1, <1>2, <1>3, NoCallSees, NoCallPlace, QuietData DEF Ends
<1>4. ASSUME NEW at \in {"failover", "health"}, Goes(t, at)
      PROVE  DataInv'
  <2> DEFINE c == Gone(t, at)
  <2>1. /\ prCall' = [prCall EXCEPT ![t] = c] /\ c \in CallRecs /\ c.op = "close" /\ c.at = at
        /\ c.seen = {} /\ c.fit = {}
    <3>1. at \in {"failover", "health", "primary", "missing", "backups", "inner", "circuit"} /\ prCall[t].at # "backups"
      BY <1>1
    <3>2. c.at = at /\ c.op = prCall[t].op /\ c.seen = prCall[t].seen /\ c.fit = prCall[t].fit
          /\ prCall' = [prCall EXCEPT ![t] = c] /\ c \in CallRecs
      BY <1>4, <3>1, GoesIs
    <3>3. prCall[t].seen = {} /\ prCall[t].fit = {}
      BY <3>1, PlaceIs
    <3> HIDE DEF c
    <3> QED
      BY <1>1, <3>2, <3>3
  <2> HIDE DEF c
  <2>2. SeesRegistered(c) /\ c.at \notin OwingPlaces
    BY <1>4, <2>1 DEF SeesRegistered, ReadsAt, OwingPlaces
  <2> QED
    BY <1>1, <1>2, <2>1, <2>2, QuietData
<1> QED
  BY <1>1, <1>3, <1>4

\* When Close writes, nobody chooses.
LEMMA CloseRestData ==
    ASSUME LocksInv, DataInv, NEW t \in PrCallers, CloseRest(t)
    PROVE  DataInv'
<1>1. /\ prCall[t].op = "close" /\ prCall[t].at = "health" /\ prCall' = [prCall EXCEPT ![t] = NoCall]
      /\ prClosed' = [l \in {"registry", "failover", "health"} |-> TRUE] /\ prRegistered' = {}
      /\ prStates' = [p \in Providers |-> NoState] /\ prRun' = [p \in Providers |-> 0]
      /\ prUp' = prUp /\ prAccount' = prAccount /\ prCalls' = prCalls /\ prPicked' = prPicked
  BY DEF CloseRest, At, Ends
<1>2. Cardinality(Owing') \in Nat /\ Cardinality(Owing') <= Cardinality(Owing) /\ Cardinality(Owing) \in Nat
  BY <1>1, NoCallPlace, NoCallSees, OwingMoves, OwingIsFinite
<1>3. \A u \in PrCallers \ {t} : ~ReadsAt(prCall[u], "registry")
  <2>1. WritesAt(prCall[t], "registry") /\ "registry" \in Locks
    BY <1>1 DEF WritesAt, Locks
  <2> QED
    BY <2>1 DEF LocksInv, Excludes
<1>4. \A u \in PrCallers : SeesRegistered(prCall[u])'
  <2>1. SUFFICES ASSUME NEW u \in PrCallers PROVE SeesRegistered(prCall[u])'
    OBVIOUS
  <2>2. ~ReadsAt(prCall'[u], "registry") /\ PlaceOK(prCall'[u])
    <3>1. CASE u = t
      <4>1. prCall'[u] = NoCall
        BY <1>1, <3>1 DEF LocksInv
      <4> QED
        BY <4>1, NoCallPlace DEF Locks
    <3>2. CASE u # t
      BY <1>1, <1>3, <3>2 DEF LocksInv
    <3> QED
      BY <3>1, <3>2
  <2>3. prCall'[u].seen = {} /\ prCall'[u].fit = {}
    BY <2>2, NoCallPlace DEF PlaceOK, ReadsAt
  <2> QED
    BY <2>2, <2>3 DEF SeesRegistered
<1>5. /\ prStates' \in [Providers -> StateRecs] /\ prRun' \in [Providers -> Nat]
      /\ \A p \in Providers : prRun'[p] = 0 /\ prStates'[p] = NoState
  <2>1. NoState \in StateRecs
    BY DEF NoState, StateRecs, Circuits, Healths
  <2> QED
    BY <1>1, <2>1
<1>6. CircuitRight(NoState, 0)
  BY PrAssumption DEF CircuitRight, NoState
<1>7. \A p \in Providers : CircuitRight(prStates'[p], prRun'[p])
  BY <1>5, <1>6
<1>8. prAccount \in Nat /\ prAccount + Cardinality(Owing) <= prCalls /\ prCalls \in Nat
  BY DEF DataInv
<1>9. /\ \A p \in Providers : prRun'[p] + Cardinality(Owing') <= prCalls'
      /\ prAccount' + Cardinality(Owing') <= prCalls'
  BY <1>1, <1>2, <1>5, <1>8
<1> QED
  BY <1>1, <1>4, <1>5, <1>7, <1>9 DEF DataInv

\* A choice is made: what was fit is registered.
LEMMA GivenData ==
    ASSUME LocksInv, DataInv, NEW t \in PrCallers, NEW p \in Providers \cup {NoProvider}, Given(t, p),
           UNCHANGED <<prRegistered, prUp, stateVars, prAccount, prCalls>>
    PROVE  DataInv'
<1>1. prPicked' \in [PrCallers -> Providers \cup {NoProvider}] /\ prCall' = [prCall EXCEPT ![t] = NoCall]
  BY DEF DataInv, Given, Ends
<1> QED
  BY <1>1, NoCallPlace, NoCallSees, QuietData

\* The choice goes on.
LEMMA PickGoesData ==
    ASSUME LocksInv, DataInv, NEW t \in PrCallers, prCall[t].op = "pick", prCall[t].at \in {"enter", "primary"},
           NEW at \in {"primary", "missing", "backups"}, Goes(t, at), ~prClosed["registry"],
           UNCHANGED <<prRegistered, prUp, stateVars, prAccount, prCalls, prPicked>>
    PROVE  DataInv'
<1> DEFINE c == Gone(t, at)
<1>1. /\ prCall' = [prCall EXCEPT ![t] = c] /\ c \in CallRecs /\ c.op = "pick" /\ c.at = at
      /\ c.seen = {} /\ c.fit = {}
  <2>1. at \in {"failover", "health", "primary", "missing", "backups", "inner", "circuit"} /\ prCall[t].at # "backups"
    OBVIOUS
  <2> QED
    BY <2>1, GoesIs, PlaceIs
<1> HIDE DEF c
<1>2. SeesRegistered(c) /\ prCall[t].at \in OwingPlaces
  BY <1>1 DEF SeesRegistered, OwingPlaces
<1>3. prPicked' \in [PrCallers -> Providers \cup {NoProvider}]
  BY DEF DataInv
<1> QED
  BY <1>1, <1>2, <1>3, QuietData

\* The data while a call chooses.
LEMMA PickEnterData ==
    ASSUME LocksInv, DataInv, NEW t \in PrCallers, PickEnter(t)
    PROVE  DataInv'
<1>1. /\ prCall[t].op = "pick" /\ prCall[t].at = "enter"
      /\ UNCHANGED <<prRegistered, prUp, stateVars, prAccount, prCalls, prPicked>>
  BY DEF PickEnter, At
<1>2. prPicked' \in [PrCallers -> Providers \cup {NoProvider}]
  BY <1>1 DEF DataInv
<1>3. CASE prClosed["registry"]
  BY <1>1, <1>2, <1>3, NoCallPlace, NoCallSees, QuietData DEF PickEnter, Ends
<1>4. CASE ~prClosed["registry"]
  BY <1>1, <1>4, PickGoesData DEF PickEnter
<1> QED
  BY <1>3, <1>4

\* See PickEnterData.
LEMMA PickPrimaryData ==
    ASSUME LocksInv, DataInv, NEW t \in PrCallers, PickPrimary(t)
    PROVE  DataInv'
<1>1. /\ prCall[t].op = "pick" /\ prCall[t].at = "primary" /\ "registry" \in Locks
      /\ UNCHANGED <<prRegistered, prUp, stateVars, prAccount, prCalls>>
  BY DEF PickPrimary, At, Locks
<1>2. prCall[t].of \in Providers /\ ~prClosed["registry"]
  <2>1. SeesRegistered(prCall[t]) /\ ReadsAt(prCall[t], "registry")
    BY <1>1, ChoosingHolds DEF DataInv
  <2> QED
    BY <1>1, <2>1, PlaceIs DEF SeesRegistered
<1>3. CASE Given(t, prCall[t].of)
  BY <1>1, <1>2, <1>3, GivenData
<1>4. CASE \E at \in {"missing", "backups"} : Goes(t, at) /\ prPicked' = prPicked
  BY <1>1, <1>2, <1>4, PickGoesData
<1> QED
  BY <1>3, <1>4 DEF PickPrimary

\* See PickEnterData.
LEMMA PickMissingData ==
    ASSUME LocksInv, DataInv, NEW t \in PrCallers, PickMissing(t)
    PROVE  DataInv'
<1> DEFINE c == Gone(t, "backups")
<1>1. /\ prCall[t].op = "pick" /\ prCall[t].at = "missing" /\ FailedIn(prCall[t].of) /\ Goes(t, "backups")
      /\ UNCHANGED <<prRegistered, prUp, prClosed, prAccount, prCalls, prPicked>>
  BY DEF PickMissing, At
<1>2. prCall[t].of \in Providers /\ prCall[t].at \in OwingPlaces /\ ReadsAt(prCall[t], "registry")
  BY <1>1, ChoosingHolds, PlaceIs DEF OwingPlaces, Locks
<1>3. /\ prCall' = [prCall EXCEPT ![t] = c] /\ c \in CallRecs /\ c.op = "pick" /\ c.at = "backups"
      /\ c.seen = {} /\ c.fit = {}
  BY <1>1, GoesIs, PlaceIs
<1> HIDE DEF c
<1>4. c.at \notin OwingPlaces
  BY <1>3 DEF OwingPlaces
<1>5. prRegistered' \subseteq Providers /\ prAccount' \in {prAccount, prAccount + 1}
  BY <1>1 DEF DataInv
<1>6. /\ prStates' \in [Providers -> StateRecs] /\ prRun' \in [Providers -> Nat]
      /\ \A q \in Providers : prRun'[q] <= prRun[q] + 1 /\ CircuitRight(prStates'[q], prRun'[q])
  BY <1>1, <1>2, FailedIs
<1>7. UNCHANGED <<prUp, prClosed, prCalls, prPicked>> /\ prRegistered' = prRegistered
  BY <1>1
<1> QED
  BY <1>2, <1>3, <1>4, <1>5, <1>6, <1>7, WriteData

\* See PickEnterData.
LEMMA PickCandidateData ==
    ASSUME LocksInv, DataInv, NEW t \in PrCallers, NEW p \in Providers, PickCandidate(t, p)
    PROVE  DataInv'
<1> DEFINE c == [prCall[t] EXCEPT !.seen = @ \cup {p}, !.fit = IF Attempts(p) THEN @ \cup {p} ELSE @]
<1>1. /\ prCall[t].op = "pick" /\ prCall[t].at = "backups" /\ p \in prRegistered \ {prCall[t].of}
      /\ UNCHANGED <<prRegistered, prUp, stateVars, prAccount, prCalls, prPicked>>
  BY DEF PickCandidate, At, Backups
<1>2. prCall \in [PrCallers -> CallRecs] /\ prCall[t] \in CallRecs /\ SeesRegistered(prCall[t])
  BY DEF LocksInv, DataInv
<1>3. prCall' = [prCall EXCEPT ![t] = c]
  BY <1>2 DEF PickCandidate
<1>4. /\ c \in CallRecs /\ c.op = prCall[t].op /\ c.at = prCall[t].at /\ c.of = prCall[t].of
      /\ c.seen = prCall[t].seen \cup {p} /\ c.fit \subseteq prCall[t].fit \cup {p}
  BY <1>2 DEF CallRecs
<1> HIDE DEF c
<1>5. SeesRegistered(c)
  BY <1>1, <1>2, <1>4 DEF SeesRegistered, ReadsAt
<1>6. prPicked' \in [PrCallers -> Providers \cup {NoProvider}]
  BY <1>1 DEF DataInv
<1> QED
  BY <1>1, <1>3, <1>4, <1>5, <1>6, QuietData

\* Reads record nothing.
LEMMA ReadsData ==
    ASSUME LocksInv, DataInv, NEW t \in PrCallers, ReadOuter(t) \/ ReadInner(t) \/ ReadHealthy(t)
    PROVE  DataInv'
<1>1. /\ prCall[t].op \in {"check", "states", "stats", "healthy"} /\ prCall[t].at \in {"enter", "inner", "circuit"}
      /\ UNCHANGED <<prRegistered, prUp, stateVars, prAccount, prCalls, prPicked>>
      /\ Ends(t) \/ \E at \in {"inner", "circuit"} : Goes(t, at)
  BY NestedLocks DEF ReadOuter, ReadInner, ReadHealthy, At
<1>2. prPicked' \in [PrCallers -> Providers \cup {NoProvider}]
  BY <1>1 DEF DataInv
<1>3. CASE Ends(t)
  BY <1>1, <1>2, <1>3, NoCallSees, NoCallPlace, QuietData DEF Ends
<1>4. ASSUME NEW at \in {"inner", "circuit"}, Goes(t, at)
      PROVE  DataInv'
  <2> DEFINE c == Gone(t, at)
  <2>1. /\ prCall' = [prCall EXCEPT ![t] = c] /\ c \in CallRecs /\ c.op = prCall[t].op /\ c.at = at
        /\ c.seen = {} /\ c.fit = {}
    <3>1. at \in {"failover", "health", "primary", "missing", "backups", "inner", "circuit"} /\ prCall[t].at # "backups"
      BY <1>1
    <3>2. c.at = at /\ c.op = prCall[t].op /\ c.seen = prCall[t].seen /\ c.fit = prCall[t].fit
          /\ prCall' = [prCall EXCEPT ![t] = c] /\ c \in CallRecs
      BY <1>4, <3>1, GoesIs
    <3>3. prCall[t].seen = {} /\ prCall[t].fit = {}
      BY <3>1, PlaceIs
    <3> HIDE DEF c
    <3> QED
      BY <1>1, <3>2, <3>3
  <2> HIDE DEF c
  <2>2. SeesRegistered(c) /\ c.at \notin OwingPlaces
    BY <1>1, <1>4, <2>1 DEF SeesRegistered, ReadsAt, OwingPlaces
  <2> QED
    BY <1>1, <1>2, <2>1, <2>2, QuietData
<1> QED
  BY <1>1, <1>3, <1>4

-----------------------------------------------------------------------------
(* Calls that wait for each other.                                         *)

\* A lock that nobody holds is to be had by those in its queue, and if there are none,
\* by readers.
LEMMA FreeLock ==
    ASSUME LocksInv, NEW l \in Locks, \A u \in PrCallers : ~ReadsAt(prCall[u], l) /\ ~WritesAt(prCall[u], l)
    PROVE  /\ \A t \in PrCallers : QueuesAt(prCall[t], l) => CanWrite(t, l)
           /\ (\A t \in PrCallers : ~QueuesAt(prCall[t], l)) => CanRead(l)
<1>1. \A u \in PrCallers : /\ prLocks[l].readers[u] = 0 /\ u \notin prLocks[l].writer
                           /\ u \in prLocks[l].waiting <=> QueuesAt(prCall[u], l)
  BY DEF LocksInv, Tells
<1>2. prLocks[l].writer \subseteq PrCallers /\ prLocks[l].waiting \subseteq PrCallers
  BY DEF LocksInv, LockTable, Mutex
<1>3. prLocks[l].writer = {} /\ ((\A t \in PrCallers : ~QueuesAt(prCall[t], l)) => prLocks[l].waiting = {})
  BY <1>1, <1>2
<1> QED
  BY <1>1, <1>3 DEF CanWrite, CanRead

\* A writer that gets its lock goes on.
LEMMA QueuerGoes ==
    ASSUME LocksInv, NEW t \in PrCallers, NEW l \in Locks, QueuesAt(prCall[t], l), CanWrite(t, l)
    PROVE  CanGo(t) /\ prCall[t] # NoCall
<1>1. prCall[t] # NoCall
  BY NoCallPlace
<1>2. CanGo(t)
  BY WriteLocks DEF QueuesAt, CanGo
<1> QED
  BY <1>1, <1>2

\* A reader within two locks waits because of a writer in the queue.
LEMMA InnerWaits ==
    ASSUME LocksInv, NEW t \in PrCallers, NEW l \in Locks, NEW op \in {"states", "stats"},
           prCall[t].op = op, prCall[t].at = "inner", l = Nested[op][2], ~CanGo(t)
    PROVE  /\ prLocks[l].waiting # {} /\ prLocks[l].readers[t] > 0
           /\ At(t, op, "inner") /\ prCall[t] # NoCall
<1>1. ReadsAt(prCall[t], l)
  BY NestedLocks DEF ReadsAt
<1>2. prLocks[l].readers[t] = 1
  BY <1>1 DEF LocksInv, Tells
<1>3. prLocks[l].writer = {}
  <2>1. \A u \in PrCallers : u \notin prLocks[l].writer
    <3>1. SUFFICES ASSUME NEW u \in PrCallers, WritesAt(prCall[u], l) PROVE FALSE
      BY DEF LocksInv, Tells
    <3>2. u # t
      BY <3>1 DEF WritesAt
    <3> QED
      BY <1>1, <3>1, <3>2 DEF LocksInv, Excludes
  <2>2. prLocks[l].writer \subseteq PrCallers
    BY DEF LocksInv, LockTable, Mutex
  <2> QED
    BY <2>1, <2>2
<1>4. ~CanRead(l)
  BY DEF CanGo
<1> QED
  BY <1>2, <1>3, <1>4, NoCallPlace DEF CanRead, At

\* When no call can go on, it is in one of the known ways.
LEMMA StuckIs == LocksInv => StuckOnlySo
<1> SUFFICES ASSUME LocksInv, NEW b \in PrCallers, prCall[b] # NoCall,
                    \A t \in PrCallers : prCall[t] # NoCall => ~CanGo(t),
                    ~\E t, u \in PrCallers : prCall[u] # NoCall /\ At(t, "check", "inner") /\ prCall[u].op = "close",
                    ~\E t \in PrCallers : At(t, "states", "inner") /\ prLocks["failover"].waiting # {}
                                          /\ \E u \in PrCallers : prLocks["failover"].readers[u] > 0,
                    ~\E t \in PrCallers : At(t, "stats", "inner") /\ prLocks["account"].waiting # {}
                                          /\ \E u \in PrCallers : prLocks["account"].readers[u] > 0
             PROVE  FALSE
  <2>1. \A t \in PrCallers, op \in {"check", "states", "stats"} : At(t, op, "inner") => prCall[t] # NoCall
    BY NoCallPlace DEF At
  <2> QED
    BY <2>1 DEF StuckOnlySo
<1>1. "account" \in Locks /\ "failover" \in Locks /\ "registry" \in Locks /\ "health" \in Locks
  BY DEF Locks
<1>2. \A t \in PrCallers : ~CanGo(t) \/ prCall[t] = NoCall
  OBVIOUS
<1>3. \A t \in PrCallers, l \in Locks : QueuesAt(prCall[t], l) => ~CanWrite(t, l)
  BY <1>2, QueuerGoes
<1>4. \A t \in PrCallers : prCall[t].at # "none" => prCall[t] # NoCall
  BY NoCallPlace
<1>5. \A t \in PrCallers : ~(prCall[t].op = "stats" /\ prCall[t].at = "inner")
  BY <1>1, <1>2, <1>4, NestedLocks, InnerWaits
<1>6. \A t \in PrCallers : ~(prCall[t].op = "states" /\ prCall[t].at = "inner")
  BY <1>1, <1>2, <1>4, NestedLocks, InnerWaits
<1>7. /\ \A t \in PrCallers : ~QueuesAt(prCall[t], "account")
      /\ CanRead("account")
  <2>1. \A u \in PrCallers : ~ReadsAt(prCall[u], "account") /\ ~WritesAt(prCall[u], "account")
    BY <1>5 DEF ReadsAt, WritesAt
  <2> QED
    BY <1>1, <1>3, <2>1, FreeLock
<1>8. \A t \in PrCallers : ~(prCall[t].op = "close" /\ prCall[t].at = "health")
  <2>1. SUFFICES ASSUME NEW t \in PrCallers, prCall[t].op = "close", prCall[t].at = "health"
                 PROVE  FALSE
    OBVIOUS
  <2>2. \A u \in PrCallers : ~ReadsAt(prCall[u], "health") /\ ~WritesAt(prCall[u], "health")
    BY <1>4, <2>1 DEF ReadsAt, WritesAt, At
  <2>3. QueuesAt(prCall[t], "health")
    BY <2>1 DEF QueuesAt
  <2> QED
    BY <1>1, <1>3, <2>2, <2>3, FreeLock
<1>9. /\ \A t \in PrCallers : ~QueuesAt(prCall[t], "failover")
      /\ CanRead("failover")
  <2>1. \A u \in PrCallers : ~ReadsAt(prCall[u], "failover") /\ ~WritesAt(prCall[u], "failover")
    BY <1>6, <1>8 DEF ReadsAt, WritesAt
  <2> QED
    BY <1>1, <1>3, <2>1, FreeLock
<1>10. \A t \in PrCallers : prCall[t].at \notin {"primary", "missing", "backups", "failover", "circuit"}
  <2>1. SUFFICES ASSUME NEW t \in PrCallers, prCall[t].at \in {"primary", "missing", "backups", "failover", "circuit"}
                 PROVE  FALSE
    OBVIOUS
  <2>2. prCall[t] # NoCall /\ ~CanGo(t) /\ PlaceOK(prCall[t])
    BY <1>4, <2>1 DEF LocksInv
  <2>3. prCall[t].at \notin {"primary", "backups", "circuit"}
    BY <1>9, <2>2 DEF CanGo
  <2>4. prCall[t].at \in {"missing", "failover"} => QueuesAt(prCall[t], "failover")
    BY <2>2 DEF PlaceOK, QueuesAt
  <2> QED
    BY <1>9, <2>1, <2>3, <2>4
<1>11. /\ \A t \in PrCallers : ~QueuesAt(prCall[t], "registry")
       /\ CanRead("registry")
  <2>1. \A u \in PrCallers : ~ReadsAt(prCall[u], "registry") /\ ~WritesAt(prCall[u], "registry")
    BY <1>8, <1>10 DEF ReadsAt, WritesAt
  <2> QED
    BY <1>1, <1>3, <2>1, FreeLock
<1>12. \A t \in PrCallers : prCall[t].at # "inner"
  <2>1. SUFFICES ASSUME NEW t \in PrCallers, prCall[t].at = "inner" PROVE FALSE
    OBVIOUS
  <2>2. prCall[t] # NoCall /\ ~CanGo(t) /\ PlaceOK(prCall[t])
    BY <1>4, <2>1 DEF LocksInv
  <2>3. prCall[t].op = "check"
    BY <1>5, <1>6, <2>1, <2>2 DEF PlaceOK
  <2> QED
    BY <1>11, <2>1, <2>2, <2>3, NestedLocks DEF CanGo
<1>13. /\ \A t \in PrCallers : ~QueuesAt(prCall[t], "health")
       /\ CanRead("health")
  <2>1. \A u \in PrCallers : ~ReadsAt(prCall[u], "health") /\ ~WritesAt(prCall[u], "health")
    BY <1>12 DEF ReadsAt, WritesAt
  <2> QED
    BY <1>1, <1>3, <2>1, FreeLock
<1>14. PlaceOK(prCall[b]) /\ ~CanGo(b)
  BY DEF LocksInv
<1>15. prCall[b].at = "enter" /\ prCall[b].op \in Readers \cup WriteOps
  BY <1>8, <1>10, <1>12, <1>14 DEF PlaceOK
<1>16. CASE prCall[b].op \in Readers
  <2>1. \A op \in Readers : ReadLock[op] \in Locks /\ CanRead(ReadLock[op])
    BY <1>7, <1>9, <1>11, <1>13 DEF Readers, ReadLock, Locks
  <2> QED
    BY <1>14, <1>15, <1>16, <2>1 DEF CanGo
<1>17. CASE prCall[b].op \in WriteOps
  <2>1. WriteLock[prCall[b].op] \in Locks
    BY <1>17, WriteLocks
  <2>2. QueuesAt(prCall[b], WriteLock[prCall[b].op])
    BY <1>15, <1>17 DEF QueuesAt
  <2> QED
    BY <1>7, <1>9, <1>11, <1>13, <2>1, <2>2 DEF Locks
<1> QED
  BY <1>15, <1>16, <1>17

-----------------------------------------------------------------------------
(* All of it together.                                                     *)

PrIInv == LocksInv /\ DataInv

\* What a goroutine is given.
PrFit ==
    \A t \in PrCallers :
        prCall[t].op = "pick" /\ prCall'[t] = NoCall /\ prPicked'[t] # NoProvider
        /\ prPicked'[t] # prPicked[t]
            => prPicked'[t] \in prRegistered' \cap prUp'

\* Nobody is given anything.
LEMMA KeepsFit == ASSUME UNCHANGED prPicked PROVE PrFit
BY DEF PrFit

\* One goroutine is given a provider that is fit.
LEMMA GivenFit ==
    ASSUME DataInv, NEW t \in PrCallers, NEW p \in Providers \cup {NoProvider}, Given(t, p),
           p # NoProvider => p \in prRegistered \cap prUp, UNCHANGED <<prRegistered, prUp>>
    PROVE  PrFit
<1>1. prPicked' = [prPicked EXCEPT ![t] = p] /\ prPicked \in [PrCallers -> Providers \cup {NoProvider}]
  BY DEF Given, DataInv
<1>2. \A u \in PrCallers : prPicked'[u] = IF u = t THEN p ELSE prPicked[u]
  BY <1>1
<1> QED
  BY <1>2 DEF PrFit

\* At the start.
LEMMA PrInits == PrInit => PrIInv
<1> SUFFICES ASSUME PrInit PROVE PrIInv
  OBVIOUS
<1>1. prCall \in [PrCallers -> CallRecs] /\ \A t \in PrCallers : prCall[t] = NoCall
  BY NoCallPlace DEF PrInit
<1>2. /\ prLocks \in LockTable
      /\ \A l \in Locks : prLocks[l].writer = {} /\ prLocks[l].waiting = {} /\ \A t \in PrCallers : prLocks[l].readers[t] = 0
  BY DEF PrInit, LockTable, Mutex
<1>3. LocksInv
  <2>1. \A t \in PrCallers, l \in Locks : Tells(prLocks, t, prCall[t], l) /\ Excludes(t, l)
    BY <1>1, <1>2, NoCallPlace DEF Tells, Excludes
  <2> QED
    BY <1>1, <1>2, <2>1, NoCallPlace DEF LocksInv
<1>4. Owing = {}
  BY <1>1, NoCallSees DEF Owing
<1>5. Cardinality(Owing) = 0
  BY <1>4, FS_EmptySet
<1>6. /\ prStates \in [Providers -> StateRecs] /\ prRun \in [Providers -> Nat]
      /\ \A p \in Providers : prStates[p] = NoState /\ prRun[p] = 0
  BY DEF PrInit, NoState, StateRecs, Circuits, Healths
<1>7. CircuitRight(NoState, 0)
  BY PrAssumption DEF CircuitRight, NoState
<1>8. /\ prRegistered \subseteq Providers /\ prUp \subseteq Providers
      /\ prClosed \in [{"registry", "failover", "health"} -> BOOLEAN] /\ ~prClosed["registry"]
      /\ prAccount = 0 /\ prCalls = 0
      /\ prPicked \in [PrCallers -> Providers \cup {NoProvider}]
  BY DEF PrInit
<1>9. \A t \in PrCallers : SeesRegistered(prCall[t])
  BY <1>1, NoCallSees
<1>10. DataInv
  BY <1>5, <1>6, <1>7, <1>8, <1>9, PrAssumption DEF DataInv
<1> QED
  BY <1>3, <1>10 DEF PrIInv

\* A goroutine's step.
LEMMA PrSteps ==
    ASSUME PrIInv, NEW t \in PrCallers, Step(t)
    PROVE  PrIInv' /\ PrFit
<1>1. LocksInv /\ DataInv
  BY DEF PrIInv
<1>2. ASSUME NEW op \in WriteOps \ {"close"}, Writes(t, op) PROVE LocksInv' /\ PrFit
  <2>1. prPicked' = prPicked
    BY <1>2 DEF Writes
  <2> QED
    BY <1>1, <1>2, <2>1, WritesLocks, KeepsFit
<1>3. CASE RecordFailure(t) \/ RecordSuccess(t)
  <2>1. \E op \in WriteOps \ {"close"} : Writes(t, op)
    BY <1>3 DEF RecordFailure, RecordSuccess, WriteOps
  <2> QED
    BY <1>1, <1>2, <1>3, <2>1, FailureData, SuccessData DEF PrIInv
<1>4. CASE Reset(t) \/ ResetAll(t)
  <2>1. PICK op \in {"reset", "resetAll"}, ps \in {{prCall[t].of}, Providers} : ResetStates(t, op, ps)
    BY <1>4 DEF Reset, ResetAll
  <2>2. Writes(t, op) /\ op \in WriteOps \ {"close"}
    BY <2>1 DEF ResetStates, WriteOps
  <2> QED
    BY <1>1, <1>2, <2>1, <2>2, ResetData DEF PrIInv
<1>5. CASE SetUnhealthy(t) \/ RecordUsage(t)
  <2>1. \E op \in WriteOps \ {"close"} : Writes(t, op)
    BY <1>5 DEF SetUnhealthy, RecordUsage, WriteOps
  <2> QED
    BY <1>1, <1>2, <1>5, <2>1, UnhealthyData, UsageData DEF PrIInv
<1>6. CASE Register(t) \/ Unregister(t)
  <2>1. \E op \in WriteOps \ {"close"} : Writes(t, op)
    BY <1>6 DEF Register, Unregister, WriteOps
  <2> QED
    BY <1>1, <1>2, <1>6, <2>1, RegisterData DEF PrIInv
<1>7. CASE CloseEnter(t) \/ CloseFailover(t) \/ CloseRest(t)
  <2>1. prPicked' = prPicked
    BY <1>7 DEF CloseEnter, CloseFailover, CloseRest
  <2> QED
    BY <1>1, <1>7, <2>1, CloseEnterLocks, CloseFailoverLocks, CloseRestLocks, CloseData, CloseRestData, KeepsFit DEF PrIInv
<1>8. CASE PickEnter(t) \/ PickMissing(t) \/ \E p \in Providers : PickCandidate(t, p)
  <2>1. prPicked' = prPicked
    BY <1>8 DEF PickEnter, PickMissing, PickCandidate
  <2> QED
    BY <1>1, <1>8, <2>1, PickEnterLocks, PickMissingLocks, PickCandidateLocks, PickEnterData, PickMissingData,
       PickCandidateData, KeepsFit DEF PrIInv
<1>9. CASE PickPrimary(t)
  <2>1. /\ prCall[t].of \in Providers /\ UNCHANGED <<prRegistered, prUp>>
        /\ \/ Given(t, prCall[t].of) /\ prCall[t].of \in prRegistered \cap prUp
           \/ UNCHANGED prPicked
    <3>1. prCall[t].op = "pick" /\ "pick" # "none"
      BY <1>9 DEF PickPrimary, At
    <3>2. prCall[t].of \in Providers
      BY <1>1, <3>1, PlaceIs
    <3> QED
      BY <1>9, <3>2 DEF PickPrimary
  <2>2. PrFit
    BY <1>1, <2>1, GivenFit, KeepsFit
  <2> QED
    BY <1>1, <1>9, <2>2, PickPrimaryLocks, PickPrimaryData DEF PrIInv
<1>10. ASSUME NEW p \in Providers \cup {NoProvider}, PickBackup(t, p) PROVE PrIInv' /\ PrFit
  <2>1. /\ Given(t, p) /\ UNCHANGED <<prRegistered, prUp, stateVars, prAccount, prCalls>>
        /\ prCall[t].op = "pick" /\ prCall[t].at \in {"primary", "backups"}
        /\ p # NoProvider => p \in prCall[t].fit /\ p \in prUp
    BY <1>10 DEF PickBackup, At
  <2>2. p # NoProvider => p \in prRegistered \cap prUp
    BY <1>1, <2>1 DEF DataInv, SeesRegistered
  <2>3. LocksInv'
    BY <1>1, <2>1, GivenLocks
  <2>4. DataInv'
    BY <1>1, <2>1, GivenData
  <2>5. PrFit
    BY <1>1, <2>1, <2>2, GivenFit
  <2> QED
    BY <2>3, <2>4, <2>5 DEF PrIInv
<1>11. CASE ReadOuter(t) \/ ReadInner(t) \/ ReadHealthy(t)
  <2>1. prPicked' = prPicked
    BY <1>11 DEF ReadOuter, ReadInner, ReadHealthy
  <2> QED
    BY <1>1, <1>11, <2>1, ReadOuterLocks, ReadInnerLocks, ReadHealthyLocks, ReadsData, KeepsFit DEF PrIInv
<1> QED
  BY <1>3, <1>4, <1>5, <1>6, <1>7, <1>8, <1>9, <1>10, <1>11 DEF Step

\* A step that no goroutine takes leaves the locks and the calls alone.
LEMMA PrOutside ==
    ASSUME PrIInv, UNCHANGED <<prRegistered, prClosed, prRun, prAccount, prLocks, prCall, prCalls, prPicked>>,
           prUp' \subseteq Providers, prStates' \in [Providers -> StateRecs],
           \A p \in Providers : CircuitRight(prStates'[p], prRun[p])
    PROVE  PrIInv' /\ PrFit
<1>1. LocksInv'
  BY DEF PrIInv, LocksInv, Tells, Excludes
<1>2. Owing' = Owing
  BY DEF Owing
<1>3. \A t \in PrCallers : SeesRegistered(prCall[t])'
  BY DEF PrIInv, DataInv, SeesRegistered
<1>4. DataInv'
  BY <1>2, <1>3 DEF PrIInv, DataInv
<1> QED
  BY <1>1, <1>4, KeepsFit DEF PrIInv

\* Every step, and a stutter.
LEMMA PrNexts == PrIInv /\ [PrNext]_prVars => PrIInv' /\ PrFit
<1> SUFFICES ASSUME PrIInv, [PrNext]_prVars PROVE PrIInv' /\ PrFit
  OBVIOUS
<1>1. /\ prStates \in [Providers -> StateRecs] /\ prUp \subseteq Providers
      /\ \A p \in Providers : CircuitRight(prStates[p], prRun[p])
  BY DEF PrIInv, DataInv
<1>2. ASSUME NEW p \in Providers, Turn(p) PROVE PrIInv' /\ PrFit
  <2>1. UNCHANGED <<prRegistered, prClosed, prStates, prRun, prAccount, prLocks, prCall, prCalls, prPicked>>
    BY <1>2 DEF Turn, stateVars, lockVars
  <2>2. prUp' \subseteq Providers
    BY <1>1, <1>2 DEF Turn
  <2> QED
    BY <1>1, <2>1, <2>2, PrOutside
<1>3. ASSUME NEW p \in Providers, CircuitExpires(p) PROVE PrIInv' /\ PrFit
  <2>1. /\ UNCHANGED <<prRegistered, prUp, prClosed, prRun, prAccount, prLocks, prCall, prCalls, prPicked>>
        /\ prStates[p].circuit = "open" /\ prStates' = [prStates EXCEPT ![p].circuit = "expired"]
    BY <1>3 DEF CircuitExpires, lockVars
  <2>2. prStates' \in [Providers -> StateRecs]
    BY <1>1, <2>1 DEF StateRecs, Circuits
  <2>3. \A q \in Providers : CircuitRight(prStates'[q], prRun[q])
    <3>1. \A q \in Providers \ {p} : prStates'[q] = prStates[q]
      BY <1>1, <2>1
    <3>2. prStates'[p].fails = prStates[p].fails /\ prStates'[p].circuit = "expired"
      BY <1>1, <2>1 DEF StateRecs
    <3> QED
      BY <1>1, <2>1, <3>1, <3>2 DEF CircuitRight
  <2> QED
    BY <1>1, <2>1, <2>2, <2>3, PrOutside
<1>4. ASSUME NEW t \in PrCallers, NEW op \in Readers \cup DOMAIN WriteLock, NEW p \in Providers, Call(t, op, p)
      PROVE  PrIInv' /\ PrFit
  <2>1. op \in Readers \cup WriteOps /\ prPicked' = prPicked
    BY <1>4, WriteLocks DEF Call
  <2> QED
    BY <1>4, <2>1, CallLocks, CallData, KeepsFit DEF PrIInv
<1>5. CASE UNCHANGED prVars
  <2>1. UNCHANGED <<prRegistered, prUp, prClosed, prStates, prRun, prAccount, prLocks, prCall, prCalls, prPicked>>
    BY <1>5 DEF prVars, stateVars, lockVars
  <2> QED
    BY <1>1, <2>1, PrOutside
<1> QED
  BY <1>2, <1>3, <1>4, <1>5, PrSteps DEF PrNext

\* What the invariant says of the states.
LEMMA PrHolds == PrIInv => PrTypeOK /\ CircuitFollowsCalls /\ ClosedIsEmpty /\ StuckOnlySo
<1> SUFFICES ASSUME PrIInv PROVE PrTypeOK /\ CircuitFollowsCalls /\ ClosedIsEmpty /\ StuckOnlySo
  OBVIOUS
<1>1. LocksInv /\ DataInv
  BY DEF PrIInv
<1>2. /\ \A p \in Providers : prRun[p] \in 0..MaxPrCalls
      /\ prAccount \in 0..MaxPrCalls
  <2>1. Cardinality(Owing) \in Nat
    BY OwingIsFinite
  <2>2. prCalls \in Nat /\ prCalls <= MaxPrCalls /\ MaxPrCalls \in Nat
    BY <1>1, PrAssumption DEF DataInv
  <2>3. \A p \in Providers : prRun[p] \in Nat /\ prRun[p] + Cardinality(Owing) <= prCalls
    BY <1>1 DEF DataInv
  <2>4. prAccount \in Nat /\ prAccount + Cardinality(Owing) <= prCalls
    BY <1>1 DEF DataInv
  <2> QED
    BY <2>1, <2>2, <2>3, <2>4
<1>3. ASSUME NEW l \in Locks
      PROVE  /\ prLocks[l].writer \subseteq PrCallers /\ prLocks[l].waiting \subseteq PrCallers
             /\ Cardinality(prLocks[l].writer) <= 1
             /\ prLocks[l].writer # {} => \A t \in PrCallers : prLocks[l].readers[t] = 0
  <2>1. prLocks[l].writer \subseteq PrCallers /\ prLocks[l].waiting \subseteq PrCallers
    BY <1>1 DEF LocksInv, LockTable, Mutex
  <2>2. \A t, u \in PrCallers : t \in prLocks[l].writer /\ u # t => u \notin prLocks[l].writer /\ prLocks[l].readers[u] = 0
    BY <1>1 DEF LocksInv, Tells, Excludes
  <2>3. \A t \in PrCallers : t \in prLocks[l].writer => prLocks[l].readers[t] = 0
    <3>1. \A t \in PrCallers : WritesAt(prCall[t], l) => ~ReadsAt(prCall[t], l)
      BY DEF WritesAt, ReadsAt
    <3> QED
      BY <1>1, <3>1 DEF LocksInv, Tells
  <2>4. Cardinality(prLocks[l].writer) <= 1
    <3>1. CASE prLocks[l].writer = {}
      BY <3>1, FS_EmptySet
    <3>2. ASSUME NEW t \in prLocks[l].writer PROVE Cardinality(prLocks[l].writer) <= 1
      <4>1. prLocks[l].writer = {t}
        BY <2>1, <2>2, <3>2
      <4> QED
        BY <4>1, FS_Singleton
    <3> QED
      BY <3>1, <3>2
  <2> QED
    BY <2>1, <2>2, <2>3, <2>4
<1>4. PrTypeOK
  <2>1. prRun \in [Providers -> 0..MaxPrCalls]
    BY <1>1, <1>2 DEF DataInv
  <2> QED
    BY <1>1, <1>2, <1>3, <2>1 DEF PrTypeOK, DataInv, StateRecs, Circuits, Healths
<1>5. CircuitFollowsCalls
  BY <1>1 DEF DataInv, CircuitRight, CircuitFollowsCalls
<1>6. ClosedIsEmpty
  <2>1. "registry" \in Locks
    BY DEF Locks
  <2> QED
    BY <1>1, <2>1 DEF LocksInv, Tells, DataInv, SeesRegistered, ClosedIsEmpty
<1> QED
  BY <1>1, <1>4, <1>5, <1>6, StuckIs

\* ProvidersChosen: for any goroutines, providers, priorities and threshold, the choice
\* is fit, the circuit follows the calls, a closed registry is empty, and calls wait for
\* each other for ever in the known cases only (registry.go, failover.go).
THEOREM ProvidersStayChosen == PrSpec => ProvidersChosen
<1>1. PrFit => (\A t \in PrCallers :
        prCall[t].op = "pick" /\ prCall'[t] = NoCall /\ prPicked'[t] # NoProvider
        /\ prPicked'[t] # prPicked[t]
            => prPicked'[t] \in prRegistered' \cap prUp')
  BY DEF PrFit
<1>2. PrSpec => [](PrTypeOK /\ CircuitFollowsCalls /\ ClosedIsEmpty /\ StuckOnlySo)
  BY PrInits, PrNexts, PrHolds, PTL DEF PrSpec
<1>3. PrSpec => PickedIsFit
  BY <1>1, PrInits, PrNexts, PTL DEF PrSpec, PickedIsFit
<1> QED
  BY <1>2, <1>3 DEF ProvidersChosen

-----------------------------------------------------------------------------
(* The messages of the assistant.                                          *)

ChatStates == {"none", "closed"} \cup OpenChats
MsgRecs == [pc : {"new", "queued", "done", "failed"} \cup UnderProcessing,
            of : {"none"} \cup ChatSessions, text : BOOLEAN]
Entries == [role : {"user", "assistant"}, of : ChatMessages]
Answers == [kind : {"answer", "error"}, of : ChatMessages]

\* A conversation has the question of a message, and its answer behind it.
AskedIn(h, m) == \E q \in 1..Len(h) : h[q] = [role |-> "user", of |-> m]
RecordedIn(h, m) ==
    \E q, a \in 1..Len(h) :
        q < a /\ h[q] = [role |-> "user", of |-> m] /\ h[a] = [role |-> "assistant", of |-> m]

\* What is put into a conversation takes nothing from it.
LEMMA EntryAdded ==
    ASSUME NEW h \in Seq(Entries), NEW e \in Entries
    PROVE  /\ Append(h, e) \in Seq(Entries)
           /\ Len(Append(h, e)) >= Len(h) /\ SubSeq(Append(h, e), 1, Len(h)) = h
           /\ \A m \in ChatMessages : /\ AskedIn(h, m) => AskedIn(Append(h, e), m)
                                      /\ RecordedIn(h, m) => RecordedIn(Append(h, e), m)
           /\ \A m \in ChatMessages : /\ e = [role |-> "user", of |-> m] => AskedIn(Append(h, e), m)
                                      /\ e = [role |-> "assistant", of |-> m] /\ AskedIn(h, m)
                                            => RecordedIn(Append(h, e), m)
<1> DEFINE a == Append(h, e)
<1>1. /\ a \in Seq(Entries) /\ Len(a) = Len(h) + 1 /\ a[Len(h) + 1] = e /\ Len(h) \in Nat
      /\ \A i \in 1..Len(h) : a[i] = h[i]
  BY AppendProperties, LenProperties
<1> HIDE DEF a
<1>2. SubSeq(a, 1, Len(h)) = h
  <2> DEFINE b == SubSeq(a, 1, Len(h))
  <2>1. \A i \in 1..Len(h) : a[i] \in Entries
    BY <1>1, LenProperties
  <2>2. b \in Seq(Entries) /\ Len(b) = Len(h) /\ \A i \in 1..Len(h) : b[i] = h[i]
    BY <1>1, <2>1, SubSeqProperties
  <2> HIDE DEF b
  <2>3. b = h
    BY <2>2, SeqEqual
  <2> QED
    BY <2>3 DEF b
<1>3. ASSUME NEW m \in ChatMessages
      PROVE  /\ AskedIn(h, m) => AskedIn(a, m)
             /\ RecordedIn(h, m) => RecordedIn(a, m)
  BY <1>1 DEF AskedIn, RecordedIn
<1>4. ASSUME NEW m \in ChatMessages
      PROVE  /\ e = [role |-> "user", of |-> m] => AskedIn(a, m)
             /\ e = [role |-> "assistant", of |-> m] /\ AskedIn(h, m) => RecordedIn(a, m)
  <2>1. Len(h) + 1 \in 1..Len(a) /\ \A q \in 1..Len(h) : q \in 1..Len(a) /\ q < Len(h) + 1
    BY <1>1
  <2> QED
    BY <1>1, <2>1 DEF AskedIn, RecordedIn
<1> QED
  BY <1>1, <1>2, <1>3, <1>4 DEF a

\* Those under way.
Busy == {m \in ChatMessages : aaMsg[m].pc \in UnderProcessing}

\* Every variable has its type, and the counter is right.
AaTyped ==
    /\ aaState \in {"registering", "idle", "unregistering", "terminated"}
    /\ aaReady \in BOOLEAN /\ aaLooping \in BOOLEAN /\ aaManager \in BOOLEAN
    /\ aaStream \in {"none", "connected", "lost"}
    /\ aaShutdown \in {"no", "waiting", "closing", "done"}
    /\ aaMsg \in [ChatMessages -> MsgRecs]
    /\ aaQueue \in Seq(ChatMessages) /\ aaJobs \in Seq(ChatMessages)
    /\ aaSessions \in [ChatSessions -> ChatStates]
    /\ aaHistory \in [ChatSessions -> Seq(Entries)]
    /\ aaSent \in Seq(Answers)
    /\ aaActive \in 0..MaxActive /\ aaActive = Cardinality(Busy)

\* Who waits in the queue waits there once.
QueuedOnce ==
    /\ \A i \in 1..Len(aaQueue) : aaMsg[aaQueue[i]].pc = "queued"
    /\ \A i, j \in 1..Len(aaQueue) : aaQueue[i] = aaQueue[j] => i = j

\* What was sent was sent last.
SentLast == \A i \in 1..Len(aaSent) : aaMsg[aaSent[i].of].pc \in {"done", "failed"}

\* How far a message is tells what of it is in the conversation.
ToldSoFar ==
    /\ \A m \in ChatMessages : aaMsg[m].pc # "new" => aaMsg[m].of \in ChatSessions
    /\ \A m \in ChatMessages : aaMsg[m].pc \in {"added", "model", "tool", "record"} =>
            AskedIn(aaHistory[aaMsg[m].of], m)
    /\ \A m \in ChatMessages : aaMsg[m].pc = "respond" /\ aaMsg[m].text =>
            RecordedIn(aaHistory[aaMsg[m].of], m)
    /\ \A i \in 1..Len(aaSent) : aaSent[i].kind = "answer" /\ aaMsg[aaSent[i].of].text =>
            RecordedIn(aaHistory[aaMsg[aaSent[i].of].of], aaSent[i].of)

\* An agent that is not registered has no work, nor has one that is closing; one that
\* is shut down has neither stream nor sessions.
WorksWhenReady ==
    /\ ~aaReady /\ ~IsShutdown => ~aaLooping /\ aaActive = 0
    /\ IsShutdown => ~aaReady /\ aaStream # "connected"
    /\ aaShutdown \in {"closing", "done"} => aaActive = 0 /\ aaJobs = << >>
    /\ aaShutdown = "done" => ~aaManager /\ \A s \in ChatSessions : aaSessions[s] \notin OpenChats

\* The inductive invariant of the assistant.
AaIInv == AaTyped /\ QueuedOnce /\ SentLast /\ AnsweredOnce /\ ToldSoFar /\ ChatsBounded /\ WorksWhenReady

\* What no step does.
AaKeeps ==
    \A s \in ChatSessions :
        /\ Len(aaHistory'[s]) >= Len(aaHistory[s])
        /\ SubSeq(aaHistory'[s], 1, Len(aaHistory[s])) = aaHistory[s]

\* A conversation that stays as it is.
LEMMA AaSame ==
    ASSUME aaHistory \in [ChatSessions -> Seq(Entries)], aaHistory' = aaHistory
    PROVE  AaKeeps
<1>1. SUFFICES ASSUME NEW s \in ChatSessions
               PROVE  Len(aaHistory[s]) >= Len(aaHistory[s]) /\ SubSeq(aaHistory[s], 1, Len(aaHistory[s])) = aaHistory[s]
  BY DEF AaKeeps
<1>2. aaHistory[s] \in Seq(Entries)
  OBVIOUS
<1> QED
  BY <1>2, SubSeqFull, LenProperties

\* The messages under way are few.
LEMMA BusyIsFinite == IsFiniteSet(Busy) /\ IsFiniteSet(ChatMessages) /\ Cardinality(Busy) \in Nat
<1>1. IsFiniteSet(ChatMessages)
  BY AaAssumption, FS_Interval DEF ChatMessages
<1>2. Busy \subseteq ChatMessages
  BY DEF Busy
<1> QED
  BY <1>1, <1>2, FS_Subset, FS_CardinalityType

\* At the start.
LEMMA AaInits == AaInit => AaIInv
<1> SUFFICES ASSUME AaInit PROVE AaIInv
  OBVIOUS
<1>1. \A m \in ChatMessages : aaMsg[m] = [pc |-> "new", of |-> "none", text |-> FALSE]
  BY DEF AaInit
<1>2. aaMsg \in [ChatMessages -> MsgRecs]
  BY DEF AaInit, MsgRecs
<1>3. Busy = {}
  BY <1>1 DEF Busy, UnderProcessing, InMicrotask, Outside
<1>4. Len(<< >>) = 0 /\ << >> \in Seq(ChatMessages) /\ << >> \in Seq(Entries) /\ << >> \in Seq(Answers)
  BY EmptySeq
<1>5. AaTyped
  <2>1. 0 = Cardinality(Busy) /\ 0 \in 0..MaxActive
    BY <1>3, FS_EmptySet, AaAssumption
  <2>2. /\ aaState = "registering" /\ aaReady = FALSE /\ aaLooping = FALSE /\ aaManager = TRUE
        /\ aaStream = "none" /\ aaShutdown = "no" /\ aaActive = 0
        /\ aaQueue = << >> /\ aaJobs = << >> /\ aaSent = << >>
        /\ aaSessions \in [ChatSessions -> ChatStates] /\ aaHistory \in [ChatSessions -> Seq(Entries)]
    BY <1>4 DEF AaInit, ChatStates
  <2> QED
    BY <1>2, <1>4, <2>1, <2>2 DEF AaTyped
<1>6. QueuedOnce /\ SentLast /\ AnsweredOnce /\ ToldSoFar
  BY <1>1, <1>4 DEF AaInit, QueuedOnce, SentLast, AnsweredOnce, ToldSoFar
<1>7. {s \in ChatSessions : aaSessions[s] # "none"} = {}
  BY DEF AaInit
<1>8. ChatsBounded
  BY <1>7, FS_EmptySet, AaAssumption DEF ChatsBounded
<1>9. WorksWhenReady
  BY DEF AaInit, WorksWhenReady, IsShutdown
<1> QED
  BY <1>5, <1>6, <1>8, <1>9 DEF AaIInv

-----------------------------------------------------------------------------
(* A message under way goes on.                                            *)

\* The queue and the counter when a message goes on.
LEMMA BusyMoves ==
    ASSUME AaIInv, NEW m \in ChatMessages, aaMsg[m].pc \in UnderProcessing, NEW r \in MsgRecs,
           aaMsg' = [aaMsg EXCEPT ![m] = r], r.pc \in UnderProcessing \cup {"done", "failed"}, aaQueue' = aaQueue
    PROVE  /\ aaMsg' \in [ChatMessages -> MsgRecs] /\ aaMsg'[m] = r
           /\ \A n \in ChatMessages : n # m => aaMsg'[n] = aaMsg[n]
           /\ QueuedOnce'
           /\ Cardinality(Busy') = (IF r.pc \in UnderProcessing THEN Cardinality(Busy) ELSE Cardinality(Busy) - 1)
           /\ Cardinality(Busy) > 0
<1>1. /\ aaMsg' \in [ChatMessages -> MsgRecs] /\ aaMsg'[m] = r
      /\ \A n \in ChatMessages : n # m => aaMsg'[n] = aaMsg[n]
  BY DEF AaIInv, AaTyped
<1>2. "queued" \notin UnderProcessing /\ "done" \notin UnderProcessing /\ "failed" \notin UnderProcessing
      /\ "new" \notin UnderProcessing
  BY DEF UnderProcessing, InMicrotask, Outside
<1>3. QueuedOnce'
  <2>1. aaQueue \in Seq(ChatMessages)
    BY DEF AaIInv, AaTyped
  <2>2. \A i \in 1..Len(aaQueue) : aaQueue[i] \in ChatMessages
    BY <2>1, LenProperties
  <2>3. \A i \in 1..Len(aaQueue) : aaMsg[aaQueue[i]].pc = "queued"
    BY DEF AaIInv, QueuedOnce
  <2>4. \A i \in 1..Len(aaQueue) : aaMsg'[aaQueue[i]].pc = "queued"
    BY <1>1, <1>2, <2>2, <2>3
  <2> QED
    BY <2>4 DEF AaIInv, QueuedOnce
<1>4. m \in Busy /\ IsFiniteSet(Busy) /\ Cardinality(Busy) \in Nat
  BY BusyIsFinite DEF Busy
<1>5. Cardinality(Busy \ {m}) = Cardinality(Busy) - 1 /\ Cardinality(Busy \ {m}) \in Nat
  BY <1>4, FS_RemoveElement, FS_CardinalityType
<1>6. CASE r.pc \in UnderProcessing
  <2>1. Busy' = Busy
    BY <1>1, <1>6 DEF Busy
  <2> QED
    BY <1>1, <1>3, <1>4, <1>5, <1>6, <2>1
<1>7. CASE r.pc \notin UnderProcessing
  <2>1. Busy' = Busy \ {m}
    BY <1>1, <1>7 DEF Busy
  <2> QED
    BY <1>1, <1>3, <1>4, <1>5, <1>7, <2>1
<1> QED
  BY <1>6, <1>7

\* What is in a conversation stays there.
TellsMore ==
    \A s \in ChatSessions, m \in ChatMessages :
        /\ AskedIn(aaHistory[s], m) => AskedIn(aaHistory'[s], m)
        /\ RecordedIn(aaHistory[s], m) => RecordedIn(aaHistory'[s], m)

\* A message under way goes on or ends.
LEMMA BusyStep ==
    ASSUME AaIInv, NEW m \in ChatMessages, aaMsg[m].pc \in UnderProcessing, NEW r \in MsgRecs,
           aaMsg' = [aaMsg EXCEPT ![m] = r], r.of = aaMsg[m].of,
           r.pc \in UnderProcessing \cup {"done", "failed"},
           UNCHANGED <<agentVars, aaQueue, aaManager>>, aaJobs' \in Seq(ChatMessages),
           aaSessions' \in [ChatSessions -> ChatStates], ChatsBounded',
           aaHistory' \in [ChatSessions -> Seq(Entries)], TellsMore,
           aaActive' = IF r.pc \in UnderProcessing THEN aaActive ELSE aaActive - 1,
           NEW k \in {"none", "answer", "error"},
           aaSent' = (IF k = "none" THEN aaSent ELSE Append(aaSent, [kind |-> k, of |-> m])),
           k # "none" => r.pc \in {"done", "failed"}, r.pc = "done" => k = "answer",
           r.pc \in {"added", "model", "tool", "record"} => AskedIn(aaHistory'[r.of], m),
           r.pc = "respond" /\ r.text => RecordedIn(aaHistory'[r.of], m),
           k = "answer" /\ r.text => RecordedIn(aaHistory'[r.of], m)
    PROVE  AaIInv'
<1>1. /\ aaMsg' \in [ChatMessages -> MsgRecs] /\ aaMsg'[m] = r
      /\ \A n \in ChatMessages : n # m => aaMsg'[n] = aaMsg[n]
      /\ QueuedOnce'
      /\ Cardinality(Busy') = (IF r.pc \in UnderProcessing THEN Cardinality(Busy) ELSE Cardinality(Busy) - 1)
      /\ Cardinality(Busy) > 0
  BY BusyMoves
<1>2. "queued" \notin UnderProcessing /\ "done" \notin UnderProcessing /\ "failed" \notin UnderProcessing
      /\ "new" \notin UnderProcessing
  BY DEF UnderProcessing, InMicrotask, Outside
<1>3. aaActive \in 0..MaxActive /\ aaActive = Cardinality(Busy) /\ aaSent \in Seq(Answers) /\ MaxActive \in Nat
  BY AaAssumption DEF AaIInv, AaTyped
<1>4. aaActive' \in 0..MaxActive /\ aaActive' = Cardinality(Busy')
  BY <1>1, <1>3
<1>5. /\ aaSent' \in Seq(Answers)
      /\ k = "none" => aaSent' = aaSent
      /\ k # "none" => /\ Len(aaSent') = Len(aaSent) + 1
                       /\ aaSent'[Len(aaSent) + 1] = [kind |-> k, of |-> m]
                       /\ \A i \in 1..Len(aaSent) : aaSent'[i] = aaSent[i]
      /\ Len(aaSent) \in Nat
  <2>1. [kind |-> k, of |-> m] \in Answers \/ k = "none"
    BY DEF Answers
  <2> QED
    BY <1>3, <2>1, AppendProperties, LenProperties
<1>6. AaTyped'
  BY <1>1, <1>4, <1>5 DEF AaIInv, AaTyped, agentVars
<1>7. \A i \in 1..Len(aaSent) : aaSent[i] \in Answers /\ aaSent[i].of \in ChatMessages /\ aaSent[i].of # m
  <2>1. \A i \in 1..Len(aaSent) : aaSent[i] \in Answers
    BY <1>3, LenProperties
  <2>2. \A i \in 1..Len(aaSent) : aaMsg[aaSent[i].of].pc \in {"done", "failed"}
    BY DEF AaIInv, SentLast
  <2> QED
    BY <1>2, <2>1, <2>2 DEF Answers
<1>8. \A i \in 1..Len(aaSent') : \/ i \in 1..Len(aaSent) /\ aaSent'[i] = aaSent[i]
                                 \/ k # "none" /\ i = Len(aaSent) + 1 /\ aaSent'[i] = [kind |-> k, of |-> m]
  BY <1>5
<1>9. SentLast'
  <2>1. SUFFICES ASSUME NEW i \in 1..Len(aaSent') PROVE aaMsg'[aaSent'[i].of].pc \in {"done", "failed"}
    BY DEF SentLast
  <2>2. CASE i \in 1..Len(aaSent) /\ aaSent'[i] = aaSent[i]
    BY <1>1, <1>7, <2>2 DEF AaIInv, SentLast
  <2>3. CASE k # "none" /\ aaSent'[i] = [kind |-> k, of |-> m]
    BY <1>1, <2>3
  <2> QED
    BY <1>8, <2>2, <2>3
<1>10. AnsweredOnce'
  <2>1. ASSUME NEW i \in 1..Len(aaSent'), NEW j \in 1..Len(aaSent'), aaSent'[i].of = aaSent'[j].of
        PROVE  i = j
    <3>1. \A l \in 1..Len(aaSent') : aaSent'[l].of = m <=> l \notin 1..Len(aaSent)
      BY <1>5, <1>7, <1>8
    <3>2. CASE i \in 1..Len(aaSent)
      BY <1>8, <2>1, <3>1, <3>2 DEF AaIInv, AnsweredOnce
    <3>3. CASE i \notin 1..Len(aaSent)
      BY <1>8, <2>1, <3>1, <3>3
    <3> QED
      BY <3>2, <3>3
  <2>2. ASSUME NEW n \in ChatMessages, aaMsg'[n].pc = "done"
        PROVE  \E i \in 1..Len(aaSent') : aaSent'[i] = [kind |-> "answer", of |-> n]
    <3>1. CASE n = m
      <4>1. k = "answer"
        BY <1>1, <2>2, <3>1
      <4> QED
        BY <1>5, <3>1, <4>1
    <3>2. CASE n # m
      <4>1. PICK i \in 1..Len(aaSent) : aaSent[i] = [kind |-> "answer", of |-> n]
        BY <1>1, <2>2, <3>2 DEF AaIInv, AnsweredOnce
      <4> QED
        BY <1>5, <4>1
    <3> QED
      BY <3>1, <3>2
  <2> QED
    BY <2>1, <2>2 DEF AnsweredOnce
<1>11. \A n \in ChatMessages : aaMsg'[n].of = aaMsg[n].of
  BY <1>1
<1>12. ToldSoFar'
  <2>1. \A n \in ChatMessages : aaMsg'[n].pc # "new" => aaMsg'[n].of \in ChatSessions
    BY <1>1, <1>2, <1>11 DEF AaIInv, ToldSoFar
  <2>2. ASSUME NEW n \in ChatMessages, aaMsg'[n].pc \in {"added", "model", "tool", "record"}
        PROVE  AskedIn(aaHistory'[aaMsg'[n].of], n)
    <3>1. CASE n = m
      BY <1>1, <2>2, <3>1
    <3>2. CASE n # m
      BY <1>1, <2>1, <2>2, <3>2 DEF AaIInv, ToldSoFar, TellsMore
    <3> QED
      BY <3>1, <3>2
  <2>3. ASSUME NEW n \in ChatMessages, aaMsg'[n].pc = "respond", aaMsg'[n].text
        PROVE  RecordedIn(aaHistory'[aaMsg'[n].of], n)
    <3>1. CASE n = m
      BY <1>1, <2>3, <3>1
    <3>2. CASE n # m
      BY <1>1, <2>1, <2>3, <3>2 DEF AaIInv, ToldSoFar, TellsMore
    <3> QED
      BY <3>1, <3>2
  <2>4. ASSUME NEW i \in 1..Len(aaSent'), aaSent'[i].kind = "answer", aaMsg'[aaSent'[i].of].text
        PROVE  RecordedIn(aaHistory'[aaMsg'[aaSent'[i].of].of], aaSent'[i].of)
    <3>1. CASE i \in 1..Len(aaSent) /\ aaSent'[i] = aaSent[i]
      <4> DEFINE n == aaSent[i].of
      <4>1. n \in ChatMessages /\ n # m /\ aaMsg[n].pc \in {"done", "failed"} /\ aaSent[i].kind = "answer"
        BY <1>7, <2>4, <3>1 DEF AaIInv, SentLast
      <4>2. aaMsg'[n] = aaMsg[n] /\ aaMsg[n].text /\ aaMsg[n].of \in ChatSessions
        BY <1>1, <2>4, <3>1, <4>1 DEF AaIInv, ToldSoFar
      <4>3. RecordedIn(aaHistory[aaMsg[n].of], n)
        BY <3>1, <4>1, <4>2 DEF AaIInv, ToldSoFar
      <4> QED
        BY <3>1, <4>1, <4>2, <4>3 DEF TellsMore
    <3>2. CASE k # "none" /\ aaSent'[i] = [kind |-> k, of |-> m]
      BY <1>1, <2>4, <3>2
    <3> QED
      BY <1>8, <3>1, <3>2
  <2> QED
    BY <2>1, <2>2, <2>3, <2>4 DEF ToldSoFar
<1>13. WorksWhenReady'
  <2>1. aaActive # 0
    BY <1>1, <1>3
  <2>2. aaShutdown \notin {"closing", "done"} /\ (aaReady \/ IsShutdown)
    BY <2>1 DEF AaIInv, WorksWhenReady
  <2> QED
    BY <2>1, <2>2 DEF AaIInv, WorksWhenReady, IsShutdown, agentVars
<1> QED
  BY <1>1, <1>6, <1>9, <1>10, <1>12, <1>13 DEF AaIInv

\* The conversations do not change.
LEMMA SameTells == ASSUME aaHistory' = aaHistory PROVE TellsMore
BY DEF TellsMore

\* The number of sessions does not change.
LEMMA SameBound ==
    ASSUME ChatsBounded, \A s \in ChatSessions : aaSessions'[s] # "none" <=> aaSessions[s] # "none"
    PROVE  ChatsBounded'
<1>1. {s \in ChatSessions : aaSessions'[s] # "none"} = {s \in ChatSessions : aaSessions[s] # "none"}
  OBVIOUS
<1> QED
  BY <1>1 DEF ChatsBounded

\* What a hop is.
LEMMA HopIs ==
    ASSUME AaIInv, NEW m \in ChatMessages, NEW from \in UnderProcessing,
           NEW to \in UnderProcessing \cup {"done", "failed"}, Hop(m, from, to)
    PROVE  LET r == [aaMsg[m] EXCEPT !.pc = to]
           IN  /\ aaMsg[m].pc = from /\ r \in MsgRecs /\ aaMsg' = [aaMsg EXCEPT ![m] = r]
               /\ r.pc = to /\ r.of = aaMsg[m].of /\ r.text = aaMsg[m].text
               /\ r.of \in ChatSessions
               /\ UNCHANGED <<agentVars, aaQueue, aaManager>> /\ aaJobs' \in Seq(ChatMessages)
<1>1. aaMsg \in [ChatMessages -> MsgRecs] /\ aaMsg[m] \in MsgRecs /\ aaJobs \in Seq(ChatMessages)
  BY DEF AaIInv, AaTyped
<1>2. aaMsg[m].pc = from /\ UNCHANGED <<agentVars, aaQueue, aaManager>>
  BY DEF Hop
<1>3. aaMsg[m].of \in ChatSessions
  <2>1. from # "new"
    BY DEF UnderProcessing, InMicrotask, Outside
  <2> QED
    BY <1>2, <2>1 DEF AaIInv, ToldSoFar
<1>4. aaJobs' \in Seq(ChatMessages)
  <2>1. Tail(aaJobs) \in Seq(ChatMessages)
    BY <1>1, HeadTailProperties DEF Hop
  <2>2. Append(Tail(aaJobs), m) \in Seq(ChatMessages)
    BY <2>1, AppendProperties
  <2> QED
    BY <2>1, <2>2 DEF Hop
<1> DEFINE r == [aaMsg[m] EXCEPT !.pc = to]
<1>5. r \in MsgRecs /\ r.pc = to /\ r.of = aaMsg[m].of /\ r.text = aaMsg[m].text
  BY <1>1 DEF MsgRecs
<1>6. aaMsg' = [aaMsg EXCEPT ![m] = r]
  BY <1>1 DEF Hop
<1> QED
  BY <1>2, <1>3, <1>4, <1>5, <1>6

\* A session for the message.
LEMMA CreateStep ==
    ASSUME AaIInv, NEW m \in ChatMessages, CreateChat(m)
    PROVE  AaIInv' /\ AaKeeps
<1> DEFINE s == aaMsg[m].of
           open == {t \in ChatSessions : aaSessions[t] # "none"}
           ok == aaManager /\ aaSessions[s] = "none" /\ Cardinality(open) < MaxChats
           to == IF ok THEN "found" ELSE "fail"
           r == [aaMsg[m] EXCEPT !.pc = to]
<1>1. Hop(m, "missing", to) /\ UNCHANGED <<aaActive, aaHistory, aaSent>>
      /\ aaSessions' = (IF ok THEN [aaSessions EXCEPT ![s] = "active"] ELSE aaSessions)
  BY DEF CreateChat
<1>2. "missing" \in UnderProcessing /\ to \in UnderProcessing /\ to \notin {"added", "model", "tool", "record", "respond"}
  BY DEF UnderProcessing, InMicrotask, Outside
<1>3. /\ aaMsg[m].pc = "missing" /\ r \in MsgRecs /\ aaMsg' = [aaMsg EXCEPT ![m] = r]
      /\ r.pc = to /\ r.of = s /\ s \in ChatSessions
      /\ UNCHANGED <<agentVars, aaQueue, aaManager>> /\ aaJobs' \in Seq(ChatMessages)
  BY <1>1, <1>2, HopIs
<1> HIDE DEF to, r
<1>4. aaSessions \in [ChatSessions -> ChatStates] /\ aaHistory \in [ChatSessions -> Seq(Entries)] /\ ChatsBounded
  BY DEF AaIInv, AaTyped
<1>5. aaSessions' \in [ChatSessions -> ChatStates]
  BY <1>1, <1>4 DEF ChatStates, OpenChats
<1>6. ChatsBounded'
  <2>1. CASE ok
    <3>1. {t \in ChatSessions : aaSessions'[t] # "none"} = open \cup {s} /\ s \notin open
      BY <1>1, <1>3, <1>4, <2>1
    <3>2. IsFiniteSet(open) /\ Cardinality(open) \in Nat
      BY AaAssumption, FS_Subset, FS_CardinalityType
    <3>3. Cardinality(open \cup {s}) = Cardinality(open) + 1
      BY <3>1, <3>2, FS_AddElement
    <3>4. Cardinality(open) + 1 <= MaxChats
      BY <2>1, <3>2, AaAssumption
    <3> QED
      BY <3>1, <3>3, <3>4 DEF ChatsBounded
  <2>2. CASE ~ok
    BY <1>1, <1>4, <2>2, SameBound
  <2> QED
    BY <2>1, <2>2
<1> HIDE DEF ok, open, s
<1>7. /\ TellsMore /\ AaKeeps /\ aaHistory' \in [ChatSessions -> Seq(Entries)]
      /\ aaActive' = (IF r.pc \in UnderProcessing THEN aaActive ELSE aaActive - 1)
      /\ aaSent' = (IF "none" = "none" THEN aaSent ELSE Append(aaSent, [kind |-> "none", of |-> m]))
      /\ aaMsg[m].pc \in UnderProcessing /\ r.pc \in UnderProcessing \cup {"done", "failed"} /\ r.pc # "done"
      /\ r.pc \notin {"added", "model", "tool", "record", "respond"} /\ r.of = aaMsg[m].of
  BY <1>1, <1>2, <1>3, <1>4, SameTells, AaSame DEF s, UnderProcessing, InMicrotask, Outside
<1>8. AaIInv'
  BY <1>3, <1>5, <1>6, <1>7, BusyStep
<1> QED
  BY <1>7, <1>8

\* A question or an answer is put into the session.
LEMMA AddStep ==
    ASSUME AaIInv, NEW m \in ChatMessages, NEW role, NEW from, NEW to, AddTo(m, role, from, to),
           \/ role = "user" /\ from = "found" /\ to = "added"
           \/ role = "assistant" /\ from = "record" /\ to = "respond"
    PROVE  AaIInv' /\ AaKeeps
<1> DEFINE s == aaMsg[m].of
           ok == aaManager /\ aaSessions[s] \in OpenChats
           e == [role |-> role, of |-> m]
           next == IF ok THEN to ELSE "fail"
           r == [aaMsg[m] EXCEPT !.pc = next]
<1>1. Hop(m, from, next) /\ UNCHANGED <<aaActive, aaSent>>
      /\ aaHistory' = (IF ok THEN [aaHistory EXCEPT ![s] = Append(@, e)] ELSE aaHistory)
      /\ aaSessions' = (IF ok THEN [aaSessions EXCEPT ![s] = "active"] ELSE aaSessions)
  BY DEF AddTo
<1>2. from \in UnderProcessing /\ next \in UnderProcessing /\ next \notin {"model", "tool", "record", "done"}
  BY DEF UnderProcessing, InMicrotask, Outside
<1>3. /\ aaMsg[m].pc = from /\ r \in MsgRecs /\ aaMsg' = [aaMsg EXCEPT ![m] = r]
      /\ r.pc = next /\ r.of = s /\ s \in ChatSessions
      /\ UNCHANGED <<agentVars, aaQueue, aaManager>> /\ aaJobs' \in Seq(ChatMessages)
  BY <1>1, <1>2, HopIs
<1> HIDE DEF r
<1>4. /\ aaSessions \in [ChatSessions -> ChatStates] /\ aaHistory \in [ChatSessions -> Seq(Entries)] /\ ChatsBounded
      /\ e \in Entries
  BY DEF AaIInv, AaTyped, Entries
<1>5. aaSessions' \in [ChatSessions -> ChatStates]
  BY <1>1, <1>4 DEF ChatStates, OpenChats
<1>6. ChatsBounded'
  <2>1. \A t \in ChatSessions : aaSessions'[t] # "none" <=> aaSessions[t] # "none"
    BY <1>1, <1>3, <1>4 DEF OpenChats
  <2> QED
    BY <1>4, <2>1, SameBound
<1> HIDE DEF e
<1>7. /\ aaHistory' \in [ChatSessions -> Seq(Entries)] /\ TellsMore /\ AaKeeps
      /\ ok /\ role = "user" => AskedIn(aaHistory'[s], m)
      /\ ok /\ role = "assistant" /\ AskedIn(aaHistory[s], m) => RecordedIn(aaHistory'[s], m)
  <2>1. CASE ~ok
    BY <1>1, <1>4, <2>1, SameTells, AaSame
  <2>2. CASE ok
    <3> DEFINE h == aaHistory[s]
    <3>1. /\ h \in Seq(Entries) /\ aaHistory' = [aaHistory EXCEPT ![s] = Append(h, e)]
      BY <1>1, <1>3, <1>4, <2>2
    <3>2. /\ Append(h, e) \in Seq(Entries)
          /\ Len(Append(h, e)) >= Len(h) /\ SubSeq(Append(h, e), 1, Len(h)) = h
          /\ \A n \in ChatMessages : /\ AskedIn(h, n) => AskedIn(Append(h, e), n)
                                     /\ RecordedIn(h, n) => RecordedIn(Append(h, e), n)
          /\ e = [role |-> "user", of |-> m] => AskedIn(Append(h, e), m)
          /\ e = [role |-> "assistant", of |-> m] /\ AskedIn(h, m) => RecordedIn(Append(h, e), m)
      BY <1>4, <3>1, EntryAdded
    <3>3. \A t \in ChatSessions : aaHistory'[t] = IF t = s THEN Append(h, e) ELSE aaHistory[t]
      BY <1>4, <3>1
    <3>4. \A t \in ChatSessions : Len(aaHistory[t]) >= Len(aaHistory[t]) /\ SubSeq(aaHistory[t], 1, Len(aaHistory[t])) = aaHistory[t]
      <4>1. SUFFICES ASSUME NEW t \in ChatSessions
                     PROVE  Len(aaHistory[t]) >= Len(aaHistory[t]) /\ SubSeq(aaHistory[t], 1, Len(aaHistory[t])) = aaHistory[t]
        OBVIOUS
      <4>2. aaHistory[t] \in Seq(Entries)
        BY <1>4
      <4> QED
        BY <4>2, SubSeqFull, LenProperties
    <3>5. aaHistory' \in [ChatSessions -> Seq(Entries)]
      BY <1>4, <3>1, <3>2
    <3>6. TellsMore
      BY <3>2, <3>3 DEF TellsMore
    <3>7. AaKeeps
      BY <3>2, <3>3, <3>4 DEF AaKeeps
    <3> QED
      BY <1>3, <3>2, <3>3, <3>5, <3>6, <3>7 DEF e
  <2> QED
    BY <2>1, <2>2
<1>8. from = "record" => AskedIn(aaHistory[s], m)
  BY <1>3 DEF AaIInv, ToldSoFar
<1> HIDE DEF ok, s
<1>9. /\ aaActive' = (IF r.pc \in UnderProcessing THEN aaActive ELSE aaActive - 1)
      /\ aaSent' = (IF "none" = "none" THEN aaSent ELSE Append(aaSent, [kind |-> "none", of |-> m]))
      /\ aaMsg[m].pc \in UnderProcessing /\ r.pc \in UnderProcessing \cup {"done", "failed"} /\ r.pc # "done"
      /\ r.pc \in {"added", "model", "tool", "record"} => AskedIn(aaHistory'[r.of], m)
      /\ r.pc = "respond" /\ r.text => RecordedIn(aaHistory'[r.of], m)
      /\ r.of = aaMsg[m].of
  <2>1. r.pc \in {"added", "model", "tool", "record"} => ok /\ role = "user"
    BY <1>2, <1>3
  <2>2. r.pc = "respond" => ok /\ role = "assistant" /\ from = "record"
    BY <1>3
  <2> QED
    BY <1>1, <1>2, <1>3, <1>7, <1>8, <2>1, <2>2 DEF s
<1>10. AaIInv'
  BY <1>3, <1>5, <1>6, <1>7, <1>9, BusyStep
<1> QED
  BY <1>7, <1>10

\* A step that leaves the sessions alone, and what is sent.
LEMMA ElseStep ==
    ASSUME AaIInv, NEW m \in ChatMessages, aaMsg[m].pc \in UnderProcessing, NEW r \in MsgRecs,
           aaMsg' = [aaMsg EXCEPT ![m] = r], r.of = aaMsg[m].of,
           r.pc \in UnderProcessing \cup {"done", "failed"},
           UNCHANGED <<agentVars, aaQueue, chatVars>>, aaJobs' \in Seq(ChatMessages),
           aaActive' = IF r.pc \in UnderProcessing THEN aaActive ELSE aaActive - 1,
           NEW k \in {"none", "answer", "error"},
           aaSent' = (IF k = "none" THEN aaSent ELSE Append(aaSent, [kind |-> k, of |-> m])),
           k # "none" => r.pc \in {"done", "failed"}, r.pc = "done" => k = "answer",
           r.pc \in {"added", "model", "tool", "record"} => AskedIn(aaHistory[r.of], m),
           r.pc = "respond" /\ r.text => RecordedIn(aaHistory[r.of], m),
           k = "answer" /\ r.text => RecordedIn(aaHistory[r.of], m)
    PROVE  AaIInv' /\ AaKeeps
<1>1. /\ aaSessions \in [ChatSessions -> ChatStates] /\ aaHistory \in [ChatSessions -> Seq(Entries)] /\ ChatsBounded
      /\ aaSessions' = aaSessions /\ aaHistory' = aaHistory /\ aaManager' = aaManager
  BY DEF AaIInv, AaTyped, chatVars
<1>2. ChatsBounded' /\ TellsMore /\ AaKeeps
  BY <1>1, SameBound, SameTells, AaSame
<1>3. /\ UNCHANGED <<agentVars, aaQueue, aaManager>>
      /\ aaSessions' \in [ChatSessions -> ChatStates] /\ aaHistory' \in [ChatSessions -> Seq(Entries)]
      /\ r.pc \in {"added", "model", "tool", "record"} => AskedIn(aaHistory'[r.of], m)
      /\ r.pc = "respond" /\ r.text => RecordedIn(aaHistory'[r.of], m)
      /\ k = "answer" /\ r.text => RecordedIn(aaHistory'[r.of], m)
  BY <1>1
<1>4. AaIInv'
  BY <1>2, <1>3, BusyStep
<1> QED
  BY <1>2, <1>4

\* The request to the model.
LEMMA AskStep ==
    ASSUME AaIInv, NEW m \in ChatMessages, AskModel(m)
    PROVE  AaIInv' /\ AaKeeps
<1> DEFINE to == IF aaManager THEN "model" ELSE "fail"
           r == [aaMsg[m] EXCEPT !.pc = to]
<1>1. Hop(m, "added", to) /\ UNCHANGED <<aaActive, aaSessions, aaHistory, aaSent>>
  BY DEF AskModel
<1>2. "added" \in UnderProcessing /\ to \in UnderProcessing /\ to \notin {"respond", "done"}
  BY DEF UnderProcessing, InMicrotask, Outside
<1>3. /\ aaMsg[m].pc = "added" /\ r \in MsgRecs /\ aaMsg' = [aaMsg EXCEPT ![m] = r]
      /\ r.pc = to /\ r.of = aaMsg[m].of
      /\ UNCHANGED <<agentVars, aaQueue, aaManager>> /\ aaJobs' \in Seq(ChatMessages)
  BY <1>1, <1>2, HopIs
<1> HIDE DEF to, r
<1>4. AskedIn(aaHistory[r.of], m)
  BY <1>3 DEF AaIInv, ToldSoFar
<1>5. /\ UNCHANGED <<agentVars, aaQueue, chatVars>>
      /\ aaActive' = (IF r.pc \in UnderProcessing THEN aaActive ELSE aaActive - 1)
      /\ aaSent' = (IF "none" = "none" THEN aaSent ELSE Append(aaSent, [kind |-> "none", of |-> m]))
      /\ aaMsg[m].pc \in UnderProcessing /\ r.pc \in UnderProcessing \cup {"done", "failed"}
      /\ r.pc \notin {"respond", "done"}
  BY <1>1, <1>2, <1>3 DEF chatVars
<1> QED
  BY <1>3, <1>4, <1>5, ElseStep

\* A message ends.
LEMMA FinishStep ==
    ASSUME AaIInv, NEW m \in ChatMessages, Respond(m) \/ FailMessage(m)
    PROVE  AaIInv' /\ AaKeeps
<1>1. PICK from \in {"respond", "fail"}, kind \in {"answer", "error"} :
          /\ FinishMessage(m, from, kind, aaStream = "connected")
          /\ kind = "answer" => from = "respond"
  BY DEF Respond, FailMessage
<1> DEFINE sent == aaStream = "connected"
           to == IF sent /\ kind = "answer" THEN "done" ELSE "failed"
           r == [aaMsg[m] EXCEPT !.pc = to]
           k == IF sent THEN kind ELSE "none"
<1>2. Hop(m, from, to) /\ UNCHANGED <<aaSessions, aaHistory>> /\ aaActive' = aaActive - 1
      /\ aaSent' = (IF sent THEN Append(aaSent, [kind |-> kind, of |-> m]) ELSE aaSent)
  BY <1>1 DEF FinishMessage
<1>3. from \in UnderProcessing /\ to \in {"done", "failed"} /\ to \notin UnderProcessing
  BY DEF UnderProcessing, InMicrotask, Outside
<1>4. /\ aaMsg[m].pc = from /\ r \in MsgRecs /\ aaMsg' = [aaMsg EXCEPT ![m] = r]
      /\ r.pc = to /\ r.of = aaMsg[m].of /\ r.text = aaMsg[m].text
      /\ UNCHANGED <<agentVars, aaQueue, aaManager>> /\ aaJobs' \in Seq(ChatMessages)
  BY <1>2, <1>3, HopIs
<1>5. k \in {"none", "answer", "error"} /\ (to = "done" => k = "answer") /\ (k = "answer" => from = "respond")
      /\ aaSent' = (IF k = "none" THEN aaSent ELSE Append(aaSent, [kind |-> k, of |-> m]))
  BY <1>1, <1>2
<1> HIDE DEF sent, to, r, k
<1>6. k = "answer" /\ r.text => RecordedIn(aaHistory[r.of], m)
  BY <1>4, <1>5 DEF AaIInv, ToldSoFar
<1>7. /\ UNCHANGED <<agentVars, aaQueue, chatVars>>
      /\ aaActive' = (IF r.pc \in UnderProcessing THEN aaActive ELSE aaActive - 1)
      /\ aaMsg[m].pc \in UnderProcessing /\ r.pc \in UnderProcessing \cup {"done", "failed"}
      /\ r.pc \in {"done", "failed"} /\ (r.pc = "done" => k = "answer")
  BY <1>2, <1>3, <1>4, <1>5 DEF chatVars
<1> QED
  BY <1>4, <1>5, <1>6, <1>7, ElseStep

\* The model and its tools.
LEMMA ModelStep ==
    ASSUME AaIInv, NEW m \in ChatMessages,
           ModelText(m) \/ CallTool(m) \/ ToolReturns(m) \/ ModelFails(m) \/ ModelEnds(m)
    PROVE  AaIInv' /\ AaKeeps
<1>1. aaMsg \in [ChatMessages -> MsgRecs] /\ aaMsg[m] \in MsgRecs /\ aaJobs \in Seq(ChatMessages)
  BY DEF AaIInv, AaTyped
<1>2. PICK r \in {[aaMsg[m] EXCEPT !.pc = p] : p \in {"model", "tool", "fail", "record", "respond"}}
                  \cup {[aaMsg[m] EXCEPT !.text = TRUE]} :
          /\ aaMsg' = [aaMsg EXCEPT ![m] = r] /\ aaMsg[m].pc \in {"model", "tool"}
          /\ UNCHANGED <<agentVars, aaQueue, aaActive, chatVars, aaSent>>
          /\ aaJobs' \in {aaJobs, <<m>>, << >>}
          /\ r.pc = "respond" => ~r.text
  BY <1>1 DEF ModelText, CallTool, ToolReturns, ModelFails, ModelEnds, ModelGoes, MsgRecs
<1>3. r \in MsgRecs /\ r.of = aaMsg[m].of /\ r.pc \in {"model", "tool", "fail", "record", "respond"}
  <2>1. {"model", "tool", "fail", "record", "respond"} \subseteq UnderProcessing
    BY DEF UnderProcessing, InMicrotask, Outside
  <2>2. CASE r = [aaMsg[m] EXCEPT !.text = TRUE]
    BY <1>1, <1>2, <2>2 DEF MsgRecs
  <2>3. ASSUME NEW p \in {"model", "tool", "fail", "record", "respond"}, r = [aaMsg[m] EXCEPT !.pc = p]
        PROVE  r \in MsgRecs /\ r.of = aaMsg[m].of /\ r.pc = p
    BY <1>1, <2>1, <2>3 DEF MsgRecs
  <2> QED
    BY <1>2, <2>2, <2>3
<1>4. <<m>> \in Seq(ChatMessages) /\ << >> \in Seq(ChatMessages)
  OBVIOUS
<1>5. aaJobs' \in Seq(ChatMessages)
  BY <1>1, <1>2, <1>4
<1>6. AskedIn(aaHistory[r.of], m)
  BY <1>2, <1>3 DEF AaIInv, ToldSoFar
<1>7. /\ aaMsg[m].pc \in UnderProcessing /\ r.pc \in UnderProcessing
      /\ aaActive' = (IF r.pc \in UnderProcessing THEN aaActive ELSE aaActive - 1)
      /\ aaSent' = (IF "none" = "none" THEN aaSent ELSE Append(aaSent, [kind |-> "none", of |-> m]))
  BY <1>2, <1>3 DEF UnderProcessing, InMicrotask, Outside
<1> QED
  BY <1>2, <1>3, <1>5, <1>6, <1>7, ElseStep

-----------------------------------------------------------------------------
(* Messages arrive and are taken.                                          *)

\* A message that arrives waits in the queue.
LEMMA ReceiveStep ==
    ASSUME AaIInv, NEW m \in ChatMessages, NEW s \in ChatSessions, ReceiveMessage(m, s)
    PROVE  AaIInv' /\ AaKeeps
<1> DEFINE r == [aaMsg[m] EXCEPT !.pc = "queued", !.of = s]
<1>1. /\ aaMsg \in [ChatMessages -> MsgRecs] /\ aaMsg[m] \in MsgRecs /\ aaQueue \in Seq(ChatMessages)
      /\ aaHistory \in [ChatSessions -> Seq(Entries)] /\ aaSent \in Seq(Answers)
  BY DEF AaIInv, AaTyped
<1>2. /\ aaMsg[m].pc = "new" /\ aaMsg' = [aaMsg EXCEPT ![m] = r] /\ aaQueue' = Append(aaQueue, m) /\ aaReady
      /\ UNCHANGED <<agentVars, aaActive, aaJobs, chatVars, aaSent>>
  BY <1>1 DEF ReceiveMessage, MsgRecs
<1>3. r \in MsgRecs /\ r.pc = "queued" /\ r.of = s
  BY <1>1 DEF MsgRecs
<1> HIDE DEF r
<1>4. /\ aaMsg' \in [ChatMessages -> MsgRecs] /\ aaMsg'[m] = r
      /\ \A n \in ChatMessages : n # m => aaMsg'[n] = aaMsg[n]
  BY <1>1, <1>2, <1>3
<1>5. /\ aaState' = aaState /\ aaReady' = aaReady /\ aaLooping' = aaLooping /\ aaStream' = aaStream
      /\ aaShutdown' = aaShutdown /\ aaActive' = aaActive /\ aaJobs' = aaJobs /\ aaSessions' = aaSessions
      /\ aaHistory' = aaHistory /\ aaManager' = aaManager /\ aaSent' = aaSent
  BY <1>2 DEF agentVars, chatVars
<1>6. "new" \notin UnderProcessing /\ "queued" \notin UnderProcessing
  BY DEF UnderProcessing, InMicrotask, Outside
<1>7. Busy' = Busy
  BY <1>2, <1>3, <1>4, <1>6 DEF Busy
<1>8. /\ aaQueue' \in Seq(ChatMessages) /\ Len(aaQueue') = Len(aaQueue) + 1 /\ aaQueue'[Len(aaQueue) + 1] = m
      /\ \A i \in 1..Len(aaQueue) : aaQueue'[i] = aaQueue[i] /\ aaQueue[i] \in ChatMessages
      /\ Len(aaQueue) \in Nat
  BY <1>1, <1>2, AppendProperties, LenProperties
<1>9. AaTyped'
  BY <1>4, <1>5, <1>7, <1>8 DEF AaIInv, AaTyped
<1>10. QueuedOnce'
  <2>1. \A i \in 1..Len(aaQueue) : aaMsg[aaQueue[i]].pc = "queued" /\ aaQueue[i] # m
    BY <1>2 DEF AaIInv, QueuedOnce
  <2>2. \A i \in 1..Len(aaQueue') : (i \in 1..Len(aaQueue) /\ aaQueue'[i] = aaQueue[i])
                                    \/ (i = Len(aaQueue) + 1 /\ aaQueue'[i] = m)
    <3>1. \A i \in 1..Len(aaQueue') : i \in 1..Len(aaQueue) \/ i = Len(aaQueue) + 1
      BY <1>8
    <3> QED
      BY <1>8, <3>1
  <2>3. \A i \in 1..Len(aaQueue') : aaMsg'[aaQueue'[i]].pc = "queued"
    BY <1>3, <1>4, <1>8, <2>1, <2>2
  <2>4. \A i, j \in 1..Len(aaQueue') : aaQueue'[i] = aaQueue'[j] => i = j
    BY <2>1, <2>2 DEF AaIInv, QueuedOnce
  <2> QED
    BY <2>3, <2>4 DEF QueuedOnce
<1>11. \A i \in 1..Len(aaSent) : aaSent[i].of \in ChatMessages /\ aaSent[i].of # m
  <2>1. \A i \in 1..Len(aaSent) : aaSent[i] \in Answers
    BY <1>1, LenProperties
  <2>2. \A i \in 1..Len(aaSent) : aaMsg[aaSent[i].of].pc \in {"done", "failed"}
    BY DEF AaIInv, SentLast
  <2> QED
    BY <1>2, <2>1, <2>2 DEF Answers
<1>12. SentLast'
  BY <1>4, <1>5, <1>11 DEF AaIInv, SentLast
<1>13. AnsweredOnce'
  BY <1>3, <1>4, <1>5 DEF AaIInv, AnsweredOnce
<1>14. ToldSoFar'
  <2>1. \A n \in ChatMessages : aaMsg'[n].pc # "new" => aaMsg'[n].of \in ChatSessions
    BY <1>3, <1>4 DEF AaIInv, ToldSoFar
  <2>2. \A n \in ChatMessages : aaMsg'[n].pc \in {"added", "model", "tool", "record"} =>
            AskedIn(aaHistory'[aaMsg'[n].of], n)
    BY <1>3, <1>4, <1>5 DEF AaIInv, ToldSoFar
  <2>3. \A n \in ChatMessages : aaMsg'[n].pc = "respond" /\ aaMsg'[n].text => RecordedIn(aaHistory'[aaMsg'[n].of], n)
    BY <1>3, <1>4, <1>5 DEF AaIInv, ToldSoFar
  <2>4. \A i \in 1..Len(aaSent') : aaSent'[i].kind = "answer" /\ aaMsg'[aaSent'[i].of].text =>
            RecordedIn(aaHistory'[aaMsg'[aaSent'[i].of].of], aaSent'[i].of)
    BY <1>4, <1>5, <1>11 DEF AaIInv, ToldSoFar
  <2> QED
    BY <2>1, <2>2, <2>3, <2>4 DEF ToldSoFar
<1>15. ChatsBounded'
  BY <1>5, SameBound DEF AaIInv
<1>16. WorksWhenReady'
  BY <1>5 DEF AaIInv, WorksWhenReady, IsShutdown
<1> QED
  BY <1>1, <1>5, <1>9, <1>10, <1>12, <1>13, <1>14, <1>15, <1>16, AaSame DEF AaIInv

\* The first of a queue are as many as are taken from it.
LEMMA FirstAreMany ==
    ASSUME NEW q \in Seq(ChatMessages), NEW n \in 1..Len(q), \A i, j \in 1..Len(q) : q[i] = q[j] => i = j
    PROVE  /\ IsFiniteSet({q[i] : i \in 1..n}) /\ Cardinality({q[i] : i \in 1..n}) = n
           /\ {q[i] : i \in 1..n} \subseteq ChatMessages
<1> DEFINE S == {q[i] : i \in 1..n}
           f == [i \in 1..n |-> q[i]]
<1>1. n \in Nat /\ n <= Len(q) /\ Len(q) \in Nat /\ \A i \in 1..Len(q) : q[i] \in ChatMessages
  BY LenProperties
<1>2. \A i \in 1..n : i \in 1..Len(q)
  BY <1>1
<1>3. S \subseteq ChatMessages
  BY <1>1, <1>2
<1>4. f \in [1..n -> S] /\ (\A i, j \in 1..n : f[i] = f[j] => i = j) /\ \A x \in S : \E i \in 1..n : f[i] = x
  BY <1>2
<1>5. ExistsBijection(1..n, S)
  BY <1>4 DEF ExistsBijection, Bijection, Injection, Surjection, IsInjective
<1>6. Cardinality(S) = n /\ IsFiniteSet(S)
  BY <1>1, <1>5, FS_CountingElements, FS_NatBijection
<1> QED
  BY <1>3, <1>6

\* The loop takes the first messages of the queue.
LEMMA TakeStep ==
    ASSUME AaIInv, TakeMessages
    PROVE  AaIInv' /\ AaKeeps
<1> DEFINE n == Lesser(Len(aaQueue), MaxActive - aaActive)
           taken == {aaQueue[i] : i \in 1..n}
<1>1. /\ aaMsg \in [ChatMessages -> MsgRecs] /\ aaQueue \in Seq(ChatMessages)
      /\ aaHistory \in [ChatSessions -> Seq(Entries)] /\ aaSent \in Seq(Answers)
      /\ aaActive \in 0..MaxActive /\ aaActive = Cardinality(Busy) /\ MaxActive \in Nat
  BY AaAssumption DEF AaIInv, AaTyped
<1>2. /\ n > 0 /\ ~IsShutdown /\ aaLooping
      /\ aaMsg' = [m \in ChatMessages |->
                        IF m \in taken THEN [aaMsg[m] EXCEPT !.pc = Looked(aaMsg[m].of)] ELSE aaMsg[m]]
      /\ aaJobs' = SubSeq(aaQueue, 1, n) /\ aaQueue' = SubSeq(aaQueue, n + 1, Len(aaQueue))
      /\ aaActive' = aaActive + n
      /\ UNCHANGED <<agentVars, chatVars, aaSent>>
  BY DEF TakeMessages, TakeFirst
<1>3. /\ n \in 1..Len(aaQueue) /\ n \in Nat /\ aaActive + n <= MaxActive /\ Len(aaQueue) \in Nat
      /\ \A i \in 1..Len(aaQueue) : aaQueue[i] \in ChatMessages
  BY <1>1, <1>2, LenProperties DEF Lesser
<1> HIDE DEF n
<1>4. IsFiniteSet(taken) /\ Cardinality(taken) = n /\ taken \subseteq ChatMessages
  BY <1>1, <1>3, FirstAreMany DEF AaIInv, QueuedOnce
<1>5. \A m \in taken : aaMsg[m].pc = "queued"
  BY <1>3 DEF AaIInv, QueuedOnce
<1>6. /\ aaState' = aaState /\ aaReady' = aaReady /\ aaLooping' = aaLooping /\ aaStream' = aaStream
      /\ aaShutdown' = aaShutdown /\ aaSessions' = aaSessions
      /\ aaHistory' = aaHistory /\ aaManager' = aaManager /\ aaSent' = aaSent
  BY <1>2 DEF agentVars, chatVars
<1>7. \A x : Looked(x) \in {"found", "missing"}
  BY DEF Looked
<1>8. {"found", "missing"} \subseteq UnderProcessing /\ "queued" \notin UnderProcessing
  BY DEF UnderProcessing, InMicrotask, Outside
<1>9. /\ \A m \in ChatMessages : m \notin taken => aaMsg'[m] = aaMsg[m]
      /\ \A m \in taken : /\ aaMsg'[m].pc \in {"found", "missing"} /\ aaMsg'[m].of = aaMsg[m].of
                          /\ aaMsg'[m] \in MsgRecs
  <2>1. \A m \in ChatMessages : m \notin taken => aaMsg'[m] = aaMsg[m]
    BY <1>2
  <2>2. ASSUME NEW m \in taken
        PROVE  aaMsg'[m].pc \in {"found", "missing"} /\ aaMsg'[m].of = aaMsg[m].of /\ aaMsg'[m] \in MsgRecs
    <3> DEFINE to == Looked(aaMsg[m].of)
    <3>1. aaMsg'[m] = [aaMsg[m] EXCEPT !.pc = to] /\ aaMsg[m] \in MsgRecs /\ to \in {"found", "missing"}
      BY <1>1, <1>2, <1>4, <1>7
    <3> HIDE DEF to
    <3> QED
      BY <1>8, <3>1 DEF MsgRecs
  <2> QED
    BY <2>1, <2>2
<1>10. aaMsg' \in [ChatMessages -> MsgRecs]
  <2>1. DOMAIN aaMsg' = ChatMessages /\ aaMsg' = [m \in ChatMessages |-> aaMsg'[m]]
    BY <1>2
  <2>2. \A m \in ChatMessages : aaMsg'[m] \in MsgRecs
    BY <1>1, <1>9
  <2> QED
    BY <2>1, <2>2
<1>11. Cardinality(Busy') = Cardinality(Busy) + n
  <2>1. Busy' = Busy \cup taken /\ Busy \cap taken = {}
    BY <1>4, <1>5, <1>8, <1>9 DEF Busy
  <2>2. IsFiniteSet(Busy) /\ Cardinality(Busy) \in Nat
    BY BusyIsFinite
  <2>3. Cardinality(Busy \cup taken) = Cardinality(Busy) + Cardinality(taken) - Cardinality(Busy \cap taken)
    BY <1>4, <2>2, FS_Union
  <2>4. Cardinality(Busy \cap taken) = 0
    BY <2>1, FS_EmptySet
  <2> QED
    BY <1>3, <1>4, <2>1, <2>2, <2>3, <2>4
<1>12. aaJobs' \in Seq(ChatMessages)
  <2>1. \A i \in 1..n : aaQueue[i] \in ChatMessages
    BY <1>3
  <2> QED
    BY <1>2, <1>3, <2>1, SubSeqProperties
<1>13. /\ aaQueue' \in Seq(ChatMessages) /\ Len(aaQueue') = Len(aaQueue) - n
       /\ \A i \in 1..Len(aaQueue') : i + n \in 1..Len(aaQueue) /\ i + n \notin 1..n /\ aaQueue'[i] = aaQueue[i + n]
  <2>1. n + 1 \in Int /\ Len(aaQueue) \in Int /\ \A i \in (n + 1)..Len(aaQueue) : aaQueue[i] \in ChatMessages
    BY <1>3
  <2>2. /\ aaQueue' \in Seq(ChatMessages)
        /\ Len(aaQueue') = IF n + 1 <= Len(aaQueue) THEN Len(aaQueue) - (n + 1) + 1 ELSE 0
        /\ \A i \in 1..Len(aaQueue) - (n + 1) + 1 : aaQueue'[i] = aaQueue[(n + 1) + i - 1]
    BY <1>2, <2>1, SubSeqProperties
  <2>3. Len(aaQueue') = Len(aaQueue) - n
    BY <1>3, <2>2
  <2>4. ASSUME NEW i \in 1..Len(aaQueue')
        PROVE  i + n \in 1..Len(aaQueue) /\ i + n \notin 1..n /\ aaQueue'[i] = aaQueue[i + n]
    <3>1. i \in 1..Len(aaQueue) - (n + 1) + 1 /\ (n + 1) + i - 1 = i + n
      BY <1>3, <2>3
    <3> QED
      BY <1>3, <2>2, <2>3, <3>1
  <2> QED
    BY <2>2, <2>3, <2>4
<1>14. AaTyped'
  <2>1. aaActive' \in 0..MaxActive /\ aaActive' = Cardinality(Busy')
    BY <1>1, <1>2, <1>3, <1>11
  <2> QED
    BY <1>6, <1>10, <1>12, <1>13, <2>1 DEF AaIInv, AaTyped
<1>15. QueuedOnce'
  <2>1. ASSUME NEW i \in 1..Len(aaQueue')
        PROVE  aaQueue'[i] \notin taken /\ aaQueue'[i] \in ChatMessages /\ aaMsg[aaQueue'[i]].pc = "queued"
    <3>1. \A j \in 1..n : aaQueue[j] # aaQueue[i + n]
      <4>1. \A j \in 1..n : j \in 1..Len(aaQueue)
        BY <1>3
      <4>2. i + n \in 1..Len(aaQueue) /\ i + n \notin 1..n
        BY <1>13
      <4>3. \A j, k \in 1..Len(aaQueue) : aaQueue[j] = aaQueue[k] => j = k
        BY DEF AaIInv, QueuedOnce
      <4> QED
        BY <4>1, <4>2, <4>3
    <3>2. aaQueue[i + n] \notin taken
      BY <3>1
    <3>3. aaQueue[i + n] \in ChatMessages /\ aaMsg[aaQueue[i + n]].pc = "queued"
      BY <1>3, <1>13 DEF AaIInv, QueuedOnce
    <3> QED
      BY <1>13, <3>2, <3>3
  <2>2. \A i \in 1..Len(aaQueue') : aaMsg'[aaQueue'[i]].pc = "queued"
    BY <1>9, <2>1
  <2>3. ASSUME NEW i \in 1..Len(aaQueue'), NEW j \in 1..Len(aaQueue'), aaQueue'[i] = aaQueue'[j]
        PROVE  i = j
    <3>1. i + n = j + n
      BY <1>13, <2>3 DEF AaIInv, QueuedOnce
    <3> QED
      BY <1>3, <3>1
  <2> QED
    BY <2>2, <2>3 DEF QueuedOnce
<1>16. \A i \in 1..Len(aaSent) : aaSent[i].of \in ChatMessages /\ aaSent[i].of \notin taken
  <2>1. \A i \in 1..Len(aaSent) : aaSent[i] \in Answers
    BY <1>1, LenProperties
  <2>2. \A i \in 1..Len(aaSent) : aaMsg[aaSent[i].of].pc \in {"done", "failed"}
    BY DEF AaIInv, SentLast
  <2> QED
    BY <1>5, <2>1, <2>2 DEF Answers
<1> HIDE DEF taken
<1>17. SentLast'
  BY <1>6, <1>9, <1>16 DEF AaIInv, SentLast
<1>18. AnsweredOnce'
  <2>1. \A m \in ChatMessages : aaMsg'[m].pc = "done" => aaMsg[m].pc = "done"
    BY <1>9
  <2> QED
    BY <1>6, <2>1 DEF AaIInv, AnsweredOnce
<1>19. ToldSoFar'
  <2>1. ASSUME NEW m \in ChatMessages
        PROVE  /\ aaMsg'[m].pc # "new" => aaMsg'[m].of \in ChatSessions
               /\ aaMsg'[m].pc \in {"added", "model", "tool", "record"} => AskedIn(aaHistory'[aaMsg'[m].of], m)
               /\ aaMsg'[m].pc = "respond" /\ aaMsg'[m].text => RecordedIn(aaHistory'[aaMsg'[m].of], m)
    <3>1. CASE m \in taken
      BY <1>5, <1>9, <3>1 DEF AaIInv, ToldSoFar
    <3>2. CASE m \notin taken
      <4>1. aaMsg'[m] = aaMsg[m]
        BY <1>9, <3>2
      <4> QED
        BY <1>6, <4>1 DEF AaIInv, ToldSoFar
    <3> QED
      BY <3>1, <3>2
  <2>2. \A i \in 1..Len(aaSent') : aaSent'[i].kind = "answer" /\ aaMsg'[aaSent'[i].of].text =>
            RecordedIn(aaHistory'[aaMsg'[aaSent'[i].of].of], aaSent'[i].of)
    BY <1>6, <1>9, <1>16 DEF AaIInv, ToldSoFar
  <2> QED
    BY <2>1, <2>2 DEF ToldSoFar
<1>20. ChatsBounded'
  BY <1>6, SameBound DEF AaIInv
<1>21. WorksWhenReady'
  <2>1. aaReady /\ ~IsShutdown
    BY <1>2 DEF AaIInv, WorksWhenReady
  <2> QED
    BY <1>6, <2>1 DEF AaIInv, WorksWhenReady, IsShutdown
<1> QED
  BY <1>1, <1>6, <1>14, <1>15, <1>17, <1>18, <1>19, <1>20, <1>21, AaSame DEF AaIInv

-----------------------------------------------------------------------------
(* The agent and all of it.                                                *)

\* The agent's life goes on and no message moves.
LEMMA LifeStep ==
    ASSUME AaIInv, UNCHANGED <<chatMsgVars, aaHistory, aaSent>>,
           aaState' \in {"registering", "idle", "unregistering", "terminated"},
           aaReady' \in BOOLEAN, aaLooping' \in BOOLEAN, aaManager' \in BOOLEAN,
           aaStream' \in {"none", "connected", "lost"}, aaShutdown' \in {"no", "waiting", "closing", "done"},
           aaSessions' \in [ChatSessions -> ChatStates],
           \A s \in ChatSessions : aaSessions'[s] # "none" <=> aaSessions[s] # "none",
           WorksWhenReady'
    PROVE  AaIInv' /\ AaKeeps
<1>1. /\ aaMsg' = aaMsg /\ aaQueue' = aaQueue /\ aaActive' = aaActive /\ aaJobs' = aaJobs
      /\ aaHistory' = aaHistory /\ aaSent' = aaSent
  BY DEF chatMsgVars
<1>2. Busy' = Busy
  BY <1>1 DEF Busy
<1>3. AaTyped'
  BY <1>1, <1>2 DEF AaIInv, AaTyped
<1>4. QueuedOnce' /\ SentLast' /\ AnsweredOnce' /\ ToldSoFar'
  BY <1>1 DEF AaIInv, QueuedOnce, SentLast, AnsweredOnce, ToldSoFar
<1>5. ChatsBounded'
  BY SameBound DEF AaIInv
<1>6. AaKeeps
  BY <1>1, AaSame DEF AaIInv, AaTyped
<1> QED
  BY <1>3, <1>4, <1>5, <1>6 DEF AaIInv

\* The agent's own steps.
LEMMA AgentSteps ==
    ASSUME AaIInv,
           \/ \E connects \in BOOLEAN : RegisterAssistant(connects)
           \/ StartLoop \/ LoseStream \/ BeginShutdown \/ ActiveDone
    PROVE  AaIInv' /\ AaKeeps
<1>1. /\ UNCHANGED <<chatMsgVars, aaHistory, aaSent>> /\ aaManager' = aaManager /\ aaSessions' = aaSessions
      /\ aaManager \in BOOLEAN /\ aaSessions \in [ChatSessions -> ChatStates]
  BY DEF AaIInv, AaTyped, RegisterAssistant, StartLoop, LoseStream, BeginShutdown, ActiveDone, chatVars
<1>2. /\ aaState' \in {"registering", "idle", "unregistering", "terminated"}
      /\ aaReady' \in BOOLEAN /\ aaLooping' \in BOOLEAN
      /\ aaStream' \in {"none", "connected", "lost"} /\ aaShutdown' \in {"no", "waiting", "closing", "done"}
  BY DEF AaIInv, AaTyped, RegisterAssistant, StartLoop, LoseStream, BeginShutdown, ActiveDone
<1>3. aaActive' = aaActive /\ aaJobs' = aaJobs
  BY <1>1 DEF chatMsgVars
<1>4. WorksWhenReady'
  <2>1. CASE \E connects \in BOOLEAN : RegisterAssistant(connects)
    BY <1>1, <1>3, <2>1 DEF AaIInv, WorksWhenReady, RegisterAssistant, IsShutdown
  <2>2. CASE StartLoop
    BY <1>1, <1>3, <2>2 DEF AaIInv, WorksWhenReady, StartLoop, IsShutdown
  <2>3. CASE LoseStream
    BY <1>1, <1>3, <2>3 DEF AaIInv, WorksWhenReady, LoseStream, IsShutdown
  <2>4. CASE BeginShutdown
    BY <1>1, <1>3, <2>4 DEF AaIInv, WorksWhenReady, BeginShutdown, IsShutdown, AgentTurn
  <2>5. CASE ActiveDone
    BY <1>1, <1>3, <2>5 DEF AaIInv, WorksWhenReady, ActiveDone, IsShutdown, AgentTurn
  <2> QED
    BY <2>1, <2>2, <2>3, <2>4, <2>5
<1> QED
  BY <1>1, <1>2, <1>4, LifeStep

\* Sessions are closed, expire or get idle.
LEMMA ChatSteps ==
    ASSUME AaIInv, CloseChats \/ \E s \in ChatSessions : ExpireChat(s) \/ IdleChat(s)
    PROVE  AaIInv' /\ AaKeeps
<1>1. /\ UNCHANGED <<chatMsgVars, aaHistory, aaSent>>
      /\ aaState' = aaState /\ aaReady' = aaReady /\ aaLooping' = aaLooping /\ aaStream' = aaStream
  BY DEF CloseChats, ExpireChat, IdleChat, agentVars
<1>2. /\ aaState \in {"registering", "idle", "unregistering", "terminated"}
      /\ aaReady \in BOOLEAN /\ aaLooping \in BOOLEAN /\ aaManager \in BOOLEAN
      /\ aaStream \in {"none", "connected", "lost"} /\ aaShutdown \in {"no", "waiting", "closing", "done"}
      /\ aaSessions \in [ChatSessions -> ChatStates]
  BY DEF AaIInv, AaTyped
<1>3. aaActive' = aaActive /\ aaJobs' = aaJobs
  BY <1>1 DEF chatMsgVars
<1>4. CASE CloseChats
  <2>1. /\ aaShutdown = "closing" /\ aaShutdown' = "done" /\ aaManager' = FALSE
        /\ aaSessions' = [s \in ChatSessions |-> IF aaSessions[s] \in OpenChats THEN "closed" ELSE aaSessions[s]]
    BY <1>4 DEF CloseChats
  <2>2. /\ aaSessions' \in [ChatSessions -> ChatStates]
        /\ \A s \in ChatSessions : (aaSessions'[s] # "none" <=> aaSessions[s] # "none") /\ aaSessions'[s] \notin OpenChats
    BY <1>2, <2>1 DEF ChatStates, OpenChats
  <2>3. WorksWhenReady'
    BY <1>1, <1>3, <2>1, <2>2 DEF AaIInv, WorksWhenReady, IsShutdown
  <2> QED
    BY <1>1, <1>2, <2>1, <2>2, <2>3, LifeStep
<1>5. ASSUME NEW s \in ChatSessions, ExpireChat(s) \/ IdleChat(s)
      PROVE  AaIInv' /\ AaKeeps
  <2>1. /\ aaShutdown' = aaShutdown /\ aaManager' = aaManager /\ aaManager
        /\ aaSessions[s] \in OpenChats
        /\ aaSessions' = [aaSessions EXCEPT ![s] = "closed"] \/ aaSessions' = [aaSessions EXCEPT ![s] = "idle"]
    BY <1>5 DEF ExpireChat, IdleChat, agentVars, OpenChats
  <2>2. /\ aaSessions' \in [ChatSessions -> ChatStates]
        /\ \A u \in ChatSessions : aaSessions'[u] # "none" <=> aaSessions[u] # "none"
    BY <1>2, <2>1 DEF ChatStates, OpenChats
  <2>3. WorksWhenReady'
    BY <1>1, <1>3, <2>1 DEF AaIInv, WorksWhenReady, IsShutdown
  <2> QED
    BY <1>1, <1>2, <2>1, <2>2, <2>3, LifeStep
<1> QED
  BY <1>4, <1>5

\* Every step, and a stutter.
LEMMA AaNexts == AaIInv /\ [AaNext]_aaVars => AaIInv' /\ AaKeeps
<1> SUFFICES ASSUME AaIInv, [AaNext]_aaVars PROVE AaIInv' /\ AaKeeps
  OBVIOUS
<1>1. ASSUME NEW m \in ChatMessages, Microtask(m) PROVE AaIInv' /\ AaKeeps
  <2>1. CASE AddQuestion(m)
    BY <2>1, AddStep DEF AddQuestion
  <2>2. CASE RecordAnswer(m)
    BY <2>2, AddStep DEF RecordAnswer
  <2> QED
    BY <1>1, <2>1, <2>2, CreateStep, AskStep, FinishStep DEF Microtask
<1>2. CASE UNCHANGED aaVars
  <2>1. /\ UNCHANGED <<chatMsgVars, aaHistory, aaSent>> /\ aaManager' = aaManager /\ aaSessions' = aaSessions
        /\ UNCHANGED <<aaState, aaReady, aaLooping, aaStream, aaShutdown, aaActive, aaJobs>>
    BY <1>2 DEF aaVars, agentVars, chatVars, chatMsgVars
  <2>2. WorksWhenReady'
    BY <2>1 DEF AaIInv, WorksWhenReady, IsShutdown
  <2>3. /\ aaState' \in {"registering", "idle", "unregistering", "terminated"}
        /\ aaReady' \in BOOLEAN /\ aaLooping' \in BOOLEAN /\ aaManager' \in BOOLEAN
        /\ aaStream' \in {"none", "connected", "lost"} /\ aaShutdown' \in {"no", "waiting", "closing", "done"}
        /\ aaSessions' \in [ChatSessions -> ChatStates]
    BY <2>1 DEF AaIInv, AaTyped
  <2> QED
    BY <2>1, <2>2, <2>3, LifeStep
<1> QED
  BY <1>1, <1>2, AgentSteps, ChatSteps, ReceiveStep, TakeStep, ModelStep DEF AaNext

\* What the invariant says of the states.
LEMMA AaHolds == AaIInv => AaTypeOK /\ AnsweredOnce /\ ContextIsComplete /\ ChatsBounded /\ ShutdownIsQuiet
<1> SUFFICES ASSUME AaIInv
             PROVE  AaTypeOK /\ AnsweredOnce /\ ContextIsComplete /\ ChatsBounded /\ ShutdownIsQuiet
  OBVIOUS
<1>1. AaTypeOK
  BY DEF AaIInv, AaTyped, AaTypeOK, MsgRecs, ChatStates, Busy
<1>2. ContextIsComplete
  BY DEF AaIInv, ToldSoFar, RecordedIn, ContextIsComplete
<1>3. ShutdownIsQuiet
  BY DEF AaIInv, WorksWhenReady, ShutdownIsQuiet, IsShutdown
<1> QED
  BY <1>1, <1>2, <1>3 DEF AaIInv

\* AssistantAnswers: for any number of messages and sessions and any limits, every message
\* is answered at most once, with the whole conversation as context, and the shutdown is
\* quiet (agent.ts:655, session/manager.ts).
THEOREM AssistantKeepsAnswering == AaSpec => AssistantAnswers
<1>1. AaKeeps => (\A s \in ChatSessions :
        /\ Len(aaHistory'[s]) >= Len(aaHistory[s])
        /\ SubSeq(aaHistory'[s], 1, Len(aaHistory[s])) = aaHistory[s])
  BY DEF AaKeeps
<1>2. AaSpec => [](AaTypeOK /\ AnsweredOnce /\ ContextIsComplete /\ ChatsBounded /\ ShutdownIsQuiet)
  BY AaInits, AaNexts, AaHolds, PTL DEF AaSpec
<1>3. AaSpec => HistoryGrows
  BY <1>1, AaInits, AaNexts, PTL DEF AaSpec, HistoryGrows
<1> QED
  BY <1>2, <1>3 DEF AssistantAnswers
=============================================================================
