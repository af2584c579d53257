------------------------------ MODULE EventBus ------------------------------
(***************************************************************************)
(* The publish-subscribe bus of pkg/events/bus.go.                         *)
(*                                                                         *)
(* Publish looks at closed under the read lock, releases it, and sends on  *)
(* a buffered channel; one worker takes the events from the channel and    *)
(* dispatches them, and PublishSync dispatches in the caller's goroutine.  *)
(* A dispatch holds the read lock until every handler returned, so that    *)
(* Subscribe, Unsubscribe and Close wait for it.  Close signals the        *)
(* worker, waits until it has drained the channel, and closes the channel. *)
(* Handlers are abstract: they return and do not call the bus.             *)
(***************************************************************************)
EXTENDS Naturals, Sequences, FiniteSets

CONSTANTS
    Events,         \* the events published, one call of Publish or PublishSync each
    Subscribers,    \* the subscriptions ever made
    EventTypeOf,    \* the type of each event
    FilterOf,       \* the type a subscription asks for, or AnyType
    AnyType,        \* a nil filter
    BusBuffer       \* the capacity of publishCh

ASSUME BusAssumption ==
    /\ IsFiniteSet(Events) /\ IsFiniteSet(Subscribers)
    /\ DOMAIN EventTypeOf = Events /\ DOMAIN FilterOf = Subscribers
    /\ BusBuffer \in Nat \ {0}

VARIABLES
    subscriptions,  \* Bus.subscriptions
    handlerGroups,  \* Bus.handlerGroups: the subscriptions kept per type
    busClosed,      \* Bus.closed, and closeCh closed right after it
    publishCh,      \* the buffered channel
    publishChClosed,
    busWorker,      \* the publish worker: "select", "drain", "exited"
    busCurrent,     \* the events the worker took and has not finished: at most one
    publisher,      \* where the call that publishes each event stands
    awaited,        \* per event in dispatch: the handlers that have not returned
    readers,        \* the events whose dispatch holds the read lock
    delivered,      \* history: <<event, subscription>> for every handler that ran
    dispatched,     \* history: the events the worker finished
    lateSends       \* history: events sent after the worker had left

busVars == <<subscriptions, handlerGroups, busClosed, publishCh, publishChClosed, busWorker,
             busCurrent, publisher, awaited, readers, delivered, dispatched, lateSends>>

Types == {EventTypeOf[e] : e \in Events}

BusTypeOK ==
    /\ subscriptions \subseteq Subscribers
    /\ handlerGroups \in [Types -> SUBSET Subscribers]
    /\ busClosed \in BOOLEAN /\ publishChClosed \in BOOLEAN
    /\ publishCh \in Seq(Events) /\ Len(publishCh) <= BusBuffer
    /\ busWorker \in {"select", "drain", "exited"}
    /\ busCurrent \in SUBSET Events /\ Cardinality(busCurrent) <= 1
    /\ publisher \in [Events -> {"new", "checked", "accepted", "refused", "panicked", "sync", "done"}]
    /\ awaited \in [Events -> SUBSET Subscribers]
    /\ readers \subseteq Events /\ dispatched \subseteq Events /\ lateSends \subseteq Events
    /\ delivered \subseteq Events \X Subscribers

BusInit ==
    /\ subscriptions = {} /\ handlerGroups = [t \in Types |-> {}]
    /\ busClosed = FALSE /\ publishCh = <<>> /\ publishChClosed = FALSE
    /\ busWorker = "select" /\ busCurrent = {}
    /\ publisher = [e \in Events |-> "new"]
    /\ awaited = [e \in Events |-> {}] /\ readers = {}
    /\ delivered = {} /\ dispatched = {} /\ lateSends = {}

-----------------------------------------------------------------------------
Matches(e, s) == FilterOf[s] \in {AnyType, EventTypeOf[e]}

\* The write lock waits until no dispatch holds the read lock.
WriteLock == readers = {}

\* The group of the type of the filter is made on demand; a subscription
\* without type joins the groups there are, those some subscription made.
Subscribe(s) ==
    /\ WriteLock /\ ~busClosed /\ s \notin subscriptions
    /\ subscriptions' = subscriptions \cup {s}
    /\ handlerGroups' = [t \in Types |->
         IF FilterOf[s] = t \/ (FilterOf[s] = AnyType /\ handlerGroups[t] # {})
         THEN handlerGroups[t] \cup {s} ELSE handlerGroups[t]]
    /\ UNCHANGED <<busClosed, publishCh, publishChClosed, busWorker, busCurrent, publisher,
                   awaited, readers, delivered, dispatched, lateSends>>

Unsubscribe(s) ==
    /\ WriteLock /\ ~busClosed /\ s \in subscriptions
    /\ subscriptions' = subscriptions \ {s}
    /\ handlerGroups' = [t \in Types |->
         IF FilterOf[s] \in {AnyType, t} THEN handlerGroups[t] \ {s} ELSE handlerGroups[t]]
    /\ UNCHANGED <<busClosed, publishCh, publishChClosed, busWorker, busCurrent, publisher,
                   awaited, readers, delivered, dispatched, lateSends>>

-----------------------------------------------------------------------------
(* Publish and PublishSync                                                 *)

ToPublisher(e, from, to) ==
    /\ publisher[e] = from
    /\ publisher' = [publisher EXCEPT ![e] = to]

BusUnmoved == UNCHANGED <<subscriptions, handlerGroups, busClosed, publishChClosed, busWorker,
                          busCurrent, awaited, readers, delivered, dispatched>>

PublishChecks(e) ==
    /\ ToPublisher(e, "new", IF busClosed THEN "refused" ELSE "checked")
    /\ BusUnmoved /\ UNCHANGED <<publishCh, lateSends>>

\* The select of Publish: the send succeeds while there is room, whatever
\* happened since closed was read.
PublishSends(e) ==
    /\ ToPublisher(e, "checked", "accepted")
    /\ ~publishChClosed /\ Len(publishCh) < BusBuffer
    /\ publishCh' = Append(publishCh, e)
    /\ lateSends' = IF busWorker = "exited" THEN lateSends \cup {e} ELSE lateSends
    /\ BusUnmoved

\* The context ends or five seconds pass.
PublishGivesUp(e) ==
    /\ ToPublisher(e, "checked", "refused")
    /\ BusUnmoved /\ UNCHANGED <<publishCh, lateSends>>

\* A send on the closed channel.
PublishPanics(e) ==
    /\ ToPublisher(e, "checked", "panicked")
    /\ publishChClosed
    /\ BusUnmoved /\ UNCHANGED <<publishCh, lateSends>>

PublishSync(e) ==
    /\ ToPublisher(e, "new", IF busClosed THEN "refused" ELSE "sync")
    /\ BusUnmoved /\ UNCHANGED <<publishCh, lateSends>>

-----------------------------------------------------------------------------
(* dispatchEvent                                                           *)

InDispatch(e) == e \in busCurrent \/ publisher[e] = "sync"

\* The subscriptions that match are read under the lock, which is kept; every
\* handler gets a goroutine.
DispatchBegins(e) ==
    /\ InDispatch(e) /\ e \notin readers
    /\ readers' = readers \cup {e}
    /\ awaited' = [awaited EXCEPT ![e] = {s \in subscriptions : Matches(e, s)}]
    /\ UNCHANGED <<subscriptions, handlerGroups, busClosed, publishCh, publishChClosed, busWorker,
                   busCurrent, publisher, delivered, dispatched, lateSends>>

HandlerReturns(e, s) ==
    /\ s \in awaited[e]
    /\ awaited' = [awaited EXCEPT ![e] = @ \ {s}]
    /\ delivered' = delivered \cup {<<e, s>>}
    /\ UNCHANGED <<subscriptions, handlerGroups, busClosed, publishCh, publishChClosed, busWorker,
                   busCurrent, publisher, readers, dispatched, lateSends>>

\* wg.Wait is over: the lock is released, the worker or the caller goes on.
DispatchEnds(e) ==
    /\ e \in readers /\ awaited[e] = {}
    /\ readers' = readers \ {e}
    /\ busCurrent' = busCurrent \ {e}
    /\ dispatched' = IF e \in busCurrent THEN dispatched \cup {e} ELSE dispatched
    /\ publisher' = IF publisher[e] = "sync" THEN [publisher EXCEPT ![e] = "done"] ELSE publisher
    /\ UNCHANGED <<subscriptions, handlerGroups, busClosed, publishCh, publishChClosed, busWorker,
                   awaited, delivered, lateSends>>

-----------------------------------------------------------------------------
(* The publish worker and Close                                            *)

WorkerFree == busCurrent = {}

BusWorkerTakes ==
    /\ WorkerFree /\ busWorker \in {"select", "drain"} /\ publishCh # <<>>
    /\ busCurrent' = {Head(publishCh)}
    /\ publishCh' = Tail(publishCh)
    /\ UNCHANGED <<subscriptions, handlerGroups, busClosed, publishChClosed, busWorker, publisher,
                   awaited, readers, delivered, dispatched, lateSends>>

\* Mutant of BusWorkerStops: returns without draining the channel.
BusWorkerLeaves ==
    /\ WorkerFree /\ busWorker = "select" /\ busClosed
    /\ busWorker' = "exited"
    /\ UNCHANGED <<subscriptions, handlerGroups, busClosed, publishCh, publishChClosed, busCurrent,
                   publisher, awaited, readers, delivered, dispatched, lateSends>>

\* The select may see closeCh before an event that waits.
BusWorkerStops ==
    /\ WorkerFree /\ busWorker = "select" /\ busClosed
    /\ busWorker' = "drain"
    /\ UNCHANGED <<subscriptions, handlerGroups, busClosed, publishCh, publishChClosed, busCurrent,
                   publisher, awaited, readers, delivered, dispatched, lateSends>>

BusWorkerExits ==
    /\ WorkerFree /\ busWorker = "drain" /\ publishCh = <<>>
    /\ busWorker' = "exited"
    /\ UNCHANGED <<subscriptions, handlerGroups, busClosed, publishCh, publishChClosed, busCurrent,
                   publisher, awaited, readers, delivered, dispatched, lateSends>>

BusCloseBegins ==
    /\ WriteLock /\ ~busClosed
    /\ busClosed' = TRUE
    /\ UNCHANGED <<subscriptions, handlerGroups, publishCh, publishChClosed, busWorker, busCurrent,
                   publisher, awaited, readers, delivered, dispatched, lateSends>>

\* wg.Wait is over: the channel is closed, with what was sent too late in it.
BusCloseEnds ==
    /\ busClosed /\ busWorker = "exited" /\ ~publishChClosed
    /\ publishChClosed' = TRUE
    /\ UNCHANGED <<subscriptions, handlerGroups, busClosed, publishCh, busWorker, busCurrent,
                   publisher, awaited, readers, delivered, dispatched, lateSends>>

BusNext ==
    \/ \E s \in Subscribers : Subscribe(s) \/ Unsubscribe(s)
    \/ \E e \in Events :
         \/ PublishChecks(e) \/ PublishSends(e) \/ PublishGivesUp(e) \/ PublishPanics(e)
         \/ PublishSync(e) \/ DispatchBegins(e) \/ DispatchEnds(e)
         \/ \E s \in Subscribers : HandlerReturns(e, s)
    \/ BusWorkerTakes \/ BusWorkerStops \/ BusWorkerExits
    \/ BusCloseBegins \/ BusCloseEnds

BusSpec == BusInit /\ [][BusNext]_busVars

\* The worker, the handlers and the goroutine that closes are scheduled.
BusFairness ==
    /\ WF_busVars(BusWorkerTakes) /\ WF_busVars(BusWorkerStops) /\ WF_busVars(BusWorkerExits)
    /\ WF_busVars(BusCloseEnds)
    /\ \A e \in Events : WF_busVars(DispatchBegins(e)) /\ WF_busVars(DispatchEnds(e))
    /\ \A e \in Events, s \in Subscribers : WF_busVars(HandlerReturns(e, s))

-----------------------------------------------------------------------------
(* Properties                                                              *)

\* No handler runs for a subscription that was removed: Unsubscribe returns
\* only when the dispatches that could still call it are over (the read lock
\* of dispatchEvent).
NeverAfterUnsubscribe == \A e \in Events : awaited[e] \subseteq subscriptions

\* The worker drains the channel before it leaves: the events that Publish
\* accepted and that are lost are those sent after it left, between the check
\* of closed and the close of the channel (publishWorker, Close).
LostOnlyWhenLate ==
    busWorker = "exited" =>
        \A e \in Events : publisher[e] = "accepted" => e \in dispatched \cup lateSends

\* A removed subscription is in no handler group (Unsubscribe keeps the two
\* tables together).
GroupsAreSubscribed == \A t \in Types : handlerGroups[t] \subseteq subscriptions

\* Close ends once handlers return, and an event accepted in time reaches its
\* subscribers.
BusCloseReturns == busClosed ~> publishChClosed
AcceptedReachesHandlers ==
    \A e \in Events : publisher[e] = "accepted" ~> (e \in dispatched \cup lateSends)

\* Publishing, subscribing and closing overlap with a dispatch: no handler runs for a
\* removed subscription, no event that was accepted in time is lost, and the two
\* tables of subscriptions agree (bus.go).
BusSafe ==
    /\ BusTypeOK
    /\ NeverAfterUnsubscribe
    /\ LostOnlyWhenLate
    /\ GroupsAreSubscribed
=============================================================================
