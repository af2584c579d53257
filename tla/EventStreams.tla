---------------------------- MODULE EventStreams ----------------------------
(***************************************************************************)
(* Subscriptions of clients to the event bus (SubscribeEvents in           *)
(* pkg/grpc/orchestrator_service.go, SubscribeToEvents in                  *)
(* pkg/grpc/gateway_service.go, over pkg/events/bus.go).                   *)
(*                                                                         *)
(* A handler subscribes with a bounded channel, forwards what arrives to   *)
(* its client, and when the client leaves it unsubscribes and closes the   *)
(* channel.  The worker of the bus dispatches one event at a time and      *)
(* holds the read lock of the bus meanwhile: every subscription gets a     *)
(* goroutine, which sends to the channel or gives up after 30 seconds or   *)
(* when the call that published the event has ended.  Events are numbered  *)
(* in the order the bus accepted them.                                     *)
(***************************************************************************)
EXTENDS Naturals, Sequences, FiniteSets

CONSTANTS
    StreamClients,    \* the handlers
    MaxBusEvents,   \* events published (bound)
    ChannelCap      \* the capacity of eventCh, 100 in the code

ASSUME EsAssumption == MaxBusEvents \in Nat /\ ChannelCap \in Nat

VARIABLES
    esAlive,        \* no goroutine has panicked
    esBusClosed,    \* Bus.closed
    esWorker,       \* the worker of the bus: "runs", "drains" or "ended"
    esAccepted,     \* events accepted so far
    esQueue,        \* Bus.publishCh
    esCallers,      \* events whose publishing call is still open
    esSending,      \* the goroutines of the dispatch: pairs of event and handler
    esMap,          \* Bus.subscriptions
    esSub,          \* the handlers: "unused", "open", "leaving", "left", "closed"
    esLeftLate,     \* those which found the bus closed when they unsubscribed
    esChannel,      \* eventCh
    esSent          \* what the client was sent

esBusVars == <<esBusClosed, esWorker>>
esFeed == <<esAccepted, esQueue, esCallers>>
esOwn == <<esMap, esSub, esLeftLate>>
esVars == <<esAlive, esBusVars, esFeed, esSending, esOwn, esChannel, esSent>>

EsInit ==
    /\ esAlive = TRUE /\ esBusClosed = FALSE /\ esWorker = "runs"
    /\ esAccepted = 0 /\ esQueue = << >> /\ esCallers = {}
    /\ esSending = {} /\ esMap = {}
    /\ esSub = [x \in StreamClients |-> "unused"]
    /\ esLeftLate = {}
    /\ esChannel = [x \in StreamClients |-> << >>]
    /\ esSent = esChannel

\* The write lock of the bus is free: no dispatch holds the read lock.
WriteLockFree == esSending = {}

-----------------------------------------------------------------------------
(* The bus.                                                                *)

PublishEvent ==
    /\ ~esBusClosed /\ esAccepted < MaxBusEvents
    /\ esAccepted' = esAccepted + 1
    /\ esQueue' = Append(esQueue, esAccepted + 1)
    /\ esCallers' = esCallers \cup {esAccepted + 1}
    /\ UNCHANGED <<esAlive, esBusVars, esSending, esOwn, esChannel, esSent>>

\* The call that published e returns and its context ends.
CallerLeaves(e) ==
    /\ e \in esCallers
    /\ esCallers' = esCallers \ {e}
    /\ UNCHANGED <<esAlive, esBusVars, esAccepted, esQueue, esSending, esOwn, esChannel, esSent>>

\* Mutant of Dispatch: the worker does not wait for the goroutines.
DispatchAtOnce ==
    /\ esWorker # "ended" /\ esQueue # << >>
    /\ esSending' = esSending \cup {<<Head(esQueue), x>> : x \in esMap}
    /\ esQueue' = Tail(esQueue)
    /\ UNCHANGED <<esAlive, esBusVars, esAccepted, esCallers, esOwn, esChannel, esSent>>

\* The next event, when the goroutines of the last one are done.
Dispatch ==
    /\ esWorker # "ended" /\ esQueue # << >> /\ esSending = {}
    /\ esSending' = {<<Head(esQueue), x>> : x \in esMap}
    /\ esQueue' = Tail(esQueue)
    /\ UNCHANGED <<esAlive, esBusVars, esAccepted, esCallers, esOwn, esChannel, esSent>>

\* Handle, in the goroutine of e and x: the channel has room.
HandleSends(e, x) ==
    /\ <<e, x>> \in esSending
    /\ esSub[x] # "closed" /\ Len(esChannel[x]) < ChannelCap
    /\ esChannel' = [esChannel EXCEPT ![x] = Append(@, e)]
    /\ esSending' = esSending \ {<<e, x>>}
    /\ UNCHANGED <<esAlive, esBusVars, esFeed, esOwn, esSent>>

\* A send on a closed channel ends the process.
HandlePanics(e, x) ==
    /\ <<e, x>> \in esSending /\ esSub[x] = "closed"
    /\ esAlive' = FALSE
    /\ esSending' = esSending \ {<<e, x>>}
    /\ UNCHANGED <<esBusVars, esFeed, esOwn, esChannel, esSent>>

\* Its context ends: with that of the publishing call, even if there is room,
\* or by the timeout while the channel is full.
HandleGivesUp(e, x) ==
    /\ <<e, x>> \in esSending
    /\ e \notin esCallers \/ Len(esChannel[x]) = ChannelCap
    /\ esSending' = esSending \ {<<e, x>>}
    /\ UNCHANGED <<esAlive, esBusVars, esFeed, esOwn, esChannel, esSent>>

\* Bus.Close takes the write lock to set closed; the worker drains the queue.
CloseEventBus ==
    /\ WriteLockFree /\ ~esBusClosed
    /\ esBusClosed' = TRUE /\ esWorker' = "drains"
    /\ UNCHANGED <<esAlive, esFeed, esSending, esOwn, esChannel, esSent>>

DrainEnds ==
    /\ esWorker = "drains" /\ esQueue = << >> /\ esSending = {}
    /\ esWorker' = "ended"
    /\ UNCHANGED <<esAlive, esBusClosed, esFeed, esSending, esOwn, esChannel, esSent>>

-----------------------------------------------------------------------------
(* The handlers.                                                           *)

SubscribeStream(x) ==
    /\ WriteLockFree /\ ~esBusClosed /\ esSub[x] = "unused"
    /\ esSub' = [esSub EXCEPT ![x] = "open"]
    /\ esMap' = esMap \cup {x}
    /\ UNCHANGED <<esAlive, esBusVars, esFeed, esSending, esLeftLate, esChannel, esSent>>

ForwardEvent(x) ==
    /\ esSub[x] = "open" /\ esChannel[x] # << >>
    /\ esSent' = [esSent EXCEPT ![x] = Append(@, Head(esChannel[x]))]
    /\ esChannel' = [esChannel EXCEPT ![x] = Tail(@)]
    /\ UNCHANGED <<esAlive, esBusVars, esFeed, esSending, esOwn>>

\* The client leaves or cannot be sent to: the deferred calls follow.
LeaveStream(x) ==
    /\ esSub[x] = "open"
    /\ esSub' = [esSub EXCEPT ![x] = "leaving"]
    /\ UNCHANGED <<esAlive, esBusVars, esFeed, esSending, esMap, esLeftLate, esChannel, esSent>>

\* A closed bus refuses and keeps the subscription; the error is not looked at.
UnsubscribeStream(x) ==
    /\ WriteLockFree /\ esSub[x] = "leaving"
    /\ esSub' = [esSub EXCEPT ![x] = "left"]
    /\ esMap' = IF esBusClosed THEN esMap ELSE esMap \ {x}
    /\ esLeftLate' = IF esBusClosed THEN esLeftLate \cup {x} ELSE esLeftLate
    /\ UNCHANGED <<esAlive, esBusVars, esFeed, esSending, esChannel, esSent>>

CloseChannel(x) ==
    /\ esSub[x] = "left"
    /\ esSub' = [esSub EXCEPT ![x] = "closed"]
    /\ UNCHANGED <<esAlive, esBusVars, esFeed, esSending, esMap, esLeftLate, esChannel, esSent>>

BusWorkerStep ==
    \/ Dispatch
    \/ \E e \in 1..MaxBusEvents, x \in StreamClients :
            HandleSends(e, x) \/ HandlePanics(e, x) \/ HandleGivesUp(e, x)
    \/ DrainEnds

LeavingStep(x) == UnsubscribeStream(x) \/ CloseChannel(x)

EsNext ==
    /\ esAlive
    /\ \/ PublishEvent \/ CloseEventBus \/ BusWorkerStep
       \/ \E e \in 1..MaxBusEvents : CallerLeaves(e)
       \/ \E x \in StreamClients :
            SubscribeStream(x) \/ ForwardEvent(x) \/ LeaveStream(x) \/ LeavingStep(x)

\* The worker and its goroutines run, their timeouts expire, and a writer that
\* waits for the lock of the bus gets it between two dispatches (sync.RWMutex
\* admits no reader past a waiting writer).  Clients may stop reading.
EsFairness ==
    /\ WF_esVars(esAlive /\ BusWorkerStep)
    /\ \A x \in StreamClients : SF_esVars(esAlive /\ LeavingStep(x))

EsSpec == EsInit /\ [][EsNext]_esVars /\ EsFairness

-----------------------------------------------------------------------------
(* Properties                                                              *)

\* The channel of a handler keeps to its capacity, and a handler that left is
\* subscribed no more, unless the bus was closed before.
EsTypeOK ==
    /\ esAlive \in BOOLEAN /\ esBusClosed \in BOOLEAN
    /\ esWorker \in {"runs", "drains", "ended"}
    /\ esAccepted \in 0..MaxBusEvents /\ esQueue \in Seq(1..MaxBusEvents)
    /\ esCallers \subseteq 1..esAccepted
    /\ esSending \subseteq (1..MaxBusEvents) \X StreamClients
    /\ esMap \subseteq StreamClients /\ esLeftLate \subseteq StreamClients
    /\ esSub \in [StreamClients -> {"unused", "open", "leaving", "left", "closed"}]
    /\ esChannel \in [StreamClients -> Seq(1..MaxBusEvents)] /\ esSent \in [StreamClients -> Seq(1..MaxBusEvents)]
    /\ \A x \in StreamClients : Len(esChannel[x]) <= ChannelCap
    /\ esMap = {x \in StreamClients : esSub[x] \in {"open", "leaving"}} \cup esLeftLate

\* The bus sends on no closed channel: the process dies of it only when the bus
\* was closed before a handler left (orchestrator_service.go:709).
OpenChannelsOnly == ~esAlive => esLeftLate # {}

\* A client sees events in the order the bus accepted them, none of them twice.
EventsInOrder ==
    \A x \in StreamClients : LET seen == esSent[x] \o esChannel[x] IN
        \A i, j \in 1..Len(seen) : i < j => seen[i] < seen[j]

\* A handler whose client left gets to its end, whatever the other clients do:
\* a full channel nobody reads does not keep the lock of the bus for ever.
LeaversEnd == \A x \in StreamClients : esSub[x] = "leaving" ~> (esSub[x] = "closed" \/ ~esAlive)

\* While clients come and go the bus sends on open channels only, and each client
\* gets the events in order and once (orchestrator_service.go:650).
EventStreamsSafe ==
    /\ EsTypeOK
    /\ OpenChannelsOnly
    /\ EventsInOrder
=============================================================================
