--------------------------- MODULE EventPipeline ----------------------------
(***************************************************************************)
(* What an event passes between the bus and the code that handles it: the  *)
(* router, the handler wrappers and the middleware of pkg/events.  The     *)
(* three share no state.                                                   *)
(***************************************************************************)
EXTENDS Naturals, Sequences, FiniteSets

-----------------------------------------------------------------------------
(***************************************************************************)
(* The topic router of pkg/events/router.go.                               *)
(*                                                                         *)
(* A topic is a sequence of segments.  A pattern is a topic (exact), a     *)
(* topic followed by ".*" (wild), or "*", the wild pattern of the empty    *)
(* topic.  Exact routes are keyed by their pattern, wild ones by their     *)
(* prefix; findHandlers looks up the topic and each of its prefixes.  All  *)
(* methods hold the lock throughout.  A dispatch runs its handlers         *)
(* concurrently, so the order that priorities give a list is abstracted.   *)
(***************************************************************************)
CONSTANTS
    Routes,     \* route identifiers, generated by AddRoute
    Topics      \* the topics in use with all their prefixes, a set of sequences

ASSUME RouterAssumption ==
    /\ Topics \subseteq Seq(STRING)
    /\ \A t \in Topics : \A n \in 0..Len(t) : SubSeq(t, 1, n) \in Topics

VARIABLES
    exact,         \* Router.routes: the one route of each exact pattern, as a set of at most one
    wildcards,     \* Router.wildcards: the routes of each prefix
    active,        \* the routes whose Active flag is set
    routerClosed,
    registered     \* history: <<route, pattern>> of the routes that should be found

routerVars == <<exact, wildcards, active, routerClosed, registered>>

Patterns == [prefix : Topics, wild : BOOLEAN]

RouterTypeOK ==
    /\ exact \in [Topics -> SUBSET Routes] /\ wildcards \in [Topics -> SUBSET Routes]
    /\ \A t \in Topics : Cardinality(exact[t]) <= 1
    /\ active \subseteq Routes
    /\ routerClosed \in BOOLEAN
    /\ registered \subseteq Routes \X Patterns

RouterInit ==
    /\ exact = [t \in Topics |-> {}] /\ wildcards = [t \in Topics |-> {}]
    /\ active = {} /\ routerClosed = FALSE /\ registered = {}

-----------------------------------------------------------------------------
\* matchPattern: strings.HasPrefix(topic, prefix + ".") for a wild pattern.
MatchPattern(topic, pattern) ==
    IF pattern.wild
    THEN Len(pattern.prefix) < Len(topic) /\ SubSeq(topic, 1, Len(pattern.prefix)) = pattern.prefix
    ELSE topic = pattern.prefix

\* validatePattern: the empty pattern is refused, "*" is not.
ValidPattern(p) == p.wild \/ p.prefix # <<>>

\* findHandlers: the exact route, then the wild routes kept under each prefix
\* of the topic that matchPattern accepts, then those of "*".
FindHandlers(topic) ==
    LET wild(n) == [prefix |-> SubSeq(topic, 1, n), wild |-> TRUE]
    IN (exact[topic]
        \cup (UNION {wildcards[wild(n).prefix] : n \in {m \in 1..Len(topic) : MatchPattern(topic, wild(m))}})
        \cup wildcards[<<>>]) \cap active

Added == {rp[1] : rp \in registered}

\* AddRoute and AddRouteWithPriority: an exact route replaces the one that
\* had the same pattern, a wild one joins the others.
AddRoute(r, p) ==
    /\ ~routerClosed /\ ValidPattern(p)
    /\ r \notin Added
    /\ IF p.wild
       THEN wildcards' = [wildcards EXCEPT ![p.prefix] = @ \cup {r}] /\ UNCHANGED exact
       ELSE exact' = [exact EXCEPT ![p.prefix] = {r}] /\ UNCHANGED wildcards
    /\ active' = active \cup {r}
    /\ registered' = {rp \in registered : p.wild \/ rp[2] # p} \cup {<<r, p>>}
    /\ UNCHANGED routerClosed

RemoveRoute(r) ==
    /\ ~routerClosed /\ r \in Added
    /\ exact' = [t \in Topics |-> exact[t] \ {r}]
    /\ wildcards' = [t \in Topics |-> wildcards[t] \ {r}]
    /\ active' = active \ {r}
    /\ registered' = {rp \in registered : rp[1] # r}
    /\ UNCHANGED routerClosed

\* SetRouteActive works on a closed router too.
SetRouteActive(r) ==
    /\ r \in Added
    /\ \E on \in BOOLEAN : active' = IF on THEN active \cup {r} ELSE active \ {r}
    /\ UNCHANGED <<exact, wildcards, routerClosed, registered>>

CloseRouter ==
    /\ ~routerClosed
    /\ routerClosed' = TRUE
    /\ UNCHANGED <<exact, wildcards, active, registered>>

RouterNext ==
    \/ \E r \in Routes, p \in Patterns : AddRoute(r, p)
    \/ \E r \in Routes : RemoveRoute(r) \/ SetRouteActive(r)
    \/ CloseRouter

RouterSpec == RouterInit /\ [][RouterNext]_routerVars

-----------------------------------------------------------------------------
(* Properties                                                              *)

\* Looking up the topic and its prefixes finds what testing every registered
\* route finds: the active ones whose pattern matches, where a later route of
\* the same exact pattern has taken the place of an earlier one (findHandlers
\* against matchPattern).
FindsEveryMatch ==
    \A topic \in Topics \ {<<>>} :
        FindHandlers(topic) =
            {r \in active : \E p \in Patterns : <<r, p>> \in registered /\ MatchPattern(topic, p)}

\* A removed or replaced route is in no table.
TablesHoldRegistered ==
    \A t \in Topics : exact[t] \cup wildcards[t] \subseteq Added

-----------------------------------------------------------------------------
(***************************************************************************)
(* The stateful handler wrappers of pkg/events/handler.go: a RetryHandler  *)
(* around a TimeoutHandler, and a BufferedHandler that either delivers to. *)
(*                                                                         *)
(* TimeoutHandler and AsyncHandler run the wrapped handler in a goroutine  *)
(* and stop waiting for it when the time is over: it goes on.  The buffer  *)
(* is emptied under its lock and the events are handled after it was       *)
(* released, by the caller that filled it, by flushLoop or by Close.       *)
(***************************************************************************)
CONSTANTS
    Handled,      \* the events given to the handlers, numbered in the order they are buffered
    MaxAttempts,  \* RetryHandler.maxRetries
    BatchSize,    \* BufferedHandler.batchSize
    Flushers      \* the goroutines that may call Handle on the buffer; flushLoop and Close are others

ASSUME HandlersAssumption ==
    /\ Handled \subseteq Nat /\ MaxAttempts \in Nat \ {0} /\ BatchSize \in Nat \ {0}
    /\ Flushers \cap {"flushLoop", "Close", "buffer", "batched"} = {}

VARIABLES
    attempt,     \* per event: the attempt of RetryHandler, 0 before the first
    retry,       \* per event: "idle", "waiting" for the attempt, "backoff", "done", "failed"
    inflight,    \* per event: the goroutines of TimeoutHandler that still run
    started,     \* history, per event: how often the wrapped handler was started
    buffer,      \* BufferedHandler.buffer
    taken,       \* per goroutine: the copy of the buffer it is handling
    flushLoop,   \* "ticking", "final", "stopped"
    bufferClose, \* "open", "stopping", "flushing", "closed"
    buffered,    \* history: the events Handle added
    beforeClose, \* history: those added before Close was called
    batched      \* history: the events handled by a flush, in order

retryVars == <<attempt, retry, inflight, started>>
bufferVars == <<buffer, taken, flushLoop, bufferClose, buffered, beforeClose, batched>>
handlerVars == <<retryVars, bufferVars>>

AllFlushers == Flushers \cup {"flushLoop", "Close"}

HandlersTypeOK ==
    /\ attempt \in [Handled -> Nat]
    /\ retry \in [Handled -> {"idle", "waiting", "backoff", "done", "failed"}]
    /\ inflight \in [Handled -> Nat] /\ started \in [Handled -> Nat]
    /\ buffer \in Seq(Handled) /\ taken \in [AllFlushers -> Seq(Handled)]
    /\ flushLoop \in {"ticking", "final", "stopped"}
    /\ bufferClose \in {"open", "stopping", "flushing", "closed"}
    /\ buffered \subseteq Handled /\ beforeClose \subseteq Handled /\ batched \in Seq(Handled)

HandlersInit ==
    /\ attempt = [e \in Handled |-> 0] /\ retry = [e \in Handled |-> "idle"]
    /\ inflight = [e \in Handled |-> 0] /\ started = [e \in Handled |-> 0]
    /\ buffer = <<>> /\ taken = [f \in AllFlushers |-> <<>>]
    /\ flushLoop = "ticking" /\ bufferClose = "open"
    /\ buffered = {} /\ beforeClose = {} /\ batched = <<>>

-----------------------------------------------------------------------------
(* RetryHandler around TimeoutHandler                                      *)

\* An attempt: a goroutine runs the wrapped handler while Handle waits.
TryHandle(e) ==
    /\ retry[e] \in {"idle", "backoff"}
    /\ retry' = [retry EXCEPT ![e] = "waiting"]
    /\ inflight' = [inflight EXCEPT ![e] = @ + 1]
    /\ started' = [started EXCEPT ![e] = @ + 1]
    /\ UNCHANGED <<attempt, bufferVars>>

\* The loop of RetryHandler: attempts 0 to maxRetries, each retry after a backoff.
AttemptFails(e) ==
    /\ attempt' = [attempt EXCEPT ![e] = @ + 1]
    /\ retry' = [retry EXCEPT ![e] = IF attempt[e] < MaxAttempts THEN "backoff" ELSE "failed"]

\* The goroutine Handle waits for returns: success, an error that is retried,
\* or one that is not (invalid, not found, permission).
AttemptReturns(e) ==
    /\ retry[e] = "waiting"
    /\ inflight' = [inflight EXCEPT ![e] = @ - 1]
    /\ \/ retry' = [retry EXCEPT ![e] = "done"] /\ UNCHANGED attempt
       \/ AttemptFails(e)
       \/ retry' = [retry EXCEPT ![e] = "failed"] /\ UNCHANGED attempt
    /\ UNCHANGED <<started, bufferVars>>

\* TimeoutHandler: the wait is over, the goroutine is not; to RetryHandler
\* the timeout is an error like another.
AttemptTimesOut(e) ==
    /\ retry[e] = "waiting"
    /\ AttemptFails(e)
    /\ UNCHANGED <<inflight, started, bufferVars>>

\* A goroutine nobody waits for returns; its result channel has room for it.
StragglerReturns(e) ==
    /\ inflight[e] > (IF retry[e] = "waiting" THEN 1 ELSE 0)
    /\ inflight' = [inflight EXCEPT ![e] = @ - 1]
    /\ UNCHANGED <<attempt, retry, started, bufferVars>>

\* The context ends during the backoff.
RetryCanceled(e) ==
    /\ retry[e] = "backoff"
    /\ retry' = [retry EXCEPT ![e] = "failed"]
    /\ UNCHANGED <<attempt, inflight, started, bufferVars>>

-----------------------------------------------------------------------------
(* BufferedHandler                                                         *)

\* Flush, first half: the buffer is copied and replaced under the lock.
TakeBuffer(f, b) ==
    /\ taken[f] = <<>>
    /\ taken' = [taken EXCEPT ![f] = b]
    /\ buffer' = <<>>

\* Handle: appends, and flushes itself when the batch is full.
BufferHandle(f, e) ==
    /\ f \in Flushers /\ taken[f] = <<>> /\ e \notin buffered
    /\ \A d \in Handled : d < e => d \in buffered
    /\ LET b == Append(buffer, e)
       IN IF Len(b) >= BatchSize THEN TakeBuffer(f, b) ELSE buffer' = b /\ UNCHANGED taken
    /\ buffered' = buffered \cup {e}
    /\ beforeClose' = IF bufferClose = "open" THEN beforeClose \cup {e} ELSE beforeClose
    /\ UNCHANGED <<flushLoop, bufferClose, batched, retryVars>>

\* Mutant of FlushOne: handles an event and keeps it.
FlushOneKeeps(f) ==
    /\ taken[f] # <<>>
    /\ Len(batched) < 2 * Cardinality(Handled)
    /\ batched' = Append(batched, Head(taken[f]))
    /\ UNCHANGED <<buffer, taken, flushLoop, bufferClose, buffered, beforeClose, retryVars>>

\* Flush, second half: the copy is handled event by event without the lock.
FlushOne(f) ==
    /\ taken[f] # <<>>
    /\ batched' = Append(batched, Head(taken[f]))
    /\ taken' = [taken EXCEPT ![f] = Tail(@)]
    /\ UNCHANGED <<buffer, flushLoop, bufferClose, buffered, beforeClose, retryVars>>

FlushTick ==
    /\ flushLoop = "ticking" /\ buffer # <<>>
    /\ TakeBuffer("flushLoop", buffer)
    /\ UNCHANGED <<flushLoop, bufferClose, buffered, beforeClose, batched, retryVars>>

\* Close: stopCh is closed; flushLoop flushes once more and returns; Close
\* flushes what came meanwhile.
BufferClose ==
    /\ bufferClose = "open"
    /\ bufferClose' = "stopping"
    /\ UNCHANGED <<buffer, taken, flushLoop, buffered, beforeClose, batched, retryVars>>

FinalFlush ==
    /\ bufferClose = "stopping" /\ flushLoop = "ticking"
    /\ TakeBuffer("flushLoop", buffer)
    /\ flushLoop' = "final"
    /\ UNCHANGED <<bufferClose, buffered, beforeClose, batched, retryVars>>

FlushLoopReturns ==
    /\ flushLoop = "final" /\ taken["flushLoop"] = <<>>
    /\ flushLoop' = "stopped"
    /\ UNCHANGED <<buffer, taken, bufferClose, buffered, beforeClose, batched, retryVars>>

CloseFlush ==
    /\ bufferClose = "stopping" /\ flushLoop = "stopped"
    /\ TakeBuffer("Close", buffer)
    /\ bufferClose' = "flushing"
    /\ UNCHANGED <<flushLoop, buffered, beforeClose, batched, retryVars>>

BufferClosed ==
    /\ bufferClose = "flushing" /\ taken["Close"] = <<>>
    /\ bufferClose' = "closed"
    /\ UNCHANGED <<buffer, taken, flushLoop, buffered, beforeClose, batched, retryVars>>

RetryNext == \E e \in Handled :
    TryHandle(e) \/ AttemptReturns(e) \/ AttemptTimesOut(e) \/ StragglerReturns(e) \/ RetryCanceled(e)

BufferNext ==
    \/ \E f \in Flushers, e \in Handled : BufferHandle(f, e)
    \/ \E f \in AllFlushers : FlushOne(f)
    \/ FlushTick \/ BufferClose \/ FinalFlush \/ FlushLoopReturns \/ CloseFlush \/ BufferClosed

HandlersSpec == HandlersInit /\ [][RetryNext \/ BufferNext]_handlerVars

-----------------------------------------------------------------------------
(* Properties                                                              *)

\* The wrapped handler runs at most maxRetries + 1 times for an event, also
\* when attempts time out and still run beside the next ones.
AttemptsBounded == \A e \in Handled : started[e] <= MaxAttempts + 1

\* The places of the events given to the buffer, queue by queue.
Queues == [n \in AllFlushers \cup {"buffer", "batched"} |->
              IF n = "buffer" THEN buffer ELSE IF n = "batched" THEN batched ELSE taken[n]]

Places(e) == UNION {{n} \X {i \in DOMAIN Queues[n] : Queues[n][i] = e} : n \in DOMAIN Queues}

\* A buffered event is in one place: in the buffer, in the copy of one flush,
\* or handled, and handled once (Flush copies and empties under the lock).
BufferedOnce == \A e \in Handled : Cardinality(Places(e)) = (IF e \in buffered THEN 1 ELSE 0)

\* When Close has returned, the events added before it was called are handled
\* or in the hands of a caller that filled a batch.
CloseFlushes ==
    bufferClose = "closed" =>
        \A e \in beforeClose :
            \/ \E i \in DOMAIN batched : batched[i] = e
            \/ \E f \in Flushers : \E i \in DOMAIN taken[f] : taken[f][i] = e

-----------------------------------------------------------------------------
(***************************************************************************)
(* A middleware chain of pkg/events/middleware.go: source filter, then     *)
(* deduplication, then rate limit, each with the state it keeps.           *)
(*                                                                         *)
(* Time is a clock that ticks.  An event passes the chain in one step:     *)
(* each middleware holds its own lock and the chain is a loop, so that     *)
(* the middlewares of one event could interleave with those of another;    *)
(* their states are disjoint, and each sees some order of the events.      *)
(***************************************************************************)
CONSTANTS
    EventIds,     \* event identifiers
    SourceOf,     \* the source of each event
    MaxEvents,    \* RateLimitMiddleware.maxEvents
    Window,       \* RateLimitMiddleware.window
    Ttl,          \* DeduplicationMiddleware.ttl
    MaxTime,      \* bound: the clock stops there
    MaxPasses     \* bound: the events that enter the chain

ASSUME MiddlewareAssumption ==
    /\ MaxEvents \in Nat \ {0} /\ Window \in Nat \ {0} /\ Ttl \in Nat \ {0}
    /\ MaxTime \in Nat /\ MaxPasses \in Nat
    /\ DOMAIN SourceOf = EventIds

VARIABLES
    clock,
    events,       \* RateLimitMiddleware.events: the events whose times it keeps, by their place in passed
    seenEvents,   \* DeduplicationMiddleware.seenEvents: <<id, time>>
    allowed,      \* SourceFilterMiddleware.allowedSources
    blocked,      \* SourceFilterMiddleware.blockedSources
    entered,      \* how many events entered the chain
    passed,       \* history: <<id, time>> of the events the whole chain let pass, in order
    cleared       \* history: how many had passed at the last ClearSeen

mwVars == <<clock, events, seenEvents, allowed, blocked, entered, passed, cleared>>

Sources == {SourceOf[i] : i \in EventIds}

MiddlewareTypeOK ==
    /\ clock \in 0..MaxTime /\ entered \in 0..MaxPasses
    /\ events \subseteq 1..Len(passed) /\ Cardinality(events) <= MaxEvents
    /\ seenEvents \subseteq EventIds \X (0..MaxTime)
    /\ allowed \subseteq Sources /\ blocked \subseteq Sources
    /\ passed \in Seq(EventIds \X (0..MaxTime)) /\ cleared \in 0..Len(passed)

MiddlewareInit ==
    /\ clock = 0 /\ events = {} /\ seenEvents = {} /\ entered = 0
    /\ allowed = {} /\ blocked = {} /\ passed = <<>> /\ cleared = 0

-----------------------------------------------------------------------------
\* SourceFilterMiddleware.Process: a blocked source is refused; the list of
\* allowed sources counts only while nothing is blocked.
SourcePasses(s) ==
    /\ s \notin blocked
    /\ allowed = {} \/ blocked # {} \/ s \in allowed

\* t.After(now - window), in a clock that does not go below zero.
InWindow(t) == t + Window > clock

\* RateLimitMiddleware.Process forgets the old events before it counts.
RecentEvents == {i \in events : InWindow(passed[i][2])}

RateLimitPasses == Cardinality(RecentEvents) < MaxEvents

\* DeduplicationMiddleware.Process drops the entries older than the ttl.
LiveSeen == {s \in seenEvents : s[2] + Ttl >= clock}

SeenBefore(id) == \E s \in LiveSeen : s[1] = id

ChainPasses(id) ==
    /\ events' = RecentEvents \cup {Len(passed) + 1}
    /\ passed' = Append(passed, <<id, clock>>)

\* MiddlewareChain.Process stops at the first middleware that refuses; an
\* event the rate limit refuses has been marked as seen.
Chain(id) ==
    /\ entered < MaxPasses /\ entered' = entered + 1
    /\ \/ ~SourcePasses(SourceOf[id]) /\ UNCHANGED <<events, seenEvents, passed>>
       \/ /\ SourcePasses(SourceOf[id]) /\ SeenBefore(id)
          /\ seenEvents' = LiveSeen
          /\ UNCHANGED <<events, passed>>
       \/ /\ SourcePasses(SourceOf[id]) /\ ~SeenBefore(id)
          /\ seenEvents' = LiveSeen \cup {<<id, clock>>}
          /\ IF RateLimitPasses THEN ChainPasses(id) ELSE events' = RecentEvents /\ UNCHANGED passed
    /\ UNCHANGED <<clock, allowed, blocked, cleared>>

Tick ==
    /\ clock < MaxTime
    /\ clock' = clock + 1
    /\ UNCHANGED <<events, seenEvents, allowed, blocked, entered, passed, cleared>>

ClearSeen ==
    /\ seenEvents # {}
    /\ seenEvents' = {}
    /\ cleared' = Len(passed)
    /\ UNCHANGED <<clock, events, allowed, blocked, entered, passed>>

\* AddAllowedSource, RemoveAllowedSource, AddBlockedSource, RemoveBlockedSource.
SetSource(s) ==
    /\ \/ allowed' = allowed \cup {s} /\ UNCHANGED blocked
       \/ allowed' = allowed \ {s} /\ UNCHANGED blocked
       \/ blocked' = blocked \cup {s} /\ UNCHANGED allowed
       \/ blocked' = blocked \ {s} /\ UNCHANGED allowed
    /\ UNCHANGED <<clock, events, seenEvents, entered, passed, cleared>>

MiddlewareNext ==
    \/ \E id \in EventIds : Chain(id)
    \/ Tick \/ ClearSeen
    \/ \E s \in Sources : SetSource(s)

MiddlewareSpec == MiddlewareInit /\ [][MiddlewareNext]_mwVars

-----------------------------------------------------------------------------
(* Properties                                                              *)

\* No window of the configured length, wherever it starts, has more than
\* maxEvents events that passed (RateLimitMiddleware.Process prunes by a
\* sliding cutoff).
RateIsBounded ==
    \A i \in DOMAIN passed :
        Cardinality({j \in DOMAIN passed : j >= i /\ passed[j][2] < passed[i][2] + Window}) <= MaxEvents

\* The chain lets the same identifier pass twice only when more than the ttl
\* lies between, or ClearSeen (DeduplicationMiddleware.Process).
NoDuplicateWithinTtl ==
    \A i, j \in DOMAIN passed :
        cleared < i /\ i < j /\ passed[i][1] = passed[j][1] => passed[j][2] > passed[i][2] + Ttl

\* An event finds every route that matches, is tried as often as allowed, leaves the
\* buffer once, and passes the middleware only within rate and ttl (router.go,
\* handler.go, middleware.go).
PipelineSafe ==
    /\ RouterTypeOK
    /\ FindsEveryMatch
    /\ TablesHoldRegistered
    /\ HandlersTypeOK
    /\ AttemptsBounded
    /\ BufferedOnce
    /\ CloseFlushes
    /\ MiddlewareTypeOK
    /\ RateIsBounded
    /\ NoDuplicateWithinTtl
=============================================================================
