-------------------------- MODULE AssistantClients --------------------------
(***************************************************************************)
(* The clients of the assistant: of the LLM gateway and of the streams of the*)
(* orchestrator.  They share no state.                                     *)
(***************************************************************************)
EXTENDS Naturals, Sequences, FiniteSets

-----------------------------------------------------------------------------
(***************************************************************************)
(* LLMGatewayClient (agents/assistant/src/llm/gateway-client.ts): calls    *)
(* that share one connection, made by whichever call comes first, and      *)
(* streams whose chunks are queued by event listeners, read by a           *)
(* generator, and given up by a timer or by the caller.                    *)
(*                                                                         *)
(* One thread runs it: an action is what happens between two awaits.  The  *)
(* channel and the server are external.  Once the generator has returned   *)
(* the stream has no listener left, so nothing it sends is modelled.       *)
(***************************************************************************)
CONSTANTS
    LcCalls,        \* calls of complete and stream
    KindOf,         \* "stream" or "unary", of each call
    MaxChunks       \* chunks a server sends on a stream (bound)

ASSUME KindAssumption == KindOf \in [LcCalls -> {"stream", "unary"}]

VARIABLES
    lcConn,         \* [state: connected, connectPromise set, or neither; channels: made so far]
    lcFailed,       \* connection attempts that failed
    lcCall          \* each call

lcVars == <<lcConn, lcFailed, lcCall>>

Chunks == {"content", "error", "complete"}
Codes == {"unavailable", "deadline", "invalid", "internal"}
NoFault == "none"

\* A call: where it is, whether it was aborted (by its timer or
\* by the caller), the queue of chunks, finished and streamError; and what the
\* server makes of it.  sent, got and left are history: what the listeners were
\* given, what the consumer was given, whether the consumer walked out.
NewCall == [pc |-> "new", aborted |-> FALSE, queue |-> << >>,
            finished |-> FALSE, fault |-> NoFault, server |-> "none",
            sent |-> << >>, got |-> << >>, left |-> FALSE]

LcInit ==
    /\ lcConn = [state |-> "no", channels |-> 0] /\ lcFailed = 0
    /\ lcCall = [c \in LcCalls |-> NewCall]

Over(c) == lcCall[c].pc \in {"done", "failed"}
Set(c, r) == lcCall' = [lcCall EXCEPT ![c] = r]

-----------------------------------------------------------------------------
(* connect: the first call makes a channel, calls that come while it waits *)
(* share its promise, and connected is never reset.                        *)

Join ==
    lcConn' = IF lcConn.state \in {"yes", "trying"} THEN lcConn
              ELSE [state |-> "trying", channels |-> lcConn.channels + 1]

LcBegin(c) ==
    /\ lcCall[c].pc = "new" /\ Join
    /\ Set(c, [lcCall[c] EXCEPT !.pc = "connecting"])
    /\ UNCHANGED lcFailed

ConnectReady ==
    /\ lcConn.state = "trying" /\ lcConn' = [lcConn EXCEPT !.state = "yes"]
    /\ UNCHANGED <<lcFailed, lcCall>>

\* waitForReady reports an error: everybody who waits is rejected, and the channel
\* is forgotten without being closed.  An aborted stream returns instead.
ConnectFails ==
    /\ lcConn.state = "trying" /\ lcConn' = [lcConn EXCEPT !.state = "no"]
    /\ lcFailed' = lcFailed + 1
    /\ lcCall' = [c \in LcCalls |->
          LET r == lcCall[c] IN
          IF r.pc # "connecting" THEN r
          ELSE IF KindOf[c] = "stream" /\ r.aborted THEN [r EXCEPT !.pc = "done"]
          ELSE [r EXCEPT !.pc = "failed", !.fault = "refused"]]

-----------------------------------------------------------------------------
(* complete.                                                               *)

CallUnary(c) ==
    /\ KindOf[c] = "unary" /\ lcCall[c].pc = "connecting" /\ lcConn.state = "yes"
    /\ Set(c, IF lcCall[c].aborted THEN [lcCall[c] EXCEPT !.pc = "failed", !.fault = "aborted"]
              ELSE [lcCall[c] EXCEPT !.pc = "calling", !.server = "open"])
    /\ UNCHANGED <<lcConn, lcFailed>>

\* An answer without response data is an error too.
UnaryAnswered(c, data) ==
    /\ lcCall[c].pc = "calling"
    /\ Set(c, IF data THEN [lcCall[c] EXCEPT !.pc = "done", !.server = "ended"]
              ELSE [lcCall[c] EXCEPT !.pc = "failed", !.fault = "empty", !.server = "ended"])
    /\ UNCHANGED <<lcConn, lcFailed>>

UnaryFails(c, code) ==
    /\ lcCall[c].pc = "calling"
    /\ Set(c, [lcCall[c] EXCEPT !.pc = "failed", !.fault = code, !.server = "ended"])
    /\ UNCHANGED <<lcConn, lcFailed>>

-----------------------------------------------------------------------------
(* stream.                                                                 *)

\* grpcStream.end(): the server is told that nothing more comes, not to stop.
EndStream(r) == [r EXCEPT !.server = IF @ = "open" THEN "released" ELSE @]

\* The request is written even for a stream aborted while it waited; the listener
\* for the abort is too late then, and the loop returns at once.
OpenStream(c) ==
    /\ KindOf[c] = "stream" /\ lcCall[c].pc = "connecting" /\ lcConn.state = "yes"
    /\ Set(c, IF lcCall[c].aborted THEN EndStream([lcCall[c] EXCEPT !.pc = "done", !.server = "open"])
              ELSE [lcCall[c] EXCEPT !.pc = "reading", !.server = "open"])
    /\ UNCHANGED <<lcConn, lcFailed>>

\* onData, for the chunks parseStreamChunk knows; heartbeats and the rest are dropped.
Data(c, k) ==
    /\ lcCall[c].pc = "reading" /\ lcCall[c].server = "open" /\ Len(lcCall[c].sent) < MaxChunks
    /\ Set(c, [lcCall[c] EXCEPT !.sent = Append(@, k), !.queue = Append(@, k),
                                !.finished = (@ \/ k = "complete")])
    /\ UNCHANGED <<lcConn, lcFailed>>

StreamEnds(c) ==
    /\ lcCall[c].pc = "reading" /\ lcCall[c].server = "open"
    /\ Set(c, [lcCall[c] EXCEPT !.server = "ended", !.finished = TRUE])
    /\ UNCHANGED <<lcConn, lcFailed>>

StreamFails(c, code) ==
    /\ lcCall[c].pc = "reading" /\ lcCall[c].server = "open"
    /\ Set(c, [lcCall[c] EXCEPT !.server = "ended", !.finished = TRUE, !.fault = code])
    /\ UNCHANGED <<lcConn, lcFailed>>

\* The timer fires or the caller aborts.  A unary call goes on at the server.
Abort(c) ==
    /\ lcCall[c].pc \in {"connecting", "reading", "calling"} /\ ~lcCall[c].aborted
    /\ Set(c, [lcCall[c] EXCEPT !.aborted = TRUE,
                  !.pc = IF @ = "calling" THEN "failed" ELSE @,
                  !.fault = IF lcCall[c].pc = "calling" THEN "aborted" ELSE @,
                  !.finished = (@ \/ lcCall[c].pc = "reading"),
                  !.server = IF lcCall[c].pc = "reading" /\ @ = "open" THEN "cancelled" ELSE @])
    /\ UNCHANGED <<lcConn, lcFailed>>

ReadChunk(c) ==
    /\ lcCall[c].pc = "reading" /\ ~lcCall[c].aborted /\ lcCall[c].queue # << >>
    /\ Set(c, [lcCall[c] EXCEPT !.got = Append(@, Head(lcCall[c].queue)), !.queue = Tail(@)])
    /\ UNCHANGED <<lcConn, lcFailed>>

\* A plausible slip: a finished stream is left with chunks in the queue.
ReturnsEarly(r) == r.aborted \/ r.finished

Returns(r) == r.aborted \/ (r.finished /\ r.queue = << >>)

\* The generator returns, and throws streamError unless the call was aborted: a
\* timeout looks like the end of the answer.
StreamReturns(c) ==
    /\ lcCall[c].pc = "reading" /\ Returns(lcCall[c])
    /\ Set(c, EndStream([lcCall[c] EXCEPT
                  !.pc = IF lcCall[c].fault # NoFault /\ ~lcCall[c].aborted THEN "failed" ELSE "done"]))
    /\ UNCHANGED <<lcConn, lcFailed>>

\* The consumer leaves its loop early.
WalkOut(c) ==
    /\ lcCall[c].pc = "reading" /\ lcCall[c].got # << >>
    /\ Set(c, EndStream([lcCall[c] EXCEPT !.pc = "done", !.left = TRUE]))
    /\ UNCHANGED <<lcConn, lcFailed>>

-----------------------------------------------------------------------------
(* The error a failed call throws: handleError.                            *)

ErrorCode(fault) ==
    CASE fault = "invalid" -> "INVALID_REQUEST"
      [] fault \in {"deadline", "aborted"} -> "TIMEOUT"
      [] fault = "unavailable" -> "PROVIDER_NOT_AVAILABLE"
      [] fault = "internal" -> "UPSTREAM_ERROR"
      [] OTHER -> "UNKNOWN"

Retryable(fault) == fault \in {"deadline", "unavailable", "aborted"}

-----------------------------------------------------------------------------
LcNext ==
    \/ ConnectReady \/ ConnectFails
    \/ \E c \in LcCalls :
          \/ LcBegin(c) \/ CallUnary(c) \/ OpenStream(c) \/ Abort(c) \/ ReadChunk(c) \/ StreamReturns(c)
          \/ StreamEnds(c) \/ WalkOut(c)
          \/ \E data \in BOOLEAN : UnaryAnswered(c, data)
          \/ \E code \in Codes : UnaryFails(c, code) \/ StreamFails(c, code)
          \/ \E k \in Chunks : Data(c, k)

LcSpec == LcInit /\ [][LcNext]_lcVars

-----------------------------------------------------------------------------
\* Type correctness; a channel is made only when the one before has failed.
LcTypeOK ==
    /\ lcConn.state \in {"no", "trying", "yes"}
    /\ lcConn.channels = lcFailed + (IF lcConn.state = "no" THEN 0 ELSE 1)
    /\ \A c \in LcCalls :
          /\ lcCall[c].pc \in {"new", "connecting", "calling", "reading", "done", "failed"}
          /\ lcCall[c].sent \in Seq(Chunks)
          /\ lcCall[c].fault \in Codes \cup {NoFault, "refused", "aborted", "empty"}
          /\ lcCall[c].server \in {"none", "open", "ended", "cancelled", "released"}

Has(chunks, k) == \E i \in DOMAIN chunks : chunks[i] = k

\* The consumer gets the chunks in the order of the server, and a stream that ends
\* without an error gave it every one of them up to an end the server gave: nothing
\* in the queue is dropped by the listeners' finished flag.  Only a timer, an abort
\* or the consumer itself cuts an answer short.
AnswerIsWhole ==
    \A c \in LcCalls : LET r == lcCall[c] IN
        /\ r.got \o r.queue = r.sent
        /\ KindOf[c] = "stream" /\ r.pc = "done" /\ ~r.aborted /\ ~r.left =>
              r.got = r.sent /\ (Has(r.sent, "complete") \/ r.server = "ended")

\* When the generator is done the server knows: a stream given up in the middle is
\* canceled, any other one is half-closed.
GivenUpIsCanceled ==
    \A c \in LcCalls : LET r == lcCall[c] IN
        /\ KindOf[c] = "stream" /\ Over(c) => r.server # "open"
        /\ r.aborted /\ r.server = "released" => r.sent = << >>

\* An error is marked retryable exactly when its code names a passing condition.
RetryableIsTransient ==
    \A c \in LcCalls : lcCall[c].pc = "failed" =>
        (Retryable(lcCall[c].fault) <=> ErrorCode(lcCall[c].fault) \in {"TIMEOUT", "PROVIDER_NOT_AVAILABLE"})

-----------------------------------------------------------------------------
(***************************************************************************)
(* StreamAgentClient and StreamTaskClient of the assistant                 *)
(* (agents/assistant/src/orchestrator/stream-client.ts): one stream to the *)
(* orchestrator, opened again by a timer after an error when autoReconnect *)
(* is set.  The listeners of a stream stay on it for good, so streams      *)
(* replaced or canceled still report to the client.                        *)
(*                                                                         *)
(* The gRPC stream is external: after an error it also ends, and a         *)
(* canceled one reports the cancellation as an error.                      *)
(***************************************************************************)
CONSTANTS
    MaxReopens,     \* maxReconnectAttempts
    MaxAgentStreams \* streams opened (bound)

ASSUME ReopensAssumption == MaxReopens \in Nat

VARIABLES
    asOptions,      \* [kind: "agent" or "task", auto: autoReconnect]
    asStreams,      \* each stream opened: "open", "cancelled" or "gone"
    asStream,       \* stream: its number, 0 for null
    asOpening,      \* the streams whose connect awaits its write
    asConnected,    \* connected
    asAttempts,     \* reconnectAttempts
    asTimers,       \* timers pending, by number
    asTimer,        \* reconnectTimeout: the number of the last one set
    asClosed,       \* close was called: removeAllListeners too
    asDouble,       \* history: connect was called while a stream was open or a timer pending
    asCrossed       \* history: connect or close was called while a connect awaited its write

asVars == <<asOptions, asStreams, asStream, asOpening, asConnected, asAttempts,
            asTimers, asTimer, asClosed, asDouble, asCrossed>>

AsInit ==
    /\ asOptions \in [kind : {"agent", "task"}, auto : BOOLEAN]
    /\ asStreams = << >> /\ asStream = 0 /\ asOpening = {} /\ asConnected = FALSE /\ asAttempts = 0
    /\ asTimers = {} /\ asTimer = 0 /\ asClosed = FALSE /\ asDouble = FALSE /\ asCrossed = FALSE

OpenStreams == {s \in DOMAIN asStreams : asStreams[s] = "open"}

-----------------------------------------------------------------------------
(* connect.  Its first part makes the stream and writes the first request, *)
(* which needs no peer; after its await, in a microtask, it is connected.  *)

Opens ==
    /\ Len(asStreams) < MaxAgentStreams
    /\ asStreams' = Append(asStreams, "open") /\ asStream' = Len(asStreams) + 1
    /\ asOpening' = asOpening \cup {Len(asStreams) + 1}

\* A call of the program, which does not connect a client it has closed: connected
\* does not keep it from calling again in the same turn.
Called ==
    /\ ~asClosed /\ ~asConnected
    /\ asDouble' = (asDouble \/ OpenStreams # {} \/ asTimers # {})
    /\ asCrossed' = (asCrossed \/ asOpening # {})

Connect ==
    /\ Called /\ Opens
    /\ UNCHANGED <<asOptions, asConnected, asAttempts, asTimers, asTimer, asClosed>>

\* A failing connect forgets the stream it had, open or not.
ConnectThrows ==
    /\ Called /\ asStream' = 0
    /\ UNCHANGED <<asOptions, asStreams, asOpening, asConnected, asAttempts, asTimers, asTimer, asClosed>>

\* After the await, whatever was called in the meantime; the attempts are forgotten
\* whether or not the orchestrator is reached.
Opened(s) ==
    /\ s \in asOpening /\ asOpening' = asOpening \ {s}
    /\ asConnected' = TRUE /\ asAttempts' = 0
    /\ UNCHANGED <<asOptions, asStreams, asStream, asTimers, asTimer, asClosed, asDouble, asCrossed>>

\* attemptReconnect: errors of connect, "already connected" among them, are dropped
\* and nothing is tried again.  A timer, like what arrives on a stream, comes when no
\* microtask is left.
TimerFires(t) ==
    /\ t \in asTimers /\ asTimers' = asTimers \ {t} /\ asOpening = {}
    /\ \/ asConnected /\ UNCHANGED <<asStreams, asStream, asOpening, asDouble>>
       \/ ~asConnected /\ Opens /\ asDouble' = (asDouble \/ OpenStreams # {})
       \/ /\ ~asConnected /\ asStream' = 0 /\ asDouble' = (asDouble \/ OpenStreams # {})
          /\ UNCHANGED <<asStreams, asOpening>>
    /\ UNCHANGED <<asOptions, asConnected, asAttempts, asTimer, asClosed, asCrossed>>

-----------------------------------------------------------------------------
(* Events of a stream.                                                     *)

\* handleError: without a listener for the error the event itself throws, so a
\* closed client sets no timer.
SetsTimer == asOptions.auto /\ ~asClosed /\ asAttempts < MaxReopens

\* An error and the end that follows it; that of a cancellation may come at once.
Fails(s) ==
    /\ asStreams[s] \in IF asOpening = {} THEN {"open", "cancelled"} ELSE {"cancelled"}
    /\ asStreams' = [asStreams EXCEPT ![s] = "gone"]
    /\ IF SetsTimer
       THEN /\ asAttempts' = asAttempts + 1 /\ asTimer' = asTimer + 1
            /\ asTimers' = asTimers \cup {asTimer + 1}
       ELSE UNCHANGED <<asAttempts, asTimer, asTimers>>
    /\ asConnected' = FALSE
    /\ UNCHANGED <<asOptions, asStream, asOpening, asClosed, asDouble, asCrossed>>

Ends(s) ==
    /\ asStreams[s] = "open" /\ asOpening = {} /\ asStreams' = [asStreams EXCEPT ![s] = "gone"]
    /\ asConnected' = FALSE
    /\ UNCHANGED <<asOptions, asStream, asOpening, asAttempts, asTimers, asTimer, asClosed, asDouble, asCrossed>>

\* handleResponse: of what arrives only the completion of a task changes the client.
TaskComplete(s) ==
    /\ asOptions.kind = "task" /\ asStreams[s] = "open" /\ asOpening = {} /\ asConnected
    /\ asConnected' = FALSE
    /\ UNCHANGED <<asOptions, asStreams, asStream, asOpening, asAttempts, asTimers, asTimer, asClosed, asDouble, asCrossed>>

-----------------------------------------------------------------------------

\* close: the last timer set is cleared and the current stream canceled.
CloseStream ==
    /\ ~asClosed /\ asClosed' = TRUE /\ asConnected' = FALSE /\ asStream' = 0
    /\ asTimers' = asTimers \ {asTimer}
    /\ asStreams' = [s \in DOMAIN asStreams |-> IF s = asStream /\ asStreams[s] = "open" THEN "cancelled" ELSE asStreams[s]]
    /\ asCrossed' = (asCrossed \/ asOpening # {})
    /\ UNCHANGED <<asOptions, asOpening, asAttempts, asTimer, asDouble>>

AsNext ==
    \/ Connect \/ ConnectThrows \/ CloseStream
    \/ \E t \in asTimers : TimerFires(t)
    \/ \E s \in DOMAIN asStreams : Opened(s) \/ Fails(s) \/ Ends(s) \/ TaskComplete(s)

AsSpec == AsInit /\ [][AsNext]_asVars

-----------------------------------------------------------------------------
\* Type correctness.
AsTypeOK ==
    /\ asStreams \in Seq({"open", "cancelled", "gone"}) /\ asStream \in 0..Len(asStreams)
    /\ asOpening \subseteq DOMAIN asStreams /\ asConnected \in BOOLEAN /\ asAttempts \in 0..MaxReopens
    /\ asTimers \subseteq 1..asTimer

\* A client that says it is connected has an open stream, provided that nothing was
\* called between a connect and the end of its await: no event of an older stream and
\* no reconnection in between makes it say so of a dead one.  (A connect and a close
\* in one turn leave it connected without a stream, stream-client.ts:185.)
ConnectedIsAlive == asConnected /\ ~asCrossed => asStream # 0 /\ asStreams[asStream] = "open"

\* After close no stream is open and none will be, provided that the client never had
\* two streams or a stream and a pending timer: close clears one timer and cancels
\* one stream, and a task client that connects again after its task, or any client
\* that is connected by hand before its timer fires, has two.
ClosedStaysClosed == asClosed /\ ~asDouble => OpenStreams = {} /\ asTimers = {}

\* Timers, aborts, errors and ends race: the consumer of a model's answer gets all of
\* it or knows why not, the server learns of it, and a stream client whose calls do not
\* cross is connected to a live stream or closed (gateway-client.ts, stream-client.ts).
ClientsSafe ==
    /\ LcTypeOK
    /\ AnswerIsWhole
    /\ GivenUpIsCanceled
    /\ RetryableIsTransient
    /\ AsTypeOK
    /\ ConnectedIsAlive
    /\ ClosedStaysClosed
=============================================================================
