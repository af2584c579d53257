--------------------------- MODULE ProviderCalls ---------------------------
(***************************************************************************)
(* anthropicProvider and openaiProvider (pkg/provider/anthropic.go,        *)
(* openai.go): completions and streams of several callers on one provider, *)
(* which share its status, its closed flag and its token account.          *)
(*                                                                         *)
(* A stream is read by a goroutine of its own that puts chunks into a      *)
(* buffered channel.  The HTTP server is external: it answers, fails, or   *)
(* sends events in any order the reader accepts; a context that ends makes *)
(* the read or the request under way fail.  Anthropic's reader counts on   *)
(* the usage of a message_delta: without it the process ends.              *)
(***************************************************************************)
EXTENDS Naturals, Sequences, FiniteSets

CONSTANTS
    PcCalls,        \* calls of Complete and CompleteStream
    ChunkBuffer,    \* capacity of chunkChan
    MaxRead         \* chunks read from a stream, after which only its end is (bound)

ASSUME PcAssumption == IsFiniteSet(PcCalls) /\ ChunkBuffer \in Nat

VARIABLES
    pcVendor,       \* "anthropic" or "openai"
    pcStatus,       \* status
    pcClosed,       \* closed
    pcRecorded,     \* requests of the token account
    pcCall          \* the calls

pcVars == <<pcVendor, pcStatus, pcClosed, pcRecorded, pcCall>>

\* A call: how it was made and where it is; whether its context has ended; the text
\* events read, whether a finish was, what is left to put and whether the goroutine
\* returns then or panics, and with what status; the channel.  got is history: what the
\* consumer took.
NewPcCall == [kind |-> "none", pc |-> "new", cancelled |-> FALSE, deltas |-> 0, done |-> FALSE,
              out |-> << >>, ending |-> "no", chan |-> << >>, got |-> << >>]

PcInit ==
    /\ pcVendor \in {"anthropic", "openai"}
    /\ pcStatus = "available" /\ pcClosed = FALSE /\ pcRecorded = 0
    /\ pcCall = [c \in PcCalls |-> NewPcCall]

PcSet(c, r) == pcCall' = [pcCall EXCEPT ![c] = r]
PcOver(c) == pcCall[c].pc \in {"refused", "failed", "returned", "ended", "panicked"}
InFlight == {c \in PcCalls : pcCall[c].pc # "new" /\ ~PcOver(c)}
UpdateStatus(s) == pcStatus' = s

-----------------------------------------------------------------------------
(* Starting a call.                                                        *)

\* A plausible slip: Close sets the status, so the status seems enough.
RefusedByStatus == pcStatus # "available"

Refused == pcClosed \/ pcStatus # "available"

\* The guards of Complete and CompleteStream, validateRequest and the conversion.
PcBegin(c, kind, valid) ==
    /\ pcCall[c].pc = "new"
    /\ PcSet(c, [pcCall[c] EXCEPT !.kind = kind, !.pc = IF Refused \/ ~valid THEN "refused" ELSE "sent"])
    /\ UNCHANGED <<pcVendor, pcStatus, pcClosed, pcRecorded>>

\* The caller cancels, or its deadline passes.
PcCancel(c) ==
    /\ c \in InFlight /\ ~pcCall[c].cancelled
    /\ PcSet(c, [pcCall[c] EXCEPT !.cancelled = TRUE])
    /\ UNCHANGED <<pcVendor, pcStatus, pcClosed, pcRecorded>>

\* client.Do fails: the status becomes error even when the caller canceled.
DoFails(c) ==
    /\ pcCall[c].pc = "sent" /\ UpdateStatus("error")
    /\ PcSet(c, [pcCall[c] EXCEPT !.pc = "failed"])
    /\ UNCHANGED <<pcVendor, pcClosed, pcRecorded>>

\* handleErrorResponse; a stream reports the error and leaves the status alone.
StatusOf(code) ==
    CASE code = 401 -> "unavailable"
      [] code \in {429, 400, 413} -> pcStatus
      [] OTHER -> "error"

ErrorResponse(c, code) ==
    /\ pcCall[c].pc = "sent"
    /\ IF pcCall[c].kind = "complete" THEN UpdateStatus(StatusOf(code)) ELSE UNCHANGED pcStatus
    /\ PcSet(c, [pcCall[c] EXCEPT !.pc = "failed"])
    /\ UNCHANGED <<pcVendor, pcClosed, pcRecorded>>

-----------------------------------------------------------------------------
(* Complete.                                                               *)

\* The body is not read, or is not JSON.
BodyFails(c) ==
    /\ pcCall[c].pc = "sent" /\ pcCall[c].kind = "complete"
    /\ PcSet(c, [pcCall[c] EXCEPT !.pc = "failed"])
    /\ UNCHANGED <<pcVendor, pcStatus, pcClosed, pcRecorded>>

CompleteReturns(c) ==
    /\ pcCall[c].pc = "sent" /\ pcCall[c].kind = "complete"
    /\ UpdateStatus("available") /\ pcRecorded' = pcRecorded + 1
    /\ PcSet(c, [pcCall[c] EXCEPT !.pc = "returned"])
    /\ UNCHANGED <<pcVendor, pcClosed>>

-----------------------------------------------------------------------------
(* CompleteStream.                                                         *)

\* CompleteStream returns the channel and its goroutine starts.
StreamAccepted(c) ==
    /\ pcCall[c].pc = "sent" /\ pcCall[c].kind = "stream"
    /\ PcSet(c, [pcCall[c] EXCEPT !.pc = "accepted"])
    /\ UNCHANGED <<pcVendor, pcStatus, pcClosed, pcRecorded>>

ReadingStarts(c) ==
    /\ pcCall[c].pc = "accepted" /\ UpdateStatus("available")
    /\ PcSet(c, [pcCall[c] EXCEPT !.pc = "reading"])
    /\ UNCHANGED <<pcVendor, pcClosed, pcRecorded>>

Chunk(kind, n) == [kind |-> kind, content |-> n]
ErrorChunk == Chunk("error", 0)
Idle(c) == pcCall[c].pc = "reading" /\ pcCall[c].out = << >> /\ pcCall[c].ending = "no"

\* OpenAI's reader passes nothing on after the finish reason.
Heard(c) == pcVendor = "anthropic" \/ ~pcCall[c].done

Stream(c) == pcCall[c].got \o pcCall[c].chan \o pcCall[c].out

\* An event that becomes a chunk; one that is not heard changes nothing.
Reads(c) == Idle(c) /\ ~pcCall[c].cancelled /\ Heard(c) /\ Len(Stream(c)) < MaxRead

\* A text event, which of OpenAI's may carry the finish reason as well.  Anthropic's
\* reader takes one after a message_delta, too.
ReadDelta(c, last) ==
    /\ Reads(c) /\ (pcVendor = "anthropic" => ~last)
    /\ LET n == pcCall[c].deltas + 1
       IN  PcSet(c, [pcCall[c] EXCEPT !.deltas = n, !.done = (@ \/ last),
                        !.out = <<Chunk("delta", n)>> \o (IF last THEN <<Chunk("done", n)>> ELSE << >>)])
    /\ UNCHANGED <<pcVendor, pcStatus, pcClosed, pcRecorded>>

\* message_delta, the first or another, or a chunk of OpenAI's with nothing but a finish
\* reason.  Of the former the chunk is put in any case and the usage recorded; without
\* usage the goroutine dereferences nil once the chunk is put.
ReadFinal(c, usage) ==
    /\ Reads(c) /\ (pcVendor = "openai" => ~usage)
    /\ pcRecorded' = pcRecorded + (IF usage THEN 1 ELSE 0)
    /\ PcSet(c, [pcCall[c] EXCEPT !.done = TRUE, !.out = <<Chunk("done", pcCall[c].deltas)>>,
                    !.ending = IF pcVendor = "anthropic" /\ ~usage THEN "panic" ELSE "no"])
    /\ UNCHANGED <<pcVendor, pcStatus, pcClosed>>

\* The stream breaks, an event does not parse or is an error event, or the context
\* ends while the goroutine waits for the next line.
ReadFails(c) ==
    /\ Idle(c)
    /\ PcSet(c, IF Heard(c) THEN [pcCall[c] EXCEPT !.ending = "error", !.out = <<ErrorChunk>>]
                ELSE [pcCall[c] EXCEPT !.ending = "quiet"])
    /\ UNCHANGED <<pcVendor, pcStatus, pcClosed, pcRecorded>>

\* The goroutine finds the context ended before it reads on.
SeesCancelled(c) ==
    /\ Idle(c) /\ pcCall[c].cancelled
    /\ PcSet(c, [pcCall[c] EXCEPT !.ending = "quiet", !.out = IF Heard(c) THEN <<ErrorChunk>> ELSE << >>])
    /\ UNCHANGED <<pcVendor, pcStatus, pcClosed, pcRecorded>>

\* The server ends the stream, after a finish or not: nobody can tell.
ReadEOF(c) ==
    /\ Idle(c) /\ PcSet(c, [pcCall[c] EXCEPT !.pc = "ended"])
    /\ UNCHANGED <<pcVendor, pcStatus, pcClosed, pcRecorded>>

\* The status becomes error only when the error chunk has found room.
ChannelCloses(c) ==
    /\ pcCall[c].ending \in {"error", "quiet"} /\ pcCall[c].out = << >> /\ ~PcOver(c)
    /\ PcSet(c, [pcCall[c] EXCEPT !.pc = "ended"])
    /\ IF pcCall[c].ending = "error" THEN UpdateStatus("error") ELSE UNCHANGED pcStatus
    /\ UNCHANGED <<pcVendor, pcClosed, pcRecorded>>

\* The nil usage is dereferenced for a log line, and the process ends with the panic.
PcPanics(c) ==
    /\ pcCall[c].ending = "panic" /\ pcCall[c].out = << >> /\ ~PcOver(c)
    /\ PcSet(c, [pcCall[c] EXCEPT !.pc = "panicked"])
    /\ UNCHANGED <<pcVendor, pcStatus, pcClosed, pcRecorded>>

Panicked == \E c \in PcCalls : pcCall[c].pc = "panicked"

\* A full channel holds the goroutine up, whether or not its context has ended: a
\* consumer that stops receiving leaves it there.
Put(c) ==
    /\ pcCall[c].pc = "reading" /\ pcCall[c].out # << >> /\ Len(pcCall[c].chan) < ChunkBuffer
    /\ PcSet(c, [pcCall[c] EXCEPT !.out = Tail(@), !.chan = Append(@, Head(pcCall[c].out))])
    /\ UNCHANGED <<pcVendor, pcStatus, pcClosed, pcRecorded>>

Receive(c) ==
    /\ pcCall[c].chan # << >>
    /\ PcSet(c, [pcCall[c] EXCEPT !.chan = Tail(@), !.got = Append(@, Head(pcCall[c].chan))])
    /\ UNCHANGED <<pcVendor, pcStatus, pcClosed, pcRecorded>>

-----------------------------------------------------------------------------
PcClose ==
    /\ ~pcClosed /\ pcClosed' = TRUE /\ UpdateStatus("unavailable")
    /\ UNCHANGED <<pcVendor, pcRecorded, pcCall>>

PcNext ==
    /\ ~Panicked
    /\ \/ PcClose
       \/ \E c \in PcCalls :
             \/ \E kind \in {"complete", "stream"}, valid \in BOOLEAN : PcBegin(c, kind, valid)
             \/ \E code \in {400, 401, 429, 500} : ErrorResponse(c, code)
             \/ \E last \in BOOLEAN : ReadDelta(c, last)
             \/ \E usage \in BOOLEAN : ReadFinal(c, usage)
             \/ PcCancel(c) \/ DoFails(c) \/ BodyFails(c) \/ CompleteReturns(c) \/ StreamAccepted(c)
             \/ ReadingStarts(c) \/ ReadFails(c) \/ SeesCancelled(c) \/ ReadEOF(c)
             \/ ChannelCloses(c) \/ PcPanics(c) \/ Put(c) \/ Receive(c)

PcSpec == PcInit /\ [][PcNext]_pcVars

-----------------------------------------------------------------------------
\* Type correctness; a chunk waits outside the channel for nothing but room in it.
PcTypeOK ==
    /\ pcStatus \in {"available", "error", "unavailable"}
    /\ pcRecorded \in Nat
    /\ \A c \in PcCalls :
          /\ pcCall[c].pc \in {"new", "refused", "sent", "failed", "returned", "accepted", "reading", "ended",
                              "panicked"}
          /\ Len(pcCall[c].chan) <= ChunkBuffer
          /\ pcCall[c].kind = "complete" => pcCall[c].chan = << >> /\ pcCall[c].got = << >>

\* What a consumer is given: every text event once and in order, each chunk with the
\* content so far, so that a final one carries the whole text read; an error only as the
\* last chunk, and after the end nothing from OpenAI.  Anthropic's reader passes on
\* whatever the server sends after its message_delta.
StreamIsWellFormed ==
    \A c \in PcCalls : LET s == Stream(c) IN
        \A i \in DOMAIN s :
            /\ s[i].kind # "error" => s[i].content = Cardinality({j \in 1..i : s[j].kind = "delta"})
            /\ s[i].kind = "error" => i = Len(s)
            /\ s[i].kind = "done" /\ pcVendor = "openai" => i = Len(s)

\* A closed provider takes no call, though calls in flight when it was closed may make
\* its status available again.
ClosedTakesNothing == [][\A c \in PcCalls : pcClosed /\ pcCall[c].pc = "new" => pcCall'[c].pc \in {"new", "refused"}]_pcVars

\* Calls, streams and Close of a provider overlap: a stream is well formed to its end,
\* and a closed provider takes no call (anthropic.go, openai.go).
ProviderCallsSafe ==
    /\ [](PcTypeOK /\ StreamIsWellFormed)
    /\ ClosedTakesNothing
=============================================================================
