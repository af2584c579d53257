---------------------------- MODULE AnswerParts -----------------------------
(***************************************************************************)
(* What an answer of the assistant is made of: the part of the conversation*)
(* that is sent, the pieces that come back, and the tool calls that are    *)
(* delegated.  They share no state.                                        *)
(***************************************************************************)
EXTENDS Naturals, Sequences
LOCAL INSTANCE SequencesExt
LOCAL INSTANCE FiniteSetsExt
LOCAL INSTANCE Folds

-----------------------------------------------------------------------------
(***************************************************************************)
(* ContextWindow of the assistant (agents/assistant/src/session/           *)
(* context-window.ts): which messages of a conversation are sent to the    *)
(* model.  A kept message is named by its place in the conversation, which *)
(* is also the order of the timestamps.  The functions are pure; the       *)
(* conversation they are asked about grows from outside.                   *)
(***************************************************************************)
CONSTANTS
    InputTokens,    \* maxInputTokens: maxTokens - reservedTokens
    FirstCount, LastCount, \* firstAndLastCount
    MaxConversation \* messages of the conversation (bound)

VARIABLE cwMessages \* [role, tokens, importance]

cwVars == <<cwMessages>>

CwMessages == [role : {"system"}, tokens : {1, 2}, importance : {0}]
              \cup [role : {"other"}, tokens : {1, 3}, importance : {0, 1}]

Strategies == {"first_and_last", "recent_only", "system_and_recent", "importance_based"}

CwInit == cwMessages = << >>

Grow == /\ Len(cwMessages) < MaxConversation
        /\ \E m \in CwMessages : cwMessages' = Append(cwMessages, m)

CwNext == Grow

-----------------------------------------------------------------------------
\* countTokens: every message counts on its own.
CountTokens(ms, kept) == FoldLeft(LAMBDA sum, i : sum + ms[i].tokens, 0, kept)

\* The loops of every strategy: take messages in the order given until one does not
\* fit beside those taken.
Take(ms, kept, used) ==
    LET Fits(n) == used + CountTokens(ms, SubSeq(kept, 1, n)) <= InputTokens
    IN  SubSeq(kept, 1, Max({0} \cup {n \in 1..Len(kept) : Fits(n)}))

FitToLimit(ms, kept) == Reverse(Take(ms, Reverse(kept), 0))

Everything(ms) == [i \in DOMAIN ms |-> i]
Role(ms, kept, role) == SelectSeq(kept, LAMBDA i : ms[i].role = role)

\* When the two ends do not fit either, the oldest go, not the middle.
PruneFirstAndLast(ms) ==
    LET first == IF FirstCount < Len(ms) THEN FirstCount ELSE Len(ms)
        last  == IF LastCount < Len(ms) - first THEN LastCount ELSE Len(ms) - first
    IN  FitToLimit(ms, SubSeq(Everything(ms), 1, first) \o SubSeq(Everything(ms), Len(ms) - last + 1, Len(ms)))

PruneRecentOnly(ms) == FitToLimit(ms, Everything(ms))

\* The recent messages are put before the system messages.
PruneSystemAndRecent(ms) ==
    LET system == Role(ms, Everything(ms), "system")
        recent == Take(ms, Reverse(Role(ms, Everything(ms), "other")), CountTokens(ms, system))
    IN  Reverse(recent) \o system

\* Descending importance; sort is stable.
ByImportance(ms) ==
    SortSeq(Everything(ms), LAMBDA i, j : \/ ms[i].importance > ms[j].importance
                                          \/ ms[i].importance = ms[j].importance /\ i < j)

PruneByImportance(ms) ==
    LET system == Role(ms, Everything(ms), "system")
        others == Take(ms, Role(ms, ByImportance(ms), "other"), CountTokens(ms, system))
    IN  SortSeq(system \o others, LAMBDA i, j : i < j)

PruneMessages(ms, strategy) ==
    CASE strategy = "first_and_last"    -> PruneFirstAndLast(ms)
      [] strategy = "recent_only"       -> PruneRecentOnly(ms)
      [] strategy = "system_and_recent" -> PruneSystemAndRecent(ms)
      [] strategy = "importance_based"  -> PruneByImportance(ms)

\* pruningThreshold: 0.9 of the tokens.
NeedsPruning(ms) == CountTokens(ms, Everything(ms)) * 10 > InputTokens * 9

FitMessages(ms, strategy) ==
    IF NeedsPruning(ms) THEN PruneMessages(ms, strategy) ELSE Everything(ms)

CanAddMessages(ms, new) ==
    CountTokens(ms, Everything(ms)) + CountTokens(new, Everything(new)) <= InputTokens

-----------------------------------------------------------------------------
\* What is kept are messages of the conversation, each once.
CwTypeOK ==
    /\ cwMessages \in Seq(CwMessages)
    /\ \A s \in Strategies :
           LET kept == FitMessages(cwMessages, s)
           IN  /\ \A k \in DOMAIN kept : kept[k] \in DOMAIN cwMessages
               /\ IsInjective(kept)

\* What fitMessages returns fits, unless system messages alone are too many for the two
\* strategies that always keep them: then nothing else is sent.
FitsOrOnlySystem ==
    \A s \in Strategies :
        LET kept == FitMessages(cwMessages, s)
        IN  \/ CountTokens(cwMessages, kept) <= InputTokens
            \/ /\ s \in {"system_and_recent", "importance_based"}
               /\ Role(cwMessages, kept, "other") = << >>

\* Fitting what was fitted changes nothing: a caller that keeps the result and fits it
\* again before the next request loses and reorders nothing more.
FitIsStable ==
    \A s \in Strategies :
        LET kept  == FitMessages(cwMessages, s)
            fitted == [k \in DOMAIN kept |-> cwMessages[kept[k]]]
            again == FitMessages(fitted, s)
        IN  [k \in DOMAIN again |-> fitted[again[k]]] = fitted

\* A message that canAddMessages admits pushes nothing out, although the fitting then
\* prunes: between the threshold and the limit pruning keeps everything, except
\* first_and_last, which drops the middle whenever it runs.
AdmittedKeepsAll ==
    \A m \in CwMessages, s \in Strategies \ {"first_and_last"} :
        CanAddMessages(cwMessages, <<m>>) =>
            Len(FitMessages(Append(cwMessages, m), s)) = Len(cwMessages) + 1

\* The messages other than system messages stay in the order they were said.
KeptInOrder ==
    \A s \in Strategies :
        LET kept == Role(cwMessages, FitMessages(cwMessages, s), "other")
        IN  \A i, j \in DOMAIN kept : i < j => kept[i] < kept[j]

-----------------------------------------------------------------------------
(***************************************************************************)
(* The pieces from which the assistant can put a streamed answer together: *)
(* SSEParser (llm/stream-parser.ts) cuts the text that arrives into lines  *)
(* and lines into events, ResponseAggregator (agent/response-stream.ts)    *)
(* and ToolCallAggregator (agent/tool-calling.ts) collect the events.      *)
(*                                                                         *)
(* Text is a sequence of symbols: "data" (the prefix of a line), "nl", and *)
(* payloads.  A payload is one event, or "bad", which is no JSON, and      *)
(* stands for one or more characters cut anywhere.  The arguments of a     *)
(* tool call are braces: they are JSON when they balance.                  *)
(***************************************************************************)
CONSTANTS
    ToolCallIds,    \* tool calls of an answer
    MaxToolCallIds, \* maxToolCalls of both aggregators
    MaxContent,     \* maxContentLength, in deltas
    MaxBuffer,      \* maxBufferSize, in symbols
    MaxText         \* symbols of the text (bound)

VARIABLES
    saText,         \* history: the text that arrived
    saBuffer,       \* SSEParser.buffer
    saOverflowed,   \* history: the buffer was dropped
    saEvents,       \* history: the events parse returned
    saAnswer,       \* ResponseAggregator: content (deltas), calls, complete, error
    saTools         \* ToolCallAggregator: pending, completed; threw: its limit was exceeded

saVars == <<saText, saBuffer, saOverflowed, saEvents, saAnswer, saTools>>

Pieces == {"{", "}"}
ToolEvents == [event : {"tool"}, id : ToolCallIds, piece : Pieces]
Events == ToolEvents \cup [event : {"delta", "error", "end"}]
Symbols == {[text |-> "data"], [text |-> "nl"], [text |-> "bad"]}
           \cup {[text |-> "event", of |-> e] : e \in Events}
Nl == [text |-> "nl"]

NoAnswer == [content |-> 0, calls |-> << >>, complete |-> FALSE, error |-> FALSE]
NoTools == [pending |-> << >>, completed |-> << >>, threw |-> FALSE]

SaInit ==
    /\ saText = << >> /\ saBuffer = << >> /\ saOverflowed = FALSE /\ saEvents = << >>
    /\ saAnswer = NoAnswer /\ saTools = NoTools

-----------------------------------------------------------------------------
(* SSEParser.                                                              *)

\* The lines of a text, without what follows the last newline, which is the rest.
Lines(text) ==
    FoldLeft(LAMBDA acc, s : IF s = Nl THEN [done |-> Append(acc.done, acc.rest), rest |-> << >>]
                             ELSE [acc EXCEPT !.rest = Append(@, s)],
             [done |-> << >>, rest |-> << >>], text)

\* parseLine and toStreamingEvent: lines without prefix or payload, and payloads that
\* do not parse, give nothing.
EventsOf(line) ==
    IF Len(line) = 2 /\ line[1].text = "data" /\ line[2].text = "event" THEN <<line[2].of>> ELSE << >>

AllEvents(lines) == FlattenSeq([i \in DOMAIN lines |-> EventsOf(lines[i])])

-----------------------------------------------------------------------------
(* ResponseAggregator: process.  A call is an id and its arguments.        *)

Ids(calls) == {calls[i].id : i \in DOMAIN calls}

AddPiece(calls, id, piece) ==
    IF id \in Ids(calls)
    THEN [i \in DOMAIN calls |-> IF calls[i].id = id THEN [calls[i] EXCEPT !.args = Append(@, piece)] ELSE calls[i]]
    ELSE Append(calls, [id |-> id, args |-> <<piece>>])

\* A plausible slip: only a complete answer is closed to further events.
ProcessOn(r, e) ==
    IF r.complete THEN r
    ELSE CASE e.event = "delta" -> IF r.content = MaxContent THEN [r EXCEPT !.error = TRUE] ELSE [r EXCEPT !.content = @ + 1]
           [] e.event = "tool"  -> IF e.id \notin Ids(r.calls) /\ Len(r.calls) >= MaxToolCallIds
                                   THEN [r EXCEPT !.error = TRUE] ELSE [r EXCEPT !.calls = AddPiece(@, e.id, e.piece)]
           [] e.event = "error" -> [r EXCEPT !.complete = TRUE, !.error = TRUE]
           [] e.event = "end"   -> [r EXCEPT !.complete = TRUE]

Process(r, e) ==
    IF r.complete \/ r.error THEN r
    ELSE CASE e.event = "delta" -> IF r.content = MaxContent THEN [r EXCEPT !.error = TRUE] ELSE [r EXCEPT !.content = @ + 1]
           [] e.event = "tool"  -> IF e.id \notin Ids(r.calls) /\ Len(r.calls) >= MaxToolCallIds
                                   THEN [r EXCEPT !.error = TRUE] ELSE [r EXCEPT !.calls = AddPiece(@, e.id, e.piece)]
           [] e.event = "error" -> [r EXCEPT !.complete = TRUE, !.error = TRUE]
           [] e.event = "end"   -> [r EXCEPT !.complete = TRUE]

-----------------------------------------------------------------------------
(* ToolCallAggregator: addChunk.                                           *)

Depth(args) == FoldLeft(LAMBDA d, p : IF p = "{" THEN d + 1 ELSE IF d > 0 THEN d - 1 ELSE 99, 0, args)
IsJson(args) == args # << >> /\ Depth(args) = 0 /\ \A n \in 1..Len(args) - 1 : Depth(SubSeq(args, 1, n)) # 0

\* The call is complete as soon as its arguments parse: what comes for its id after
\* that begins a new call, which counts as one against the limit.
AddChunk(t, e) ==
    LET pending == AddPiece(t.pending, e.id, e.piece)
        call == CHOOSE c \in {pending[i] : i \in DOMAIN pending} : c.id = e.id
    IN  IF t.threw \/ (e.id \notin Ids(t.pending) /\ Len(t.pending) + Len(t.completed) >= MaxToolCallIds)
        THEN [t EXCEPT !.threw = TRUE]
        ELSE IF IsJson(call.args)
        THEN [t EXCEPT !.pending = SelectSeq(pending, LAMBDA c : c.id # e.id), !.completed = Append(@, call)]
        ELSE [t EXCEPT !.pending = pending]

-----------------------------------------------------------------------------

\* parse: a fragment arrives; a buffer that grows too long is dropped with the whole
\* lines in it.  Whoever reads the stream hands each event on.
Parse(fragment) ==
    LET text == saBuffer \o fragment
        lines == IF Len(text) > MaxBuffer THEN [done |-> << >>, rest |-> << >>] ELSE Lines(text)
        events == AllEvents(lines.done)
    IN  /\ Len(saText) + Len(fragment) <= MaxText /\ saText' = saText \o fragment
        /\ saOverflowed' = (saOverflowed \/ Len(text) > MaxBuffer)
        /\ saBuffer' = lines.rest /\ saEvents' = saEvents \o events
        /\ saAnswer' = FoldLeft(Process, saAnswer, events)
        /\ saTools' = FoldLeft(LAMBDA t, e : IF e.event = "tool" THEN AddChunk(t, e) ELSE t, saTools, events)

\* The lines a server sends, "data" and one payload each, cut into fragments.
After(s) == CASE s.text = "nl"   -> {t \in Symbols : t.text = "data"}
              [] s.text = "data" -> {t \in Symbols : t.text \in {"event", "bad"}}
              [] OTHER           -> {Nl}

SaNext ==
    \E s \in After(IF saText = << >> THEN Nl ELSE Last(saText)) :
        \/ Parse(<<s>>)
        \/ \E t \in After(s) : Parse(<<s, t>>) \/ \E u \in After(t) : Parse(<<s, t, u>>)

-----------------------------------------------------------------------------
\* Type correctness; the buffer keeps to its limit and holds no whole line.
SaTypeOK ==
    /\ saBuffer \in Seq(Symbols \ {Nl}) /\ Len(saBuffer) <= MaxBuffer
    /\ saEvents \in Seq(Events)
    /\ saAnswer.content \in 0..MaxContent /\ Len(saAnswer.calls) <= MaxToolCallIds
    /\ Len(saTools.pending) + Len(saTools.completed) <= MaxToolCallIds

\* Wherever the text is cut, its events are those of its lines, in order, as long as
\* the buffer is large enough.
FragmentsDoNotMatter ==
    ~saOverflowed => /\ saEvents = AllEvents(Lines(saText).done)
                     /\ saBuffer = Lines(saText).rest

\* An answer that ended, failed or grew too long stays as it is, whatever still comes.
AnswerIsFinal == [][saAnswer.complete \/ saAnswer.error => saAnswer' = saAnswer]_saVars

PiecesOf(id) == LET own == SelectSeq(saEvents, LAMBDA e : e.event = "tool" /\ e.id = id)
                IN  [i \in DOMAIN own |-> own[i].piece]
ArgsOf(calls, id) == FoldLeft(LAMBDA acc, c : acc \o c.args, << >>, SelectSeq(calls, LAMBDA c : c.id = id))

\* Both aggregators keep every piece of the arguments of a call, in order, until they
\* stop collecting; ToolCallAggregator may spread them over several calls, of which
\* those it calls complete parse.
PiecesAreKept ==
    /\ \A id \in ToolCallIds :
          /\ ~saTools.threw => ArgsOf(saTools.completed, id) \o ArgsOf(saTools.pending, id) = PiecesOf(id)
          /\ ~saAnswer.complete /\ ~saAnswer.error => ArgsOf(saAnswer.calls, id) = PiecesOf(id)
    /\ \A i \in DOMAIN saTools.completed : IsJson(saTools.completed[i].args)

-----------------------------------------------------------------------------
(***************************************************************************)
(* The delegate tool of the assistant: the tool calls of one answer, run   *)
(* one after the other either by Agent.executeToolCall or by               *)
(* ToolCallExecutor (agent/tool-calling.ts), the delegation of each to a   *)
(* worker (tools/worker-delegation.ts), which asks the orchestrator for a  *)
(* task and polls it, and the task itself, which is external: it goes on   *)
(* whether or not somebody still waits.                                    *)
(*                                                                         *)
(* A poll that finds the task running, or fails, changes nothing.          *)
(***************************************************************************)
CONSTANTS
    MaxToolCalls    \* tool calls of the answer (bound)

\* Tools are run for an answer that calls some.
ASSUME DgAssumption == MaxToolCalls \in Nat \ {0}

VARIABLES
    dgVia,          \* who runs the calls: "agent", "executor", or "persistent" (continueOnError)
    dgWorkerId,     \* workerAgentId is configured; Agent.executeDelegation does not set it
    dgOver,         \* no further call is run
    dgRun,          \* each call: "none", "asking", "polling", "returned"
    dgTask,         \* its task: "none", "active", or a final state
    dgResults       \* the results so far, in the order they came: [call, success, state]

dgVars == <<dgVia, dgWorkerId, dgOver, dgRun, dgTask, dgResults>>

ToolCalls == 1..MaxToolCalls
Finals == {"completed", "failed", "cancelled", "timeout"}

\* What is asked for: arguments that do not parse, a tool other than delegate, an
\* agent that is not implemented, an operation of another agent, and one a worker does.
Asked == {"garbled", "unknown", "researcher", "mismatched", "worker"}

DgInit ==
    /\ dgVia \in {"agent", "executor", "persistent"}
    /\ dgWorkerId \in BOOLEAN /\ (dgVia = "agent" => ~dgWorkerId)
    /\ dgOver = FALSE
    /\ dgRun = [c \in ToolCalls |-> "none"] /\ dgTask = [c \in ToolCalls |-> "none"]
    /\ dgResults = << >>

\* The call being waited for, if one is.
Awaited == Len(dgResults) + 1
Waiting == Awaited \in ToolCalls /\ dgRun[Awaited] # "none"

-----------------------------------------------------------------------------

\* The result of a call; the executor stops at a failure unless it is persistent.
Result(c, success, state) ==
    /\ dgResults' = Append(dgResults, [call |-> c, success |-> success, state |-> state])
    /\ dgOver' = (c = MaxToolCalls \/ (~success /\ dgVia = "executor"))

\* The executor reports arguments it cannot parse; the agent parses them again
\* while it reports, and the whole answer fails.
StartGarbled ==
    /\ IF dgVia = "agent" THEN dgOver' = TRUE /\ UNCHANGED dgResults
       ELSE Result(Awaited, FALSE, "failed")
    /\ UNCHANGED dgRun

\* Only the executor compares the operation with the agent it is meant for.
Delegates(kind) == kind = "worker" \/ (kind = "mismatched" /\ dgVia = "agent")

StartCall(kind) ==
    /\ ~dgOver /\ ~Waiting
    /\ IF kind = "garbled" THEN StartGarbled
       ELSE IF Delegates(kind)
       THEN dgRun' = [dgRun EXCEPT ![Awaited] = "asking"] /\ UNCHANGED <<dgResults, dgOver>>
       ELSE Result(Awaited, FALSE, "failed") /\ UNCHANGED dgRun
    /\ UNCHANGED <<dgVia, dgWorkerId, dgTask>>

\* The delegation of call c returns; nobody looks at what a call brings that the
\* executor has given up.
Return(c, success, state) ==
    /\ dgRun' = [dgRun EXCEPT ![c] = "returned"]
    /\ IF c = Awaited THEN Result(c, success, state) ELSE UNCHANGED <<dgResults, dgOver>>
    /\ UNCHANGED <<dgVia, dgWorkerId>>

\* ExecuteTask makes the task and answers with its id.
AskAnswered(c) ==
    /\ dgRun[c] = "asking" /\ dgWorkerId
    /\ dgRun' = [dgRun EXCEPT ![c] = "polling"] /\ dgTask' = [dgTask EXCEPT ![c] = "active"]
    /\ UNCHANGED <<dgVia, dgWorkerId, dgOver, dgResults>>

\* The orchestrator refuses (agent_id is required) or is not reached, or its answer
\* is lost when the task is made.
AskFails(c, made) ==
    /\ dgRun[c] = "asking" /\ (made => dgWorkerId)
    /\ dgTask' = [dgTask EXCEPT ![c] = IF made THEN "active" ELSE @]
    /\ Return(c, FALSE, "failed")

TaskEnds(c, s) ==
    /\ dgTask[c] = "active" /\ dgTask' = [dgTask EXCEPT ![c] = s]
    /\ UNCHANGED <<dgVia, dgWorkerId, dgOver, dgRun, dgResults>>

PollEnds(c) ==
    /\ dgRun[c] = "polling" /\ dgTask[c] \in Finals
    /\ Return(c, dgTask[c] = "completed", dgTask[c]) /\ UNCHANGED dgTask

\* waitForCompletion gives up; nothing tells the orchestrator.
PollTimesOut(c) ==
    /\ dgRun[c] = "polling"
    /\ Return(c, FALSE, "timeout") /\ UNCHANGED dgTask

\* ToolCallExecutor's own timer, which the agent has not.
ExecutorTimesOut ==
    /\ Waiting /\ dgVia # "agent" /\ dgRun[Awaited] \in {"asking", "polling"}
    /\ Result(Awaited, FALSE, "failed")
    /\ UNCHANGED <<dgVia, dgWorkerId, dgRun, dgTask>>

DgNext ==
    \/ \E kind \in Asked : StartCall(kind)
    \/ ExecutorTimesOut
    \/ \E c \in ToolCalls :
          \/ AskAnswered(c) \/ PollEnds(c) \/ PollTimesOut(c)
          \/ \E made \in BOOLEAN : AskFails(c, made)
          \/ \E s \in Finals : TaskEnds(c, s)

DgSpec == DgInit /\ [][DgNext]_dgVars

-----------------------------------------------------------------------------
\* Type correctness; results come in the order of the calls, one each.
DgTypeOK ==
    /\ dgOver \in BOOLEAN
    /\ dgRun \in [ToolCalls -> {"none", "asking", "polling", "returned"}]
    /\ dgTask \in [ToolCalls -> {"none", "active"} \cup Finals]
    /\ Len(dgResults) <= MaxToolCalls
    /\ \A i \in DOMAIN dgResults :
          /\ dgResults[i].call = i
          /\ dgResults[i].success => dgResults[i].state = "completed"
          /\ dgVia = "executor" /\ i < Len(dgResults) => dgResults[i].success

\* A tool call succeeds only when its own task has completed, whatever late answers
\* the delegations the executor gave up still bring.
SuccessIsCompleted ==
    \A i \in DOMAIN dgResults : dgResults[i].success => dgTask[i] = "completed"

\* A task that nobody waits for any more was reported as a failure, and only who
\* carries on after failures can have two tasks running at once: the task of an
\* abandoned call beside that of a later one.
AbandonedWasReported ==
    \A c \in DOMAIN dgResults : dgTask[c] = "active" =>
        /\ ~dgResults[c].success
        /\ (\E d \in ToolCalls : d > c /\ dgTask[d] # "none") => dgVia = "persistent"

\* Each call of an answer gets one result, in its place, and a delegated one succeeds
\* only when its own task did, whatever was given up before and still goes on
\* (tool-calling.ts, worker-delegation.ts).
DelegationsSafe == DgTypeOK /\ SuccessIsCompleted /\ AbandonedWasReported

\* The context that is sent fits, is stable and in order; the pieces of an answer
\* survive any cut and a finished answer stays; its calls are delegated safely
\* (context-window.ts, stream-parser.ts, response-stream.ts, tool-calling.ts).
AnswerPartsSafe ==
    /\ [](/\ CwTypeOK
          /\ FitsOrOnlySystem
          /\ FitIsStable
          /\ AdmittedKeepsAll
          /\ KeptInOrder
          /\ SaTypeOK
          /\ FragmentsDoNotMatter
          /\ PiecesAreKept
          /\ DelegationsSafe)
    /\ AnswerIsFinal
=============================================================================
