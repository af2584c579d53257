------------------------------ MODULE LlmGateway ------------------------------
(***************************************************************************)
(* The LLM gateway, the HTTP service between the orchestrator and the      *)
(* providers of language models (llm-gateway/src/server.ts and its         *)
(* providers).  One thread: an action runs from one await to the next.     *)
(***************************************************************************)
EXTENDS Naturals, Sequences, FiniteSets

CONSTANTS
    GwRequests,         \* HTTP requests for completions
    GwProviders,        \* in the order they were configured
    GwDefault,          \* config.defaultProvider
    GwConcurrent,       \* config.maxConcurrentRequests
    MaxPieces           \* texts, calls and their arguments a model writes (bound)

VARIABLES
    lgAvailable,    \* providers with credentials
    lgReq,          \* the requests
    lgActive,       \* Gateway.activeRequests
    lgStats,        \* Gateway.stats, totalRequests as "all"
    lgPieces,       \* pieces written so far
    lgServer        \* "up", "closing" after a signal, or "gone"

lgVars == <<lgAvailable, lgReq, lgActive, lgStats, lgPieces, lgServer>>

Configured == {GwProviders[i] : i \in 1..Len(GwProviders)}
NoHint == "none"

\* No provider has one of the names that stand for none and for all of them.
ASSUME GwAssumption ==
    /\ GwProviders \in Seq(Configured) /\ {NoHint, "all"} \cap Configured = {}
    /\ IsFiniteSet(GwRequests) /\ GwConcurrent \in Nat /\ MaxPieces \in Nat

\* What a request asks for: a provider, the one in the name of its model, and one to fall back to.
Hints == [explicit : Configured \cup {NoHint}, model : Configured \cup {NoHint}, fallback : Configured \cup {NoHint}]
NoRequest == [pc |-> "new", stream |-> FALSE, via |-> NoHint,
              out |-> << >>, listens |-> FALSE, made |-> << >>, open |-> FALSE, got |-> << >>]

LgInit ==
    /\ lgAvailable \in SUBSET Configured
    /\ lgReq = [r \in GwRequests |-> NoRequest]
    /\ lgActive = 0
    /\ lgStats = [p \in Configured \cup {"all"} |-> [done |-> 0, errors |-> 0]]
    /\ lgPieces = 0
    /\ lgServer = "up"

-----------------------------------------------------------------------------
(* resolveProvider.                                                        *)

FirstAvailable(ps) ==
    LET ok == {i \in 1..Len(ps) : ps[i] \in lgAvailable}
    IN  IF ok = {} THEN NoHint ELSE ps[CHOOSE i \in ok : \A j \in ok : i <= j]

\* Mutant of Resolve: the default comes before the provider of the model.
ResolveDefault(h) == FirstAvailable(<<h.explicit, GwDefault, h.model, h.fallback>> \o GwProviders)

Resolve(h) == FirstAvailable(<<h.explicit, h.model, h.fallback, GwDefault>> \o GwProviders)

-----------------------------------------------------------------------------
(* Requests.                                                               *)

Connect(r, stream) ==
    /\ lgServer = "up" /\ lgReq[r].pc = "new"
    /\ lgReq' = [lgReq EXCEPT ![r].pc = "reading", ![r].stream = stream, ![r].listens = TRUE]
    /\ UNCHANGED <<lgPieces, lgAvailable, lgActive, lgStats, lgServer>>

\* The client is gone; nothing in the gateway looks for that.
Leave(r) ==
    /\ lgServer # "gone" /\ lgReq[r].listens
    /\ lgReq' = [lgReq EXCEPT ![r].listens = FALSE]
    /\ UNCHANGED <<lgPieces, lgAvailable, lgActive, lgStats, lgServer>>

Over(r, status) == [lgReq EXCEPT ![r].pc = "over", ![r].out = Append(@, status)]

\* The body is there; handleComplete or handleStream up to the call of the provider.
Dispatch(r, valid, hints) ==
    /\ lgServer # "gone" /\ lgReq[r].pc = "reading" /\ lgReq[r].listens
    /\ LET p == Resolve(hints)
       IN  IF ~valid \/ p = NoHint \/ lgActive >= GwConcurrent
           THEN lgReq' = Over(r, "refused") /\ UNCHANGED lgActive
           ELSE /\ lgReq' = [lgReq EXCEPT ![r].pc = "sent", ![r].via = p]
                /\ lgActive' = lgActive + 1
    /\ UNCHANGED <<lgPieces, lgAvailable, lgStats, lgServer>>

-----------------------------------------------------------------------------
(* A stream of the provider: text, and calls of tools.                     *)

Streams(r) ==
    /\ lgServer # "gone" /\ lgReq[r].pc = "sent" /\ lgReq[r].stream
    /\ lgPieces < MaxPieces /\ lgPieces' = lgPieces + 1
    /\ UNCHANGED <<lgAvailable, lgActive, lgStats, lgServer>>

Text(r) ==
    /\ Streams(r) /\ ~lgReq[r].open
    /\ lgReq' = [lgReq EXCEPT ![r].out = Append(@, "chunk")]

\* Anthropic's SDK tells of a block when it is complete, its arguments before.
BlockIsKept(r) == lgReq[r].via # "anthropic"

StartCall(r) ==
    /\ Streams(r) /\ ~lgReq[r].open
    /\ lgReq' = [lgReq EXCEPT ![r].made = Append(@, 0), ![r].open = TRUE,
                              ![r].got = IF BlockIsKept(r) THEN Append(@, << >>) ELSE @]

\* The last call known of gets them, if there is one.
Arguments(r) ==
    LET q == lgReq[r]  n == Len(q.made)  k == Len(q.got)
    IN  /\ Streams(r) /\ q.open
        /\ lgReq' = [lgReq EXCEPT ![r].made = [q.made EXCEPT ![n] = @ + 1],
                                  ![r].got = IF k = 0 THEN @ ELSE [q.got EXCEPT ![k] = Append(@, n)],
                                  ![r].out = IF k = 0 THEN @ ELSE Append(@, "call")]

EndCall(r) ==
    /\ lgServer # "gone" /\ lgReq[r].pc = "sent" /\ lgReq[r].open
    /\ lgReq' = [lgReq EXCEPT ![r].open = FALSE, ![r].got = IF BlockIsKept(r) THEN @ ELSE Append(@, << >>)]
    /\ UNCHANGED <<lgPieces, lgAvailable, lgActive, lgStats, lgServer>>

Counted(p, what) ==
    IF what = "done" THEN [lgStats EXCEPT ![p].done = @ + 1, !["all"].done = @ + 1]
    ELSE [lgStats EXCEPT ![p].errors = @ + 1]

\* Usage, last chunk and answer, and the end of the stream; or the one answer.
Completes(r) ==
    /\ lgServer # "gone" /\ lgReq[r].pc = "sent" /\ ~lgReq[r].open
    /\ lgReq' = Over(r, "complete")
    /\ lgStats' = Counted(lgReq[r].via, "done")
    /\ lgActive' = lgActive - 1
    /\ UNCHANGED <<lgPieces, lgAvailable, lgServer>>

Breaks(r) ==
    /\ lgServer # "gone" /\ lgReq[r].pc = "sent"
    /\ lgReq' = Over(r, "error")
    /\ lgStats' = Counted(lgReq[r].via, "errors")
    /\ lgActive' = lgActive - 1
    /\ UNCHANGED <<lgPieces, lgAvailable, lgServer>>

-----------------------------------------------------------------------------
(* The end of the process.                                                 *)

GatewaySignal ==
    /\ lgServer = "up" /\ lgServer' = "closing"
    /\ UNCHANGED <<lgPieces, lgAvailable, lgReq, lgActive, lgStats>>

\* server.close waits for the connections.
GatewayExit ==
    /\ lgServer = "closing"
    /\ \A r \in GwRequests : lgReq[r].listens => lgReq[r].pc = "over"
    /\ lgServer' = "gone"
    /\ UNCHANGED <<lgPieces, lgAvailable, lgReq, lgActive, lgStats>>

LgNext ==
    \/ \E r \in GwRequests :
         \/ \E stream \in BOOLEAN : Connect(r, stream)
         \/ \E valid \in BOOLEAN, h \in Hints : Dispatch(r, valid, h)
         \/ Leave(r) \/ Text(r) \/ StartCall(r) \/ Arguments(r) \/ EndCall(r) \/ Completes(r) \/ Breaks(r)
    \/ GatewaySignal \/ GatewayExit

LgSpec == LgInit /\ [][LgNext]_lgVars

-----------------------------------------------------------------------------
(* Properties                                                              *)

\* The slots in use are those of the requests under way, whose number is limited,
\* and every request under way is counted once when it ends (server.ts:386).
LgTypeOK ==
    /\ lgServer \in {"up", "closing", "gone"} /\ lgAvailable \subseteq Configured
    /\ \A r \in GwRequests : lgReq[r].pc \in {"new", "reading", "sent", "over"}
    /\ lgActive = Cardinality({r \in GwRequests : lgReq[r].pc = "sent"})
    /\ lgActive <= GwConcurrent
    /\ lgStats["all"].done = Cardinality({r \in GwRequests :
            lgReq[r].pc = "over" /\ lgReq[r].out[Len(lgReq[r].out)] = "complete"})

\* A request goes to an available provider, and away from the one it asks for, or
\* its model is named after, only when that one is not available (server.ts:96).
SentWhereAsked ==
    \A h \in Hints :
        LET p == Resolve(h)
        IN  /\ p = NoHint <=> lgAvailable = {}
            /\ p # NoHint => p \in lgAvailable
            /\ h.explicit \in lgAvailable => p = h.explicit
            /\ h.model \in lgAvailable /\ h.explicit \notin lgAvailable => p = h.model

\* What a tool is called with, however calls and texts follow each other: an OpenAI
\* stream that completes hands every call the arguments the model wrote for it, all of
\* them and in order (openai.ts:198).  No such claim is made of an Anthropic stream,
\* whose arguments come before their block is known (anthropic.ts:98, :130).
ArgumentsArrive ==
    \A r \in GwRequests :
        LET q == lgReq[r]
        IN  q.pc = "over" /\ q.out[Len(q.out)] = "complete" /\ BlockIsKept(r) =>
                q.got = [i \in 1..Len(q.made) |-> [k \in 1..q.made[i] |-> i]]

\* A stream ends with one last event, and nothing follows it; when the process is
\* gone, everybody who still listens has it.
StreamsEnd ==
    \A r \in GwRequests :
        LET q == lgReq[r]  last == {i \in 1..Len(q.out) : q.out[i] \in {"complete", "error", "refused"}}
        IN  /\ last \subseteq {Len(q.out)}
            /\ q.pc = "over" <=> last # {}
            /\ lgServer = "gone" /\ q.listens => q.pc = "over"

\* The gateway keeps its slots, sends a request where it was asked to, hands on the
\* arguments of the tool calls of an OpenAI stream, and ends every stream once (server.ts).
GatewayRelays ==
    /\ LgTypeOK
    /\ SentWhereAsked
    /\ ArgumentsArrive
    /\ StreamsEnd
=============================================================================
