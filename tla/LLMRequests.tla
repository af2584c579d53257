----------------------------- MODULE LLMRequests -----------------------------
(***************************************************************************)
(* Requests to language models on their way through LLMService             *)
(* (pkg/grpc/llm_service.go) and the gateway process                       *)
(* (llm-gateway/src/server.ts and its providers).                          *)
(*                                                                         *)
(* A StreamLLM handler takes one request at a time and relays the events   *)
(* the gateway sends for it; CompleteLLM relays one answer.  The registry  *)
(* of the service keeps the identifiers of requests.  The gateway runs its *)
(* handlers on one thread: the end of an upstream call, with the last      *)
(* events and the statistics, is one step.  A handler whose caller gave up *)
(* goes on until its provider is done.  Every request costs one token.     *)
(***************************************************************************)
EXTENDS Naturals, Sequences, FiniteSets

CONSTANTS
    LlmStreams,     \* StreamLLM handlers
    LlmCalls,       \* CompleteLLM calls
    RequestIds,     \* identifiers of requests
    MaxConcurrent,  \* GatewayConfig.maxConcurrentRequests
    MaxUpstream     \* requests the gateway takes (bound)

ASSUME LqAssumption == MaxConcurrent \in Nat /\ MaxUpstream \in Nat

VARIABLES
    lqRegistry,     \* LLMRegistry.requests
    lqCall,         \* handlers and calls: pc and the request they are for
    lqTracked,      \* LLMService.streams
    lqLink,         \* the answer of the gateway: "none", "waiting" or "events"
    lqWire,         \* events of the gateway not yet relayed
    lqTotal,        \* LLMService.totalRequests, and totalTokensUsed
    lqActive,       \* Gateway.activeRequests
    lqOrphans,      \* handlers of the gateway whose caller gave up
    lqTaken,        \* requests the gateway took
    lqServed,       \* streams and completions among Gateway.totalRequests
    lqFailed        \* history: identifiers a stream failed with

lqGateVars == <<lqActive, lqOrphans, lqTaken, lqServed>>
lqVars == <<lqRegistry, lqCall, lqTracked, lqLink, lqWire, lqTotal, lqGateVars, lqFailed>>

LlmUsers == LlmStreams \cup LlmCalls

\* What the gateway writes when its provider is done with a stream, and when the
\* provider fails.  (handleStreamingRequest takes "[DONE]" and the plain end alike.)
FinalEvents == <<"usage", "chunk", "complete", "end">>
ErrorEvents == <<"error", "end">>

LqInit ==
    /\ lqRegistry = {} /\ lqTracked = {} /\ lqFailed = {}
    /\ lqCall = [x \in LlmUsers |-> [pc |-> "new", id |-> 0]]
    /\ lqLink = [x \in LlmUsers |-> "none"]
    /\ lqWire = [x \in LlmUsers |-> << >>]
    /\ lqTotal = 0
    /\ lqActive = 0 /\ lqOrphans = 0 /\ lqTaken = 0
    /\ lqServed = [streams |-> 0, completions |-> 0]

LlmGoes(x, from, to) ==
    /\ lqCall[x].pc = from
    /\ lqCall' = [lqCall EXCEPT ![x].pc = to]

-----------------------------------------------------------------------------
(* StreamLLM.                                                              *)

OpenLlmStream(x) ==
    /\ x \in LlmStreams /\ LlmGoes(x, "new", "first")
    /\ lqTracked' = lqTracked \cup {x}
    /\ UNCHANGED <<lqRegistry, lqLink, lqWire, lqTotal, lqGateVars, lqFailed>>

\* The first request is registered; an identifier in use ends the stream.
FirstRequest(x, i) ==
    /\ x \in LlmStreams /\ lqCall[x].pc = "first"
    /\ IF i \in lqRegistry
       THEN /\ lqCall' = [lqCall EXCEPT ![x] = [pc |-> "done", id |-> i]]
            /\ lqTracked' = lqTracked \ {x}
            /\ UNCHANGED lqRegistry
       ELSE /\ lqCall' = [lqCall EXCEPT ![x] = [pc |-> "send", id |-> i]]
            /\ lqRegistry' = lqRegistry \cup {i}
            /\ UNCHANGED lqTracked
    /\ UNCHANGED <<lqLink, lqWire, lqTotal, lqGateVars, lqFailed>>

\* A later one is not; one with another identifier is dropped without an answer.
NextRequest(x) ==
    /\ x \in LlmStreams /\ LlmGoes(x, "ready", "send")
    /\ UNCHANGED <<lqRegistry, lqTracked, lqLink, lqWire, lqTotal, lqGateVars, lqFailed>>

\* The handler of the gateway, if there is one, loses its caller.
Abandon(x) ==
    /\ lqOrphans' = IF lqLink[x] = "waiting" THEN lqOrphans + 1 ELSE lqOrphans
    /\ lqLink' = [lqLink EXCEPT ![x] = "none"]
    /\ lqWire' = [lqWire EXCEPT ![x] = << >>]
    /\ UNCHANGED <<lqActive, lqTaken, lqServed>>

\* The gateway cannot be reached or refuses, or its answer breaks off or times
\* out: the client gets an error, and the request stays registered.
RequestFails(x) ==
    /\ x \in LlmStreams /\ lqCall[x].pc \in {"send", "relay"}
    /\ lqCall' = [lqCall EXCEPT ![x].pc = "ready"]
    /\ lqFailed' = lqFailed \cup {lqCall[x].id}
    /\ Abandon(x)
    /\ UNCHANGED <<lqRegistry, lqTracked, lqTotal>>

\* The client leaves, or Close cancels the context of a request under way: the
\* request under way fails, and so does the answer.
LlmClientLeaves(x) ==
    /\ x \in LlmStreams /\ lqCall[x].pc \in {"first", "ready", "send", "relay"}
    /\ lqCall' = [lqCall EXCEPT ![x].pc = "done"]
    /\ lqFailed' = IF lqCall[x].pc \in {"send", "relay"} THEN lqFailed \cup {lqCall[x].id} ELSE lqFailed
    /\ lqTracked' = lqTracked \ {x}
    /\ Abandon(x)
    /\ UNCHANGED <<lqRegistry, lqTotal>>

\* The event is sent; a completion that carries its usage then adds to the
\* statistics, while the usage on its own adds nothing (:1152, :1171).
RelayEvent(x) ==
    /\ x \in LlmStreams /\ lqCall[x].pc = "relay"
    /\ lqWire[x] # << >> /\ Head(lqWire[x]) # "end"
    /\ lqWire' = [lqWire EXCEPT ![x] = Tail(@)]
    /\ \/ UNCHANGED lqTotal
       \/ Head(lqWire[x]) = "complete" /\ lqTotal' = lqTotal + 1
    /\ UNCHANGED <<lqRegistry, lqCall, lqTracked, lqLink, lqGateVars, lqFailed>>

\* At the end of the events, whatever they were, the request is removed.
RelayDone(x) ==
    /\ x \in LlmStreams /\ LlmGoes(x, "relay", "ready") /\ lqWire[x] = <<"end">>
    /\ lqRegistry' = lqRegistry \ {lqCall[x].id}
    /\ lqLink' = [lqLink EXCEPT ![x] = "none"]
    /\ lqWire' = [lqWire EXCEPT ![x] = << >>]
    /\ UNCHANGED <<lqTracked, lqTotal, lqGateVars, lqFailed>>

CloseLlmService ==
    /\ lqTracked # {} /\ lqTracked' = {}
    /\ UNCHANGED <<lqRegistry, lqCall, lqLink, lqWire, lqTotal, lqGateVars, lqFailed>>

-----------------------------------------------------------------------------
(* CompleteLLM.                                                            *)

BeginComplete(c, i) ==
    /\ c \in LlmCalls /\ lqCall[c].pc = "new"
    /\ lqCall' = [lqCall EXCEPT ![c] = [pc |-> IF i \in lqRegistry THEN "done" ELSE "send", id |-> i]]
    /\ lqRegistry' = lqRegistry \cup {i}
    /\ UNCHANGED <<lqTracked, lqLink, lqWire, lqTotal, lqGateVars, lqFailed>>

\* Mutant of CompleteFails: returns without removing the request.
CompleteFailsKept(c) ==
    /\ c \in LlmCalls /\ lqCall[c].pc \in {"send", "relay"}
    /\ lqCall' = [lqCall EXCEPT ![c].pc = "done"]
    /\ Abandon(c)
    /\ UNCHANGED <<lqRegistry, lqTracked, lqTotal, lqFailed>>

\* Every error path removes the request; a failure of the provider is an error.
CompleteFails(c) ==
    /\ c \in LlmCalls /\ lqCall[c].pc \in {"send", "relay"}
    /\ lqCall' = [lqCall EXCEPT ![c].pc = "done"]
    /\ lqRegistry' = lqRegistry \ {lqCall[c].id}
    /\ Abandon(c)
    /\ UNCHANGED <<lqTracked, lqTotal, lqFailed>>

CompleteAnswered(c) ==
    /\ c \in LlmCalls /\ LlmGoes(c, "relay", "count") /\ lqWire[c] = <<"complete">>
    /\ lqRegistry' = lqRegistry \ {lqCall[c].id}
    /\ lqLink' = [lqLink EXCEPT ![c] = "none"]
    /\ lqWire' = [lqWire EXCEPT ![c] = << >>]
    /\ UNCHANGED <<lqTracked, lqTotal, lqGateVars, lqFailed>>

CountComplete(c) ==
    /\ LlmGoes(c, "count", "done")
    /\ lqTotal' = lqTotal + 1
    /\ UNCHANGED <<lqRegistry, lqTracked, lqLink, lqWire, lqGateVars, lqFailed>>

-----------------------------------------------------------------------------
(* The gateway.                                                            *)

\* handleStream and handleComplete: a provider is available, and the limit not
\* reached; otherwise the answer is an error.
Admit(x) ==
    /\ LlmGoes(x, "send", "relay")
    /\ lqActive < MaxConcurrent /\ lqTaken < MaxUpstream
    /\ lqActive' = lqActive + 1 /\ lqTaken' = lqTaken + 1
    /\ lqLink' = [lqLink EXCEPT ![x] = "waiting"]
    /\ UNCHANGED <<lqRegistry, lqTracked, lqWire, lqTotal, lqOrphans, lqServed, lqFailed>>

\* A chunk or a part of a tool call.
UpstreamChunk(x) ==
    /\ x \in LlmStreams /\ lqLink[x] = "waiting" /\ lqWire[x] = << >>
    /\ lqWire' = [lqWire EXCEPT ![x] = <<"chunk">>]
    /\ UNCHANGED <<lqRegistry, lqCall, lqTracked, lqLink, lqTotal, lqGateVars, lqFailed>>

UpstreamDone(x) ==
    /\ lqLink[x] = "waiting"
    /\ lqLink' = [lqLink EXCEPT ![x] = "events"]
    /\ lqWire' = [lqWire EXCEPT ![x] = IF x \in LlmStreams THEN @ \o FinalEvents ELSE <<"complete">>]
    /\ lqServed' = IF x \in LlmStreams THEN [lqServed EXCEPT !.streams = @ + 1]
                   ELSE [lqServed EXCEPT !.completions = @ + 1]
    /\ lqActive' = lqActive - 1
    /\ UNCHANGED <<lqRegistry, lqCall, lqTracked, lqTotal, lqOrphans, lqTaken, lqFailed>>

UpstreamFails(x) ==
    /\ lqLink[x] = "waiting"
    /\ lqLink' = [lqLink EXCEPT ![x] = "events"]
    /\ lqWire' = [lqWire EXCEPT ![x] = @ \o ErrorEvents]
    /\ lqActive' = lqActive - 1
    /\ UNCHANGED <<lqRegistry, lqCall, lqTracked, lqTotal, lqOrphans, lqTaken, lqServed, lqFailed>>

\* The provider of a handler without caller is done, or has failed.
OrphanEnds(kind) ==
    /\ lqOrphans > 0 /\ lqOrphans' = lqOrphans - 1
    /\ lqActive' = lqActive - 1
    /\ lqServed' = IF kind = "failed" THEN lqServed ELSE [lqServed EXCEPT ![kind] = @ + 1]
    /\ UNCHANGED <<lqRegistry, lqCall, lqTracked, lqLink, lqWire, lqTotal, lqTaken, lqFailed>>

LqNext ==
    \/ \E x \in LlmUsers :
         \/ OpenLlmStream(x) \/ NextRequest(x) \/ RequestFails(x) \/ LlmClientLeaves(x)
         \/ RelayEvent(x) \/ RelayDone(x)
         \/ CompleteFails(x) \/ CompleteAnswered(x) \/ CountComplete(x)
         \/ Admit(x) \/ UpstreamChunk(x) \/ UpstreamDone(x) \/ UpstreamFails(x)
    \/ \E x \in LlmUsers, i \in RequestIds : FirstRequest(x, i) \/ BeginComplete(x, i)
    \/ \E kind \in {"streams", "completions", "failed"} : OrphanEnds(kind)
    \/ CloseLlmService

LqSpec == LqInit /\ [][LqNext]_lqVars

-----------------------------------------------------------------------------
(* Properties                                                              *)

\* The gateway is busy with the requests it took and has not ended, within its
\* limit: abandoned ones hold their place (server.ts:370).
LqTypeOK ==
    /\ lqRegistry \subseteq RequestIds /\ lqFailed \subseteq RequestIds
    /\ lqCall \in [LlmUsers -> [pc : {"new", "first", "ready", "send", "relay", "count", "done"},
                                id : {0} \cup RequestIds]]
    /\ lqTracked \subseteq LlmStreams
    /\ lqLink \in [LlmUsers -> {"none", "waiting", "events"}]
    /\ lqWire \in [LlmUsers -> Seq({"chunk", "usage", "complete", "error", "end"})]
    /\ lqTotal \in Nat /\ lqOrphans \in Nat /\ lqTaken \in 0..MaxUpstream
    /\ lqServed \in [streams : Nat, completions : Nat]
    /\ lqActive \in 0..MaxConcurrent
    /\ lqActive = lqOrphans + Cardinality({x \in LlmUsers : lqLink[x] = "waiting"})

\* The registry tracks active requests (llm_service.go:51), whoever completes, fails
\* and reuses an identifier: one no stream failed with is in it only while a call is
\* under way for it.  (Nothing is claimed of the others: a stream that fails leaves
\* its identifier behind, llm_service.go:394.)
RegisteredIsActive ==
    lqRegistry \ lqFailed \subseteq {lqCall[x].id : x \in {y \in LlmUsers : lqCall[y].pc \in {"send", "relay"}}}

\* The total of the service against those of the gateway: a request counts once at
\* most, and only if the gateway has completed it (llm_service.go:507, :687).
TotalsBounded == lqTotal <= lqServed.streams + lqServed.completions

\* Requests to the gateway are limited, not forgotten in the registry by a call that
\* ends, and counted once at most, though they are canceled, abandoned and retried
\* (llm_service.go, server.ts:370).
RequestsAccounted ==
    /\ LqTypeOK
    /\ RegisteredIsActive
    /\ TotalsBounded
=============================================================================
