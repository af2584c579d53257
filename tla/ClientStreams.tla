--------------------------- MODULE ClientStreams ----------------------------
(***************************************************************************)
(* What clients see: the streams of a session in the orchestrator service, *)
(* those of a session of the gateway service, and the fields of the        *)
(* objects they send and ask for.  The three share no state.               *)
(***************************************************************************)
EXTENDS Naturals, FiniteSets

-----------------------------------------------------------------------------
(***************************************************************************)
(* The streams of a session in OrchestratorService                         *)
(* (pkg/grpc/orchestrator_service.go): StreamMessages handlers enter the   *)
(* set of streams of their session, and sendToSessionStream sends a        *)
(* response to all of them.                                                *)
(*                                                                         *)
(* OrchestratorService.mu guards the map from sessions to sets.  A sender  *)
(* gets the set from the map under the lock and walks it after releasing   *)
(* it; the walk is one step here, and as it races with the handlers that   *)
(* change the set, Go may end the process at it.  An emptied set is        *)
(* deleted and the next stream makes another one, so that a sender may     *)
(* hold a set which is no longer in the map.                               *)
(* One session is enough: sets of different sessions do not meet.          *)
(***************************************************************************)
CONSTANTS
    ChatStreams,    \* the StreamMessages handlers of the session
    ChatSenders,    \* the calls of sendToSessionStream
    MaxSets         \* sets made for the session (bound)

ASSUME SsAssumption == MaxSets \in Nat

VARIABLES
    ssAlive,        \* the process runs
    ssSession,      \* the session is active, so that ValidateSession accepts it
    ssOpen,         \* the handlers: "unused", "first", "registered", "ended"
    ssBroken,       \* streams whose Send fails
    ssTracked,      \* OrchestratorService.streams
    ssSet,          \* the set in the map, 0 for none
    ssMade,         \* sets made so far
    ssMembers,      \* the members of each set
    ssSend,         \* the senders: pc, the set, the streams left and those that failed
    ssGot,          \* the responses each stream was sent, by sender
    ssResult        \* what the senders returned

ssVars == <<ssAlive, ssSession, ssOpen, ssBroken, ssTracked, ssSet, ssMade, ssMembers, ssSend, ssGot,
            ssResult>>

SsInit ==
    /\ ssAlive = TRUE
    /\ ssSession = TRUE
    /\ ssOpen = [x \in ChatStreams |-> "unused"]
    /\ ssBroken = {} /\ ssTracked = {}
    /\ ssSet = 0 /\ ssMade = 0
    /\ ssMembers = [g \in 1..MaxSets |-> {}]
    /\ ssSend = [p \in ChatSenders |-> [pc |-> "new", of |-> 0, found |-> {}, left |-> {}, failed |-> {}]]
    /\ ssGot = [x \in ChatStreams |-> {}]
    /\ ssResult = [p \in ChatSenders |-> "none"]

-----------------------------------------------------------------------------
(* The handlers.                                                           *)

OpenChat(x) ==
    /\ ssOpen[x] = "unused"
    /\ ssOpen' = [ssOpen EXCEPT ![x] = "first"]
    /\ ssTracked' = ssTracked \cup {x}
    /\ UNCHANGED <<ssSession, ssBroken, ssSet, ssMade, ssMembers, ssSend, ssGot, ssResult>>

\* The first message that is not a heartbeat: the session must be active.
RegisterChat(x) ==
    /\ ssOpen[x] = "first" /\ ssSession
    /\ IF ssSet = 0
       THEN /\ ssMade < MaxSets
            /\ ssMade' = ssMade + 1 /\ ssSet' = ssMade + 1
            /\ ssMembers' = [ssMembers EXCEPT ![ssMade + 1] = {x}]
       ELSE /\ ssMembers' = [ssMembers EXCEPT ![ssSet] = @ \cup {x}]
            /\ UNCHANGED <<ssMade, ssSet>>
    /\ ssOpen' = [ssOpen EXCEPT ![x] = "registered"]
    /\ UNCHANGED <<ssSession, ssBroken, ssTracked, ssSend, ssGot, ssResult>>

\* The streams in gone leave the set in the map, which leaves the map when empty.
LeaveSet(gone) ==
    /\ ssMembers' = IF ssSet = 0 THEN ssMembers ELSE [ssMembers EXCEPT ![ssSet] = @ \ gone]
    /\ ssSet' = IF ssSet # 0 /\ ssMembers'[ssSet] = {} THEN 0 ELSE ssSet

\* The client leaves, the session is not active, or an answer cannot be sent:
\* the deferred functions take the stream out of its set and of streams.
EndChat(x) ==
    /\ ssOpen[x] \in {"first", "registered"}
    /\ IF ssOpen[x] = "registered" THEN LeaveSet({x}) ELSE UNCHANGED <<ssMembers, ssSet>>
    /\ ssOpen' = [ssOpen EXCEPT ![x] = "ended"]
    /\ ssTracked' = ssTracked \ {x}
    /\ UNCHANGED <<ssSession, ssBroken, ssMade, ssSend, ssGot, ssResult>>

\* CloseSession leaves the streams of the session alone.
CloseChatSession ==
    /\ ssSession /\ ssSession' = FALSE
    /\ UNCHANGED <<ssOpen, ssBroken, ssTracked, ssSet, ssMade, ssMembers, ssSend, ssGot, ssResult>>

\* The connection of a client fails.
BreakChat(x) ==
    /\ ssOpen[x] = "registered" /\ x \notin ssBroken
    /\ ssBroken' = ssBroken \cup {x}
    /\ UNCHANGED <<ssSession, ssOpen, ssTracked, ssSet, ssMade, ssMembers, ssSend, ssGot, ssResult>>

-----------------------------------------------------------------------------
(* sendToSessionStream.                                                    *)

SenderGoes(p, from, to) ==
    /\ ssSend[p].pc = from
    /\ ssSend' = [ssSend EXCEPT ![p].pc = to]

\* Under the read lock.
GetSet(p) ==
    /\ ssSend[p].pc = "new"
    /\ ssSend' = [ssSend EXCEPT ![p] = [@ EXCEPT !.pc = IF ssSet = 0 THEN "done" ELSE "walk", !.of = ssSet]]
    /\ ssResult' = IF ssSet = 0 THEN [ssResult EXCEPT ![p] = "no stream"] ELSE ssResult
    /\ UNCHANGED <<ssSession, ssOpen, ssBroken, ssTracked, ssSet, ssMade, ssMembers, ssGot>>

\* Without it.
WalkSet(p) ==
    LET found == ssMembers[ssSend[p].of] IN
    /\ ssSend[p].pc = "walk"
    /\ ssSend' = [ssSend EXCEPT ![p] = [@ EXCEPT !.pc = IF found = {} THEN "done" ELSE "send",
                                               !.found = found, !.left = found]]
    /\ ssResult' = IF found = {} THEN [ssResult EXCEPT ![p] = "no stream"] ELSE ssResult
    /\ UNCHANGED <<ssSession, ssOpen, ssBroken, ssTracked, ssSet, ssMade, ssMembers, ssGot>>

\* Mutant of SendTo: ends with the first stream that fails.
SendToUntilFailure(p, x) ==
    LET fails == x \in ssBroken \/ ssOpen[x] = "ended" IN
    /\ ssSend[p].pc = "send" /\ x \in ssSend[p].left
    /\ ssSend' = [ssSend EXCEPT ![p].left = IF fails THEN {} ELSE @ \ {x},
                                ![p].failed = IF fails THEN @ \cup {x} ELSE @]
    /\ ssGot' = IF fails THEN ssGot ELSE [ssGot EXCEPT ![x] = @ \cup {p}]
    /\ UNCHANGED <<ssSession, ssOpen, ssBroken, ssTracked, ssSet, ssMade, ssMembers, ssResult>>

\* The next stream, in any order, under its mutex.  A broken stream fails, and
\* so does one whose handler has returned.
SendTo(p, x) ==
    LET fails == x \in ssBroken \/ ssOpen[x] = "ended" IN
    /\ ssSend[p].pc = "send" /\ x \in ssSend[p].left
    /\ ssSend' = [ssSend EXCEPT ![p].left = @ \ {x},
                                ![p].failed = IF fails THEN @ \cup {x} ELSE @]
    /\ ssGot' = IF fails THEN ssGot ELSE [ssGot EXCEPT ![x] = @ \cup {p}]
    /\ UNCHANGED <<ssSession, ssOpen, ssBroken, ssTracked, ssSet, ssMade, ssMembers, ssResult>>

\* The failed ones leave the set that is in the map by now.
EndSend(p) ==
    /\ ssSend[p].left = {}
    /\ SenderGoes(p, "send", "done")
    /\ LeaveSet(ssSend[p].failed)
    /\ ssResult' = [ssResult EXCEPT ![p] = IF \E x \in ChatStreams : p \in ssGot[x]
                                           THEN "sent" ELSE "unsent"]
    /\ UNCHANGED <<ssSession, ssOpen, ssBroken, ssTracked, ssMade, ssGot>>

\* The walk runs over a map a handler changes meanwhile: Go may end the process.
WalkMeetsWrite(p) ==
    /\ ssSend[p].pc = "walk"
    /\ \E x \in ChatStreams : ssOpen[x] \in {"first", "registered"}
    /\ ssAlive' = FALSE
    /\ UNCHANGED <<ssSession, ssOpen, ssBroken, ssTracked, ssSet, ssMade, ssMembers, ssSend, ssGot,
                   ssResult>>

HandlerStep ==
    \/ \E x \in ChatStreams : OpenChat(x) \/ RegisterChat(x) \/ EndChat(x) \/ BreakChat(x)
    \/ CloseChatSession

SenderStep ==
    \/ \E p \in ChatSenders : GetSet(p) \/ WalkSet(p) \/ EndSend(p)
    \/ \E p \in ChatSenders, x \in ChatStreams : SendTo(p, x)

SsNext ==
    /\ ssAlive
    /\ \/ HandlerStep /\ UNCHANGED ssAlive
       \/ SenderStep /\ UNCHANGED ssAlive
       \/ \E p \in ChatSenders : WalkMeetsWrite(p)

SsSpec == SsInit /\ [][SsNext]_ssVars

-----------------------------------------------------------------------------
(* Properties                                                              *)

\* The map holds no empty set, and no set but the one made last.
SsTypeOK ==
    /\ ssAlive \in BOOLEAN
    /\ ssSession \in BOOLEAN
    /\ ssOpen \in [ChatStreams -> {"unused", "first", "registered", "ended"}]
    /\ ssBroken \subseteq ChatStreams
    /\ ssTracked = {x \in ChatStreams : ssOpen[x] \in {"first", "registered"}}
    /\ ssMade \in 0..MaxSets /\ ssSet \in {0, ssMade}
    /\ ssMembers \in [1..MaxSets -> SUBSET ChatStreams]
    /\ ssSend \in [ChatSenders -> [pc : {"new", "walk", "send", "done"}, of : 0..MaxSets,
                                   found : SUBSET ChatStreams, left : SUBSET ChatStreams,
                                   failed : SUBSET ChatStreams]]
    /\ ssGot \in [ChatStreams -> SUBSET ChatSenders]
    /\ ssResult \in [ChatSenders -> {"none", "no stream", "sent", "unsent"}]
    /\ ssSet # 0 => ssMembers[ssSet] # {}

\* A registered stream whose connection works is found by every sender that
\* looks now, and no stream whose handler returned is: the deferred clean-ups
\* and the senders' own removals keep to their streams
\* (orchestrator_service.go:507).
OpenIsFound ==
    LET found == IF ssSet = 0 THEN {} ELSE ssMembers[ssSet]
        registered == {x \in ChatStreams : ssOpen[x] = "registered"}
    IN  registered \ ssBroken \subseteq found /\ found \subseteq registered

\* A response reaches every stream its sender found in the set, but those that
\* were broken or had ended when it came to them: a failing one does not keep it
\* from the others (orchestrator_service.go:92), and a sender reports success
\* only if it reached one.
ReachesTheRest ==
    \A p \in ChatSenders : ssSend[p].pc = "done" =>
        /\ \A x \in ssSend[p].found : p \in ssGot[x] \/ x \in ssBroken \/ ssOpen[x] = "ended"
        /\ ssResult[p] = "sent" <=> \E x \in ssSend[p].found : p \in ssGot[x]

-----------------------------------------------------------------------------
(***************************************************************************)
(* A session of the gateway service and its streams                        *)
(* (pkg/grpc/gateway_service.go).                                          *)
(*                                                                         *)
(* The gateway registry maps a gateway session to a session of the session *)
(* manager and counts its open streams.  Every access to the registry or   *)
(* to the manager is a step of its own, so that creation, closing and the  *)
(* first message of a stream interleave.  Identifiers are not used again,  *)
(* and different sessions do not meet: one is enough.  In the program both *)
(* session lookups after the creation only feed the answer.                *)
(***************************************************************************)
CONSTANTS
    ChatCalls,      \* StreamChat handlers
    ResponseCalls,  \* StreamResponses handlers
    CloseCalls      \* CloseGatewaySession calls

ASSUME GsAssumption == IsFiniteSet(ChatCalls \cup ResponseCalls)

VARIABLES
    gsCreate,       \* CreateGatewaySession: "new", "created", "entered", "answered", "refused"
    gsOrch,         \* the orchestrator session: "none", "open", "closed", "deleted"
    gsEntry,        \* the gateway session in the registry: "none", "active", "removed"
    gsCount,        \* ActiveStreams of the entry
    gsCall,         \* handlers: "unused", "tracked", "found", "open", "leaving", "ended"
    gsCounted,      \* handlers whose IncrementStreamCount found the entry
    gsLeaked,       \* those that ended without a decrement
    gsStreams,      \* GatewayService.streams
    gsServing,      \* GatewayService.Close has not run
    gsClose         \* close calls: "new", "found", "closing", "closed", "failed"

gsSessionVars == <<gsOrch, gsEntry>>
gsStreamVars == <<gsCall, gsCounted, gsLeaked, gsStreams, gsServing>>
gsVars == <<gsCreate, gsSessionVars, gsCount, gsStreamVars, gsClose>>

StreamCalls == ChatCalls \cup ResponseCalls

GsInit ==
    /\ gsCreate = "new" /\ gsOrch = "none" /\ gsEntry = "none" /\ gsCount = 0
    /\ gsCall = [x \in StreamCalls |-> "unused"]
    /\ gsCounted = {} /\ gsLeaked = {} /\ gsStreams = {}
    /\ gsServing = TRUE
    /\ gsClose = [c \in CloseCalls |-> "new"]

-----------------------------------------------------------------------------
(* The session.                                                            *)

CreateOrchSession ==
    /\ gsCreate = "new" /\ gsCreate' = "created"
    /\ gsOrch' = "open"
    /\ UNCHANGED <<gsEntry, gsCount, gsStreamVars, gsClose>>

AddGatewaySession ==
    /\ gsCreate = "created" /\ gsCreate' = "entered"
    /\ gsEntry' = "active"
    /\ UNCHANGED <<gsOrch, gsCount, gsStreamVars, gsClose>>

\* The answer needs the orchestrator session once more: when it has been deleted
\* the caller gets an error, and both sessions are left as they are.
AnswerCreate ==
    /\ gsCreate = "entered"
    /\ gsCreate' = IF gsOrch = "deleted" THEN "refused" ELSE "answered"
    /\ UNCHANGED <<gsSessionVars, gsCount, gsStreamVars, gsClose>>

\* Another service, or the cleanup of the manager, closes or deletes it.
OrchSessionChanges(to) ==
    /\ gsOrch \in {"open", "closed"} /\ to # gsOrch
    /\ gsOrch' = to
    /\ UNCHANGED <<gsCreate, gsEntry, gsCount, gsStreamVars, gsClose>>

CloseGoes(c, from, to) ==
    /\ gsClose[c] = from
    /\ gsClose' = [gsClose EXCEPT ![c] = to]

FindForClose(c) ==
    /\ gsEntry # "none"
    /\ CloseGoes(c, "new", IF gsEntry = "active" THEN "found" ELSE "failed")
    /\ UNCHANGED <<gsCreate, gsSessionVars, gsCount, gsStreamVars>>

\* Closing a closed session succeeds, closing a deleted one does not.
CloseOrchSession(c) ==
    /\ CloseGoes(c, "found", IF gsOrch = "deleted" THEN "failed" ELSE "closing")
    /\ gsOrch' = IF gsOrch = "open" THEN "closed" ELSE gsOrch
    /\ UNCHANGED <<gsCreate, gsEntry, gsCount, gsStreamVars>>

\* The second of two calls finds it removed.
RemoveGatewaySession(c) ==
    /\ CloseGoes(c, "closing", IF gsEntry = "active" THEN "closed" ELSE "failed")
    /\ gsEntry' = "removed"
    /\ UNCHANGED <<gsCreate, gsOrch, gsCount, gsStreamVars>>

-----------------------------------------------------------------------------
(* The streams.                                                            *)

StreamGoes(x, from, to) ==
    /\ gsCall[x] = from
    /\ gsCall' = [gsCall EXCEPT ![x] = to]

\* StreamChat is tracked at once and finds its session with the first message;
\* a client that never names one, or a heartbeat that cannot be answered, ends it.
TrackChat(x) ==
    /\ x \in ChatCalls /\ StreamGoes(x, "unused", "tracked")
    /\ gsStreams' = gsStreams \cup {x}
    /\ UNCHANGED <<gsCreate, gsSessionVars, gsCount, gsCounted, gsLeaked, gsServing, gsClose>>

FindForChat(x) ==
    /\ x \in ChatCalls /\ gsEntry = "active" /\ StreamGoes(x, "tracked", "found")
    /\ UNCHANGED <<gsCreate, gsSessionVars, gsCount, gsCounted, gsLeaked, gsStreams, gsServing, gsClose>>

\* StreamResponses finds its session before it is tracked.
FindForResponses(x) ==
    /\ x \in ResponseCalls /\ gsEntry = "active" /\ StreamGoes(x, "unused", "found")
    /\ gsStreams' = gsStreams \cup {x}
    /\ UNCHANGED <<gsCreate, gsSessionVars, gsCount, gsCounted, gsLeaked, gsServing, gsClose>>

\* IncrementStreamCount; that the session is gone by now is not looked at.
CountStream(x) ==
    /\ StreamGoes(x, "found", "open")
    /\ IF gsEntry = "active"
       THEN gsCount' = gsCount + 1 /\ gsCounted' = gsCounted \cup {x}
       ELSE UNCHANGED <<gsCount, gsCounted>>
    /\ UNCHANGED <<gsCreate, gsSessionVars, gsLeaked, gsStreams, gsServing, gsClose>>

\* DecrementStreamCount: not below zero, nothing when the session is gone.
Decremented == IF gsEntry = "active" /\ gsCount > 0 THEN gsCount - 1 ELSE gsCount

\* Recv fails: the client closed the stream or left.
ClientEnds(x) ==
    /\ x \in ChatCalls /\ gsCall[x] \in {"tracked", "open"}
    /\ gsCall' = [gsCall EXCEPT ![x] = "ended"]
    /\ gsCount' = IF gsCall[x] = "open" THEN Decremented ELSE gsCount
    /\ gsStreams' = gsStreams \ {x}
    /\ UNCHANGED <<gsCreate, gsSessionVars, gsCounted, gsLeaked, gsServing, gsClose>>

\* A cancel message, or an answer that cannot be sent: nothing is decremented.
ChatEnds(x) ==
    /\ x \in ChatCalls /\ StreamGoes(x, "open", "ended")
    /\ gsLeaked' = gsLeaked \cup (gsCounted \cap {x})
    /\ gsStreams' = gsStreams \ {x}
    /\ UNCHANGED <<gsCreate, gsSessionVars, gsCount, gsCounted, gsServing, gsClose>>

\* All chunks are sent, one cannot be sent, or Close canceled the context: the
\* deferred function untracks the stream and then decrements.
ResponsesEnd(x) ==
    /\ x \in ResponseCalls /\ StreamGoes(x, "open", "leaving")
    /\ gsStreams' = gsStreams \ {x}
    /\ UNCHANGED <<gsCreate, gsSessionVars, gsCount, gsCounted, gsLeaked, gsServing, gsClose>>

UncountResponses(x) ==
    /\ StreamGoes(x, "leaving", "ended")
    /\ gsCount' = Decremented
    /\ UNCHANGED <<gsCreate, gsSessionVars, gsCounted, gsLeaked, gsStreams, gsServing, gsClose>>

CloseGatewayService ==
    /\ gsServing /\ gsServing' = FALSE
    /\ gsStreams' = {}
    /\ UNCHANGED <<gsCreate, gsSessionVars, gsCount, gsCall, gsCounted, gsLeaked, gsClose>>

GsNext ==
    \/ CreateOrchSession \/ AddGatewaySession \/ AnswerCreate \/ CloseGatewayService
    \/ \E to \in {"closed", "deleted"} : OrchSessionChanges(to)
    \/ \E c \in CloseCalls : FindForClose(c) \/ CloseOrchSession(c) \/ RemoveGatewaySession(c)
    \/ \E x \in StreamCalls :
         \/ TrackChat(x) \/ FindForChat(x) \/ FindForResponses(x) \/ CountStream(x)
         \/ ClientEnds(x) \/ ChatEnds(x) \/ ResponsesEnd(x) \/ UncountResponses(x)

GsSpec == GsInit /\ [][GsNext]_gsVars

-----------------------------------------------------------------------------
(* Properties                                                              *)

\* The service tracks the handlers that run, and no others, until it is closed.
GsTypeOK ==
    /\ gsCreate \in {"new", "created", "entered", "answered", "refused"}
    /\ gsOrch \in {"none", "open", "closed", "deleted"} /\ gsEntry \in {"none", "active", "removed"}
    /\ gsCount \in 0..Cardinality(StreamCalls) /\ gsServing \in BOOLEAN
    /\ gsCall \in [StreamCalls -> {"unused", "tracked", "found", "open", "leaving", "ended"}]
    /\ gsCounted \subseteq StreamCalls /\ gsLeaked \subseteq gsCounted
    /\ gsClose \in [CloseCalls -> {"new", "found", "closing", "closed", "failed"}]
    /\ LET running == {x \in StreamCalls : gsCall[x] \in {"tracked", "found", "open"}}
       IN  gsStreams \subseteq running /\ (gsServing => gsStreams = running)

\* What GetStatus shows as the active streams of a session are the streams that
\* are open, and the leaked ones: those a cancel message or a failed answer ended
\* (gateway_service.go:635, 706).
CountIsOpenAndLeaked ==
    gsEntry = "active" =>
        gsCount = Cardinality({x \in gsCounted : gsCall[x] \in {"open", "leaving"}} \cup gsLeaked)

\* A gateway session leaves the registry after its orchestrator session was
\* closed, and one of its close calls reports it, only one
\* (gateway_service.go:484).
ClosedTogether ==
    gsEntry = "removed" =>
        /\ gsOrch \in {"closed", "deleted"}
        /\ Cardinality({c \in CloseCalls : gsClose[c] = "closed"}) = 1

-----------------------------------------------------------------------------
(* What the services of the orchestrator show of an object, and what they  *)
(* make of what a client sends (pkg/grpc/convert.go).  Enumerations differ *)
(* on the two sides: Go has strings, the wire has numbers with 0 for       *)
(* "unspecified", and a newer client may send a number without a name.     *)
(*                                                                         *)
(* One field of an object lives, as fields are converted one by one: one   *)
(* that the client sends is read once and stored, one that the program     *)
(* moves changes, and a client that asks keeps what it is shown.  Values   *)
(* that convert.go copies unchanged are left out.                          *)

VARIABLES
    wfField,    \* which field
    wfSent,     \* its value as the client sent it, "" for one the program moves
    wfStored,   \* its value in the program
    wfSeen      \* its value as last shown, "" before

wfVars == <<wfField, wfSent, wfStored, wfSeen>>

SessionStates  == {"initializing", "active", "idle", "closing", "closed"}
Statuses       == {"unknown", "starting", "running", "stopping", "stopped", "error", "terminated"}
MessageRoles   == {"user", "system", "assistant", "tool"}
AgentTypes     == {"orchestrator", "gateway", "worker", "tool", "monitor"}
AgentStates    == {"initializing", "registering", "idle", "busy", "unregistering", "terminated"}
TaskTypes      == {"code_execution", "file_operation", "network_request", "data_processing",
                   "container_operation", "tool_execution", "custom"}
TaskStates     == {"pending", "queued", "running", "paused", "completed", "failed", "cancelled", "timeout"}
Priorities     == {"low", "normal", "high", "critical"}
EventTypes     == {"container.created", "container.started", "container.stopped", "container.removed",
                   "container.error", "session.created", "session.updated", "session.closed",
                   "task.created", "task.updated", "task.completed", "task.failed", "ipc.message",
                   "policy.violation", "resource.threshold", "system.startup", "system.shutdown"}

Unspecified == "UNSPECIFIED"
Unnamed == "UNNAMED"          \* a number the enumeration does not have
OnWire(names) == names \cup {Unspecified, Unnamed}
Amounts == {"negative", "zero", "positive"}

\* To the wire: what has no number is unspecified.
ToProto(names, v) == IF v \in names THEN v ELSE Unspecified
\* From the wire, each with its own default.
FromProto(names, w, default) == IF w \in names THEN w ELSE default

protoToSessionState(w) == FromProto(SessionStates, w, "initializing")
protoToMessageRole(w) == FromProto(MessageRoles, w, "user")
protoToAgentType(w) == FromProto(AgentTypes, w, "unspecified")
protoToTaskType(w) == FromProto(TaskTypes, w, "unspecified")
protoToTaskPriority(w) == FromProto(Priorities, w, "unspecified")

\* Durations and the limit on processes: none when the client says no positive number.
Positive(w) == IF w = "positive" THEN w ELSE "zero"
protoToSessionConfig(w) == Positive(w)
protoToResourceLimits(w) == Positive(w)

\* The fields the client sends, and those the program moves.
SentFields == {"duration", "pidsLimit", "role", "agentType", "taskType", "taskPriority"}
MovedFields == {"state", "status", "agentState", "taskState", "eventType", "eventPriority"}

WireValues(f) ==
    CASE f \in {"duration", "pidsLimit"} -> Amounts
      [] f = "role"         -> OnWire(MessageRoles)
      [] f = "agentType"    -> OnWire(AgentTypes)
      [] f = "taskType"     -> OnWire(TaskTypes)
      [] f = "taskPriority" -> OnWire(Priorities)

\* What the program gives the fields it moves: AgentService knows three states of an agent
\* and three of a task, one of which has no number; of the events that the services publish
\* most have none.
Assigned(f) ==
    CASE f = "state"         -> SessionStates
      [] f = "status"        -> Statuses
      [] f = "agentState"    -> {"idle", "busy", "terminated"}
      [] f = "taskState"     -> {"pending", "started", "cancelled"}
      [] f = "eventType"     -> {"session.created", "session.closed", "message.sent", "agent.registered",
                                 "agent.unregistered", "task.created", "tool.registered",
                                 "tool.unregistered", "tool.execution.created",
                                 "gateway.session.created", "gateway.session.closed"}
      [] f = "eventPriority" -> Priorities

Read(f, w) ==
    CASE f = "duration"      -> protoToSessionConfig(w)
      [] f = "pidsLimit"     -> protoToResourceLimits(w)
      [] f = "role"          -> protoToMessageRole(w)
      [] f = "agentType"     -> protoToAgentType(w)
      [] f = "taskType"      -> protoToTaskType(w)
      [] f = "taskPriority"  -> protoToTaskPriority(w)

Show(f, v) ==
    CASE f = "duration"      -> Positive(v)
      [] f = "pidsLimit"     -> v
      [] f = "role"          -> ToProto(MessageRoles, v)
      [] f = "agentType"     -> ToProto(AgentTypes, v)
      [] f = "taskType"      -> ToProto(TaskTypes, v)
      [] f \in {"taskPriority", "eventPriority"} -> ToProto(Priorities, v)
      [] f = "state"         -> ToProto(SessionStates, v)
      [] f = "status"        -> ToProto(Statuses, v)
      [] f = "agentState"    -> ToProto(AgentStates, v)
      [] f = "taskState"     -> ToProto(TaskStates, v)
      [] f = "eventType"     -> ToProto(EventTypes, v)

\* protoToSessionFilter: no filter for an unspecified state.
Selects(w, v) == w = Unspecified \/ v = protoToSessionState(w)

-----------------------------------------------------------------------------

WfInit ==
    /\ wfSeen = ""
    /\ \/ /\ wfField \in SentFields
          /\ wfSent \in WireValues(wfField)
          /\ wfStored = Read(wfField, wfSent)
       \/ /\ wfField \in MovedFields
          /\ wfSent = ""
          /\ wfStored \in Assigned(wfField)

MoveField(v) ==
    /\ wfField \in MovedFields /\ v \in Assigned(wfField) \ {wfStored}
    /\ wfStored' = v
    /\ UNCHANGED <<wfField, wfSent, wfSeen>>

\* A client gets the object, alone or in a list.
ShowField ==
    /\ wfSeen' = Show(wfField, wfStored)
    /\ UNCHANGED <<wfField, wfSent, wfStored>>

WfNext == ShowField \/ \E v \in UNION {Assigned(f) : f \in MovedFields} : MoveField(v)

WfSpec == WfInit /\ [][WfNext]_wfVars

-----------------------------------------------------------------------------
(* Properties.                                                             *)

\* A client is shown what was sent: enumerations come back as they were, but an
\* unnamed number as unspecified and a role without a name as the user's; of amounts
\* the positive ones (convert.go:140, 271, 472).
ShownAsSent ==
    wfField \in SentFields /\ wfSeen # "" =>
        \/ wfSeen = wfSent
        \/ wfSent = Unnamed /\ wfSeen = Unspecified
        \/ wfField = "role" /\ wfSent \in {Unspecified, Unnamed} /\ wfSeen = "user"
        \/ wfField \in {"duration", "pidsLimit"} /\ wfSent = "negative" /\ wfSeen = "zero"

\* What the program moves is shown under its own name, with two gaps: a task that a
\* worker has picked up, and the events that only the services publish
\* (convert.go:706, 995; agent_service.go:711).
ShownAsMoved ==
    wfField \in MovedFields /\ wfSeen # "" =>
        \/ wfSeen \in Assigned(wfField)
        \/ wfSeen = Unspecified /\ wfField \in {"taskState", "eventType"}

\* A session found by a filter is shown in the state that was asked for, unless that
\* has no name: then the sessions that are still being initialized are found
\* (convert.go:32, 631).
FilterFindsAsked ==
    wfField = "state" =>
        \A w \in OnWire(SessionStates) :
            Selects(w, wfStored) =>
                \/ w \in {Unspecified, Show("state", wfStored)}
                \/ w = Unnamed /\ wfStored = "initializing"

\* Senders, closing and the first message of a stream overlap: open streams are found
\* and reached, closed ones are not counted but for the leaked, and a gateway session
\* closes with its orchestrator session; what clients are shown is what they sent and
\* what was stored, but for the known gaps (orchestrator_service.go,
\* gateway_service.go, convert.go).
ClientStreamsSafe ==
    /\ SsTypeOK
    /\ OpenIsFound
    /\ ReachesTheRest
    /\ GsTypeOK
    /\ CountIsOpenAndLeaked
    /\ ClosedTogether
    /\ ShownAsSent
    /\ ShownAsMoved
    /\ FilterFindsAsked
=============================================================================
