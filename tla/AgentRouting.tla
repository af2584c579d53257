---------------------------- MODULE AgentRouting ----------------------------
(***************************************************************************)
(* Routing of user messages to agents and of their answers back:           *)
(* AgentService of pkg/grpc/agent_service.go and the part of               *)
(* OrchestratorService.StreamMessages that calls it.                       *)
(*                                                                         *)
(* The processes are the StreamMessages handlers (one per session), the    *)
(* StreamAgent handlers (one per stream, a reconnecting agent opens a new  *)
(* one) and the callbacks of the 30 s timers.  AgentService.mu is released *)
(* between the steps of each.  A request is a user message with its        *)
(* generated correlation ID; texts are left out.  A stream is registered   *)
(* together with a fresh send lock, so one variable stands for the maps    *)
(* agentStreams and agentSendLocks, and a lock is named by its stream.     *)
(***************************************************************************)
EXTENDS Naturals, Sequences, FiniteSets

CONSTANTS
    Requests,   \* user messages, by correlation ID
    Sessions,   \* sessions, each with one StreamMessages handler
    Agents,     \* agent IDs, naturals in the order of sort.Strings
    Streams,    \* StreamAgent streams
    AgentOf,    \* the agent that opens each stream
    None        \* no agent, stream, session or request

ASSUME RoutingAssumption ==
    /\ Agents \subseteq Nat
    /\ AgentOf \in [Streams -> Agents]
    /\ None \notin Requests \cup Sessions \cup Agents \cup Streams

VARIABLES
    registry,       \* AgentRegistry.agents: what became of each agent ID
    agentStreams,   \* AgentService.agentStreams and agentSendLocks
    sendLock,       \* the session whose handler holds a stream's send lock
    gone,           \* streams whose client has left
    agent,          \* the StreamAgent handlers
    held,           \* the requests that reached each agent
    client,         \* the StreamMessages handlers
    asker,          \* pendingResponseRoute.sessionID, kept after the route
    target,         \* the agent in the request's pending key
    pending,        \* the keys of AgentService.pendingResponses
    pendingTimers,  \* the keys of AgentService.pendingTimers
    timer,          \* the timer of each request and its callback
    conversation    \* what was added to each session, in order

streamVars == <<registry, agentStreams, gone>>
routeVars == <<pending, pendingTimers, timer>>
requestVars == <<asker, target>>
vars == <<streamVars, sendLock, agent, held, client, requestVars, routeVars,
          conversation>>

Idle == [pc |-> "recv", cur |-> None, seen |-> None]
Unused == [pc |-> "unused", cur |-> None, to |-> None]
Listening == [pc |-> "recv", cur |-> None, to |-> None]
Ended == [pc |-> "ended", cur |-> None, to |-> None]

Working == {"store", "lookup", "lock", "send", "fail", "add"}

Entry == {"user", "answer", "timeout"} \X Requests

TypeOK ==
    /\ registry \in [Agents -> {"new", "registered", "terminated"}]
    /\ agentStreams \in [Agents -> Streams \cup {None}]
    /\ sendLock \in [Streams -> Sessions \cup {None}]
    /\ gone \subseteq Streams
    /\ agent \in [Streams -> {Unused, Listening, Ended}
                              \cup [pc : {"answer"}, cur : Requests, to : Sessions]]
    /\ held \in [Agents -> SUBSET Requests]
    /\ client \in [Sessions -> {Idle}
           \cup [pc : Working, cur : Requests, seen : Streams \cup {None}]]
    /\ asker \in [Requests -> Sessions \cup {None}]
    /\ target \in [Requests -> Agents \cup {None}]
    /\ pending \subseteq Requests /\ pendingTimers \subseteq Requests
    /\ timer \in [Requests -> {"none", "armed", "stopped", "fired", "taken", "done"}]
    /\ conversation \in [Sessions -> Seq(Entry)]

Init ==
    /\ registry = [a \in Agents |-> "new"]
    /\ agentStreams = [a \in Agents |-> None]
    /\ sendLock = [x \in Streams |-> None]
    /\ gone = {}
    /\ agent = [x \in Streams |-> Unused]
    /\ held = [a \in Agents |-> {}]
    /\ client = [s \in Sessions |-> Idle]
    /\ asker = [r \in Requests |-> None]
    /\ target = [r \in Requests |-> None]
    /\ pending = {} /\ pendingTimers = {}
    /\ timer = [r \in Requests |-> "none"]
    /\ conversation = [s \in Sessions |-> <<>>]

-----------------------------------------------------------------------------
(* Agents and their streams.                                               *)

Register(a) ==
    /\ registry[a] = "new"
    /\ registry' = [registry EXCEPT ![a] = "registered"]
    /\ UNCHANGED <<agentStreams, gone, sendLock, agent, held, client,
                   requestVars, routeVars, conversation>>

\* The agent leaves the registry; its stream and its routes stay.
Unregister(a) ==
    /\ registry[a] = "registered"
    /\ registry' = [registry EXCEPT ![a] = "terminated"]
    /\ UNCHANGED <<agentStreams, gone, sendLock, agent, held, client,
                   requestVars, routeVars, conversation>>

\* The agent's client opens a stream, once it has given up its earlier ones,
\* and its first message names the agent: the stream replaces any earlier one,
\* whose handler may not have noticed.  (Before that message, or when it names
\* an agent that is not registered, a handler changes nothing.)
Establish(x) ==
    LET a == AgentOf[x] IN
    /\ agent[x].pc = "unused"
    /\ registry[a] = "registered"
    /\ \A y \in Streams : AgentOf[y] = a => y \in gone \/ agent[y].pc \in {"unused", "ended"}
    /\ agentStreams' = [agentStreams EXCEPT ![a] = x]
    /\ agent' = [agent EXCEPT ![x] = Listening]
    /\ UNCHANGED <<registry, gone, sendLock, held, client, requestVars,
                   routeVars, conversation>>

\* The client or its connection goes away.
Disconnect(x) ==
    /\ agent[x].pc \in {"recv", "answer"}
    /\ x \notin gone
    /\ gone' = gone \cup {x}
    /\ UNCHANGED <<registry, agentStreams, sendLock, agent, held, client,
                   requestVars, routeVars, conversation>>

\* clearPendingResponseLocked for each of R.  Stop does not recall a callback
\* that has started.
ClearPending(R) ==
    /\ pending' = pending \ R
    /\ pendingTimers' = pendingTimers \ R
    /\ timer' = [r \in Requests |->
                   IF r \in R \cap pendingTimers /\ timer[r] = "armed"
                   THEN "stopped" ELSE timer[r]]

\* A heartbeat is answered on the agent's current stream; without one, or when
\* that stream's client has left, the handler returns the error.
HeartbeatFails(x) ==
    agentStreams[AgentOf[x]] = None \/ agentStreams[AgentOf[x]] \in gone

Routed(a) == {r \in pending : target[r] = a}

\* The handler returns.  Its deferred function removes whatever stream the
\* agent has by now, and every pending route of the agent.
EndStream(x) ==
    LET a == AgentOf[x] IN
    /\ agent[x].pc = "recv"
    /\ x \in gone \/ HeartbeatFails(x)
    /\ agent' = [agent EXCEPT ![x] = Ended]
    /\ agentStreams' = [agentStreams EXCEPT ![a] = None]
    /\ ClearPending(Routed(a))
    /\ UNCHANGED <<registry, gone, sendLock, held, client, requestVars, conversation>>

-----------------------------------------------------------------------------
(* RouteMessageToAgent, in the handler of a session.                       *)

\* The handler goes on with its request; x is the stream it looked up.
GoTo(s, pc, x) ==
    client' = [client EXCEPT ![s] = [pc |-> pc, cur |-> client[s].cur, seen |-> x]]

\* routeToAssistant: registered assistants that have a stream.
Candidates ==
    {a \in Agents : registry[a] = "registered" /\ agentStreams[a] # None}

\* A user message arrives and the first candidate is chosen.  Without one the
\* handler reports an error and goes on to the next message.
Receive(s, r) ==
    /\ client[s].pc = "recv"
    /\ asker[r] = None
    /\ asker' = [asker EXCEPT ![r] = s]
    /\ \E a \in Candidates :
         /\ \A b \in Candidates : a <= b
         /\ target' = [target EXCEPT ![r] = a]
    /\ client' = [client EXCEPT ![s] = [pc |-> "store", cur |-> r, seen |-> None]]
    /\ UNCHANGED <<streamVars, sendLock, agent, held, routeVars, conversation>>

\* The pending route and its timer are stored before the message is sent.
Store(s) ==
    LET r == client[s].cur IN
    /\ client[s].pc = "store"
    /\ pending' = pending \cup {r}
    /\ pendingTimers' = pendingTimers \cup {r}
    /\ timer' = [timer EXCEPT ![r] = "armed"]
    /\ GoTo(s, "lookup", None)
    /\ UNCHANGED <<streamVars, sendLock, agent, held, requestVars, conversation>>

\* sendToAgentStream: the stream and its lock are read under mu.
Lookup(s) ==
    LET x == agentStreams[target[client[s].cur]] IN
    /\ client[s].pc = "lookup"
    /\ GoTo(s, IF x = None THEN "fail" ELSE "lock", x)
    /\ UNCHANGED <<streamVars, sendLock, agent, held, requestVars, routeVars,
                   conversation>>

\* The send lock is taken and the stream checked again; when another stream or
\* none has taken its place the lock is released with an error.
Lock(s) ==
    LET x == client[s].seen
        current == agentStreams[target[client[s].cur]] = x
    IN
    /\ client[s].pc = "lock"
    /\ sendLock[x] = None
    /\ sendLock' = IF current THEN [sendLock EXCEPT ![x] = s] ELSE sendLock
    /\ GoTo(s, IF current THEN "send" ELSE "fail", x)
    /\ UNCHANGED <<streamVars, agent, held, requestVars, routeVars, conversation>>

\* stream.Send delivers while the client is there.  Afterwards it fails, or
\* accepts a message that never arrives.
Send(s) ==
    LET x == client[s].seen
        r == client[s].cur
    IN
    /\ client[s].pc = "send"
    /\ sendLock' = [sendLock EXCEPT ![x] = None]
    /\ \/ /\ x \notin gone
          /\ held' = [held EXCEPT ![AgentOf[x]] = @ \cup {r}]
          /\ GoTo(s, "add", x)
       \/ /\ x \in gone
          /\ GoTo(s, "fail", x) \/ GoTo(s, "add", x)
          /\ UNCHANGED held
    /\ UNCHANGED <<streamVars, agent, requestVars, routeVars, conversation>>

\* The route is withdrawn, the session is sent an error event, the user
\* message is not added.
RouteFails(s) ==
    /\ client[s].pc = "fail"
    /\ ClearPending({client[s].cur})
    /\ client' = [client EXCEPT ![s] = Idle]
    /\ UNCHANGED <<streamVars, sendLock, agent, held, requestVars, conversation>>

Say(s, kind, r) ==
    conversation' = [conversation EXCEPT ![s] = Append(@, <<kind, r>>)]

\* The user message joins the session after it was routed.
AddMessage(s) ==
    /\ client[s].pc = "add"
    /\ Say(s, "user", client[s].cur)
    /\ client' = [client EXCEPT ![s] = Idle]
    /\ UNCHANGED <<streamVars, sendLock, agent, held, requestVars, routeVars>>

-----------------------------------------------------------------------------
(* Answers and timeouts.                                                   *)

\* Mutant of TakeResponse: looks the route up and leaves it.
TakeResponsePeek(x, r, claimed, data) ==
    /\ agent[x].pc = "recv"
    /\ r \in held[AgentOf[x]] \cap pending
    /\ data /\ claimed \in {None, asker[r]}
    /\ agent' = [agent EXCEPT ![x] = [pc |-> "answer", cur |-> r, to |-> asker[r]]]
    /\ UNCHANGED <<streamVars, sendLock, held, client, requestVars, routeVars, conversation>>

\* processAgentResponse: an answer to a request the agent holds arrives on a
\* stream of its, possibly a later one, possibly once more, and names a session
\* or none.  Its route is taken out even when the answer is then discarded.
\* Without a route nothing changes.
TakeResponse(x, r, claimed, data) ==
    /\ agent[x].pc = "recv"
    /\ r \in held[AgentOf[x]] \cap pending
    /\ ClearPending({r})
    /\ agent' = IF data /\ claimed \in {None, asker[r]}
                THEN [agent EXCEPT ![x] = [pc |-> "answer", cur |-> r, to |-> asker[r]]]
                ELSE agent
    /\ UNCHANGED <<streamVars, sendLock, held, client, requestVars, conversation>>

\* The answer is added to the session and forwarded to its streams.
AddResponse(x) ==
    /\ agent[x].pc = "answer"
    /\ Say(agent[x].to, "answer", agent[x].cur)
    /\ agent' = [agent EXCEPT ![x] = Listening]
    /\ UNCHANGED <<streamVars, sendLock, held, client, requestVars, routeVars>>

\* The 30 s are over: the callback starts and waits for mu.
Fire(r) ==
    /\ timer[r] = "armed"
    /\ timer' = [timer EXCEPT ![r] = "fired"]
    /\ UNCHANGED <<streamVars, sendLock, agent, held, client, requestVars,
                   pending, pendingTimers, conversation>>

\* Mutant of Expire: does not look whether the route is still there.
ExpireAnyway(r) ==
    /\ timer[r] = "fired"
    /\ pending' = pending \ {r}
    /\ pendingTimers' = pendingTimers \ {r}
    /\ timer' = [timer EXCEPT ![r] = "taken"]
    /\ UNCHANGED <<streamVars, sendLock, agent, held, client, requestVars, conversation>>

\* expirePendingResponse takes the route out, unless it was taken before.
Expire(r) ==
    /\ timer[r] = "fired"
    /\ pending' = pending \ {r}
    /\ pendingTimers' = pendingTimers \ {r}
    /\ timer' = [timer EXCEPT ![r] = IF r \in pending THEN "taken" ELSE "done"]
    /\ UNCHANGED <<streamVars, sendLock, agent, held, client, requestVars, conversation>>

\* The timeout message is added to the session and forwarded.
AddTimeout(r) ==
    /\ timer[r] = "taken"
    /\ Say(asker[r], "timeout", r)
    /\ timer' = [timer EXCEPT ![r] = "done"]
    /\ UNCHANGED <<streamVars, sendLock, agent, held, client, requestVars,
                   pending, pendingTimers>>

-----------------------------------------------------------------------------
Next ==
    \/ \E a \in Agents : Register(a) \/ Unregister(a)
    \/ \E x \in Streams : \/ Establish(x) \/ Disconnect(x) \/ EndStream(x)
                          \/ AddResponse(x)
    \/ \E s \in Sessions : \/ Store(s) \/ Lookup(s) \/ Lock(s) \/ Send(s)
                           \/ RouteFails(s) \/ AddMessage(s)
    \/ \E s \in Sessions, r \in Requests : Receive(s, r)
    \/ \E x \in Streams, r \in Requests, claimed \in Sessions \cup {None},
          data \in BOOLEAN : TakeResponse(x, r, claimed, data)
    \/ \E r \in Requests : Fire(r) \/ Expire(r) \/ AddTimeout(r)

Spec == Init /\ [][Next]_vars

-----------------------------------------------------------------------------
(* Properties                                                              *)

Said(s) == {conversation[s][i] : i \in 1..Len(conversation[s])}

Outcomes(s, r) ==
    {i \in 1..Len(conversation[s]) : conversation[s][i] \in {<<"answer", r>>, <<"timeout", r>>}}

\* A request ends in one answer or one timeout message at most, though the
\* callback of its timer, answers sent twice and the end of a stream race for
\* its route (agent_service.go:346, 432, 1064).
AnsweredOnce ==
    \A s, z \in Sessions, r \in Requests :
        \A i \in Outcomes(s, r), j \in Outcomes(z, r) : s = z /\ i = j

\* Answers and timeouts reach the session that asked, whatever session the
\* agent names (agent_service.go:365).
AnswersStayInSession ==
    \A s \in Sessions, r \in Requests : Outcomes(s, r) # {} => asker[r] = s

\* Each pending route has a timer that will still take it out, and no timer is
\* kept for a route that is gone.
RoutesAreTimed ==
    /\ pending = pendingTimers
    /\ \A r \in pending : timer[r] \in {"armed", "fired"}

\* Only the handler that is sending holds a send lock: one that found the
\* stream replaced, or whose Send failed, has released it, so that no other
\* handler waits for a stream nobody sends on.
LockHasSender ==
    \A x \in Streams, s \in Sessions :
        sendLock[x] = s <=> client[s].pc = "send" /\ client[s].seen = x

\* The stages of a request as a session sees them.
Stage(r) ==
    CASE r \in pending -> "waiting"
      [] r \notin pending /\ timer[r] = "none" -> "new"
      [] /\ r \notin pending
         /\ \/ \E x \in Streams : agent[x].cur = r
            \/ \E s \in Sessions : <<"answer", r>> \in Said(s) -> "answered"
      [] /\ r \notin pending
         /\ \/ timer[r] = "taken"
            \/ \E s \in Sessions : <<"timeout", r>> \in Said(s) -> "timedout"
      [] OTHER -> "dropped"

\* The routing tables implement the abstract request: no second outcome, and
\* nothing out of nothing.
Reply == INSTANCE RequestReply WITH stage <- [r \in Requests |-> Stage(r)]
ImplementsReply == Reply!Spec

\* "Track agent streams by agent ID for message routing" (agent_service.go:241):
\* while the handler of a connected agent runs, messages reach its stream.
ConnectedIsReachable ==
    \A x \in Streams :
        agent[x].pc \in {"recv", "answer"} /\ x \notin gone
            => agentStreams[AgentOf[x]] = x

\* Timers, answers and the end of streams race for a route, and still each request is
\* answered once at most, in its session, every route can time out, and no send lock is
\* left held (agent_service.go:346, 365, 432, 1064).
RoutingSafe ==
    /\ TypeOK
    /\ AnsweredOnce
    /\ AnswersStayInSession
    /\ RoutesAreTimed
    /\ LockHasSender
=============================================================================
