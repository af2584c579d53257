---------------------------- MODULE RoutingProofs ----------------------------
(***************************************************************************)
(* Proofs about AgentRouting, for any number of requests, sessions, agents *)
(* and streams, about WorkerExecutor and WorkerAgent, for any number of    *)
(* calls, connections and IDs and any limit of attempts, and about the     *)
(* delegations of AnswerParts, for any number of tool calls.               *)
(***************************************************************************)
EXTENDS MCAgents, AnswerParts, SequenceTheorems, TLAPS

\* What the handlers rely on about a request: who asked is recorded before its
\* route and its timer exist, and stays; a lock is only sought on a stream that
\* was found.
Known ==
    /\ \A s \in Sessions : client[s].pc \in {"lock", "send"} => client[s].seen \in Streams
    /\ \A s \in Sessions : client[s].pc # "recv" => asker[client[s].cur] = s
    /\ \A s \in Sessions : client[s].pc = "store" => timer[client[s].cur] = "none"
    /\ \A r \in Requests : timer[r] # "none" => asker[r] \in Sessions
    /\ \A r \in Requests : asker[r] # None => target[r] \in Agents
    /\ \A x \in Streams : agent[x].pc = "answer" => agent[x].to = asker[agent[x].cur]

\* No handler has taken an answer to the request.
Untouched(r) == \A x \in Streams : agent[x].cur # r

\* No session was told how the request ended.
Silent(r) == \A s \in Sessions : Outcomes(s, r) = {}

\* The one who may still speak for a request: the pending route, a handler that
\* took it out, or the callback that did.
OneSpeaker ==
    \A r \in Requests :
        /\ r \in pending \/ timer[r] \in {"none", "taken"} => Untouched(r) /\ Silent(r)
        /\ \A x \in Streams : agent[x].cur = r =>
              Silent(r) /\ \A y \in Streams : agent[y].cur = r => y = x

IInv == TypeOK /\ Known /\ RoutesAreTimed /\ OneSpeaker /\ AnsweredOnce
            /\ AnswersStayInSession /\ LockHasSender

-----------------------------------------------------------------------------
\* A handler that works on a request holds one, and its stream if it has one.
LEMMA AtWork ==
    ASSUME TypeOK, NEW s \in Sessions, client[s].pc # "recv"
    PROVE  /\ client[s].pc \in Working
           /\ client[s].cur \in Requests
           /\ client[s].seen \in Streams \cup {None}
<1>1. client[s] \in {Idle} \cup [pc : Working, cur : Requests, seen : Streams \cup {None}]
  BY DEF TypeOK
<1>2. client[s] # Idle
  BY DEF Idle
<1> QED BY <1>1, <1>2

\* A handler that took an answer holds the request and its session.
LEMMA AtAnswer ==
    ASSUME TypeOK, NEW x \in Streams, agent[x].pc = "answer"
    PROVE  agent[x].cur \in Requests /\ agent[x].to \in Sessions
<1>1. agent[x] \in {Unused, Listening, Ended} \cup [pc : {"answer"}, cur : Requests, to : Sessions]
  BY DEF TypeOK
<1>2. agent[x] \notin {Unused, Listening, Ended}
  BY DEF Unused, Listening, Ended
<1> QED BY <1>1, <1>2

\* Who asked, and whom, is known of the request at hand.
LEMMA Addressee ==
    ASSUME TypeOK, Known, NEW s \in Sessions, client[s].pc # "recv"
    PROVE  asker[client[s].cur] = s /\ target[client[s].cur] \in Agents
<1>1. client[s].cur \in Requests /\ asker[client[s].cur] = s
  BY AtWork DEF Known
<1>2. s # None
  BY RoutingAssumption
<1> QED BY <1>1, <1>2 DEF Known

\* Going on with a request keeps the handlers well formed.
LEMMA GoToTyped ==
    ASSUME TypeOK, NEW s \in Sessions, client[s].pc # "recv", NEW pc \in Working,
           NEW x \in Streams \cup {None}, GoTo(s, pc, x)
    PROVE  client' \in [Sessions -> {Idle}
              \cup [pc : Working, cur : Requests, seen : Streams \cup {None}]]
  BY AtWork DEF TypeOK, GoTo

\* Adding an entry keeps the conversations sequences of entries.
LEMMA SayTyped ==
    ASSUME TypeOK, NEW s \in Sessions, NEW r \in Requests,
           NEW kind \in {"user", "answer", "timeout"}, Say(s, kind, r)
    PROVE  conversation' \in [Sessions -> Seq(Entry)]
<1>1. conversation \in [Sessions -> Seq(Entry)] /\ <<kind, r>> \in Entry
  BY DEF TypeOK, Entry
<1>2. Append(conversation[s], <<kind, r>>) \in Seq(Entry)
  BY <1>1
<1> QED BY <1>1, <1>2 DEF Say

\* Every step preserves the types of the variables.
LEMMA TypeStep == TypeOK /\ Known /\ RoutesAreTimed /\ [Next]_vars => TypeOK'
<1> SUFFICES ASSUME TypeOK /\ Known /\ RoutesAreTimed, [Next]_vars PROVE TypeOK'
  OBVIOUS
<1> USE RoutingAssumption
    DEF TypeOK, Known, Idle, Unused, Listening, Ended,
        GoTo, Working, Entry, streamVars, routeVars, requestVars
<1>1. ASSUME NEW a \in Agents, Register(a)
      PROVE  TypeOK'
  BY <1>1 DEF Register
<1>2. ASSUME NEW a \in Agents, Unregister(a)
      PROVE  TypeOK'
  BY <1>2 DEF Unregister
<1>3. ASSUME NEW x \in Streams, Establish(x)
      PROVE  TypeOK'
  BY <1>3 DEF Establish
<1>4. ASSUME NEW x \in Streams, Disconnect(x)
      PROVE  TypeOK'
  BY <1>4 DEF Disconnect
<1>5. ASSUME NEW x \in Streams, EndStream(x)
      PROVE  TypeOK'
  BY <1>5 DEF EndStream, ClearPending, Routed
<1>6. ASSUME NEW x \in Streams, AddResponse(x)
      PROVE  TypeOK'
  <2>1. conversation' \in [Sessions -> Seq(Entry)]
    BY <1>6, AtAnswer, SayTyped DEF AddResponse
  <2> QED BY <1>6, <2>1 DEF AddResponse
<1>7. ASSUME NEW s \in Sessions, Store(s)
      PROVE  TypeOK'
  BY <1>7 DEF Store
<1>8. ASSUME NEW s \in Sessions, Lookup(s)
      PROVE  TypeOK'
  <2>1. client[s].cur \in Requests
    BY <1>8, AtWork DEF Lookup
  <2>2. target[client[s].cur] \in Agents
    BY <1>8, Addressee DEF Lookup
  <2>3. agentStreams[target[client[s].cur]] \in Streams \cup {None}
    BY <2>2
  <2>4. QED BY <1>8, <2>1, <2>3 DEF Lookup
<1>9. ASSUME NEW s \in Sessions, Lock(s)
      PROVE  TypeOK'
  <2>1. client[s].cur \in Requests /\ client[s].seen \in Streams \cup {None}
    BY <1>9, AtWork DEF Lock
  <2>2. client' \in [Sessions -> {Idle}
                     \cup [pc : Working, cur : Requests, seen : Streams \cup {None}]]
    BY <1>9, <2>1 DEF Lock
  <2>3. sendLock' \in [Streams -> Sessions \cup {None}]
    BY <1>9 DEF Lock
  <2>4. QED BY <1>9, <2>2, <2>3 DEF Lock
<1>10. ASSUME NEW s \in Sessions, Send(s)
      PROVE  TypeOK'
  <2>1. client[s].cur \in Requests /\ client[s].seen \in Streams \cup {None}
    BY <1>10, AtWork DEF Send
  <2>2. client' \in [Sessions -> {Idle}
                     \cup [pc : Working, cur : Requests, seen : Streams \cup {None}]]
    BY <1>10, <2>1, GoToTyped DEF Send
  <2>3. sendLock' \in [Streams -> Sessions \cup {None}]
    BY <1>10 DEF Send
  <2>4. held' \in [Agents -> SUBSET Requests]
    <3>1. AgentOf[client[s].seen] \in Agents
      BY <1>10 DEF Send
    <3>2. held[AgentOf[client[s].seen]] \cup {client[s].cur} \in SUBSET Requests
      BY <2>1, <3>1
    <3> QED BY <1>10, <3>2 DEF Send
  <2>5. QED BY <1>10, <2>2, <2>3, <2>4 DEF Send
<1>11. ASSUME NEW s \in Sessions, RouteFails(s)
      PROVE  TypeOK'
  BY <1>11 DEF RouteFails, ClearPending
<1>12. ASSUME NEW s \in Sessions, AddMessage(s)
      PROVE  TypeOK'
  <2>1. conversation' \in [Sessions -> Seq(Entry)]
    BY <1>12, AtWork, SayTyped DEF AddMessage
  <2> QED BY <1>12, <2>1 DEF AddMessage
<1>13. ASSUME NEW s \in Sessions, NEW r \in Requests, Receive(s, r)
      PROVE  TypeOK'
  BY <1>13 DEF Receive, Candidates
<1>14. ASSUME NEW x \in Streams, NEW r \in Requests,
             NEW claimed \in Sessions \cup {None}, NEW data \in BOOLEAN,
             TakeResponse(x, r, claimed, data)
      PROVE  TypeOK'
  <2>1. asker[r] \in Sessions
    BY <1>14 DEF TakeResponse, RoutesAreTimed
  <2>2. agent' \in [Streams -> {Unused, Listening, Ended}
                       \cup [pc : {"answer"}, cur : Requests, to : Sessions]]
    BY <1>14, <2>1 DEF TakeResponse
  <2> QED BY <1>14, <2>2 DEF TakeResponse, ClearPending
<1>15. ASSUME NEW r \in Requests, Fire(r)
      PROVE  TypeOK'
  BY <1>15 DEF Fire
<1>16. ASSUME NEW r \in Requests, Expire(r)
      PROVE  TypeOK'
  BY <1>16 DEF Expire
<1>17. ASSUME NEW r \in Requests, AddTimeout(r)
      PROVE  TypeOK'
  <2>1. conversation' \in [Sessions -> Seq(Entry)]
    BY <1>17, SayTyped DEF AddTimeout
  <2> QED BY <1>17, <2>1 DEF AddTimeout
<1>18. CASE UNCHANGED vars
  BY <1>18 DEF vars
<1> HIDE DEF TypeOK
<1> QED
  BY <1>1, <1>2, <1>3, <1>4, <1>5, <1>6, <1>7, <1>8, <1>9, <1>10, <1>11, <1>12,
     <1>13, <1>14, <1>15, <1>16, <1>17, <1>18
  DEF Next

\* What is known of a request stays known.
LEMMA KnownStep == TypeOK /\ Known /\ RoutesAreTimed /\ [Next]_vars => Known'
<1> SUFFICES ASSUME TypeOK /\ Known /\ RoutesAreTimed, [Next]_vars PROVE Known'
  OBVIOUS
<1> USE RoutingAssumption
    DEF TypeOK, Known, RoutesAreTimed, Idle, Unused, Listening, Ended,
        GoTo, Working, streamVars, routeVars, requestVars
<1>1. ASSUME NEW a \in Agents, Register(a)
      PROVE  Known'
  BY <1>1 DEF Register
<1>2. ASSUME NEW a \in Agents, Unregister(a)
      PROVE  Known'
  BY <1>2 DEF Unregister
<1>3. ASSUME NEW x \in Streams, Establish(x)
      PROVE  Known'
  BY <1>3 DEF Establish
<1>4. ASSUME NEW x \in Streams, Disconnect(x)
      PROVE  Known'
  BY <1>4 DEF Disconnect
<1>5. ASSUME NEW x \in Streams, EndStream(x)
      PROVE  Known'
  BY <1>5 DEF EndStream, ClearPending, Routed
<1>6. ASSUME NEW x \in Streams, AddResponse(x)
      PROVE  Known'
  BY <1>6 DEF AddResponse, Say
<1>7. ASSUME NEW s \in Sessions, Store(s)
      PROVE  Known'
  BY <1>7 DEF Store
<1>8. ASSUME NEW s \in Sessions, Lookup(s)
      PROVE  Known'
  <2>1. agentStreams[target[client[s].cur]] \in Streams \cup {None}
    BY <1>8, Addressee DEF Lookup
  <2> QED BY <1>8, <2>1 DEF Lookup
<1>9. ASSUME NEW s \in Sessions, Lock(s)
      PROVE  Known'
  BY <1>9 DEF Lock
<1>10. ASSUME NEW s \in Sessions, Send(s)
      PROVE  Known'
  <2>1. PICK pc \in {"fail", "add"} : GoTo(s, pc, client[s].seen)
    BY <1>10 DEF Send
  <2> QED BY <1>10, <2>1 DEF Send
<1>11. ASSUME NEW s \in Sessions, RouteFails(s)
      PROVE  Known'
  BY <1>11 DEF RouteFails, ClearPending
<1>12. ASSUME NEW s \in Sessions, AddMessage(s)
      PROVE  Known'
  BY <1>12 DEF AddMessage, Say
<1>13. ASSUME NEW s \in Sessions, NEW r \in Requests, Receive(s, r)
      PROVE  Known'
  <2>1. asker[r] = None /\ asker' = [asker EXCEPT ![r] = s] /\ timer' = timer
    BY <1>13 DEF Receive
  <2>2. timer[r] = "none"
    BY <2>1
  <2>3. \A z \in Sessions : client'[z].pc # "recv" => asker'[client'[z].cur] = z
    BY <1>13, <2>1, AtWork DEF Receive
  <2>4. \A z \in Sessions : client'[z].pc = "store" => timer'[client'[z].cur] = "none"
    BY <1>13, <2>1, <2>2 DEF Receive
  <2>5. \A q \in Requests : timer'[q] # "none" => asker'[q] \in Sessions
    BY <2>1
  <2>6. \A q \in Requests : asker'[q] # None => target'[q] \in Agents
    BY <1>13, <2>1 DEF Receive, Candidates
  <2>7. \A x \in Streams : agent'[x].pc = "answer" => agent'[x].to = asker'[agent'[x].cur]
    BY <1>13, <2>1, AtAnswer DEF Receive
  <2>8. \A z \in Sessions : client'[z].pc \in {"lock", "send"} => client'[z].seen \in Streams
    BY <1>13 DEF Receive
  <2> QED BY <2>3, <2>4, <2>5, <2>6, <2>7, <2>8
<1>14. ASSUME NEW x \in Streams, NEW r \in Requests,
             NEW claimed \in Sessions \cup {None}, NEW data \in BOOLEAN, TakeResponse(x, r, claimed, data)
      PROVE  Known'
  BY <1>14 DEF TakeResponse, ClearPending
<1>15. ASSUME NEW r \in Requests, Fire(r)
      PROVE  Known'
  BY <1>15 DEF Fire
<1>16. ASSUME NEW r \in Requests, Expire(r)
      PROVE  Known'
  BY <1>16 DEF Expire
<1>17. ASSUME NEW r \in Requests, AddTimeout(r)
      PROVE  Known'
  BY <1>17 DEF AddTimeout, Say
<1>18. CASE UNCHANGED vars
  BY <1>18 DEF vars
<1> QED
  BY <1>1, <1>2, <1>3, <1>4, <1>5, <1>6, <1>7, <1>8, <1>9, <1>10, <1>11, <1>12,
     <1>13, <1>14, <1>15, <1>16, <1>17, <1>18
  DEF Next

\* Routes and timers come and go together.
LEMMA TimedStep == TypeOK /\ Known /\ RoutesAreTimed /\ [Next]_vars => RoutesAreTimed'
<1> SUFFICES ASSUME TypeOK /\ Known /\ RoutesAreTimed, [Next]_vars PROVE RoutesAreTimed'
  OBVIOUS
<1> USE RoutingAssumption
    DEF TypeOK, Known, RoutesAreTimed, streamVars, routeVars, requestVars
<1>1. ASSUME NEW a \in Agents, Register(a)
      PROVE  RoutesAreTimed'
  BY <1>1 DEF Register
<1>2. ASSUME NEW a \in Agents, Unregister(a)
      PROVE  RoutesAreTimed'
  BY <1>2 DEF Unregister
<1>3. ASSUME NEW x \in Streams, Establish(x)
      PROVE  RoutesAreTimed'
  BY <1>3 DEF Establish
<1>4. ASSUME NEW x \in Streams, Disconnect(x)
      PROVE  RoutesAreTimed'
  BY <1>4 DEF Disconnect
<1>5. ASSUME NEW x \in Streams, EndStream(x)
      PROVE  RoutesAreTimed'
  BY <1>5 DEF EndStream, ClearPending, Routed
<1>6. ASSUME NEW x \in Streams, AddResponse(x)
      PROVE  RoutesAreTimed'
  BY <1>6 DEF AddResponse, Say
<1>7. ASSUME NEW s \in Sessions, Store(s)
      PROVE  RoutesAreTimed'
  BY <1>7, AtWork DEF Store
<1>8. ASSUME NEW s \in Sessions, Lookup(s)
      PROVE  RoutesAreTimed'
  BY <1>8 DEF Lookup
<1>9. ASSUME NEW s \in Sessions, Lock(s)
      PROVE  RoutesAreTimed'
  BY <1>9 DEF Lock
<1>10. ASSUME NEW s \in Sessions, Send(s)
      PROVE  RoutesAreTimed'
  BY <1>10 DEF Send
<1>11. ASSUME NEW s \in Sessions, RouteFails(s)
      PROVE  RoutesAreTimed'
  BY <1>11 DEF RouteFails, ClearPending
<1>12. ASSUME NEW s \in Sessions, AddMessage(s)
      PROVE  RoutesAreTimed'
  BY <1>12 DEF AddMessage, Say
<1>13. ASSUME NEW s \in Sessions, NEW r \in Requests, Receive(s, r)
      PROVE  RoutesAreTimed'
  BY <1>13 DEF Receive, Candidates
<1>14. ASSUME NEW x \in Streams, NEW r \in Requests,
             NEW claimed \in Sessions \cup {None}, NEW data \in BOOLEAN, TakeResponse(x, r, claimed, data)
      PROVE  RoutesAreTimed'
  BY <1>14 DEF TakeResponse, ClearPending
<1>15. ASSUME NEW r \in Requests, Fire(r)
      PROVE  RoutesAreTimed'
  BY <1>15 DEF Fire
<1>16. ASSUME NEW r \in Requests, Expire(r)
      PROVE  RoutesAreTimed'
  BY <1>16 DEF Expire
<1>17. ASSUME NEW r \in Requests, AddTimeout(r)
      PROVE  RoutesAreTimed'
  BY <1>17 DEF AddTimeout, Say
<1>18. CASE UNCHANGED vars
  BY <1>18 DEF vars
<1> QED
  BY <1>1, <1>2, <1>3, <1>4, <1>5, <1>6, <1>7, <1>8, <1>9, <1>10, <1>11, <1>12,
     <1>13, <1>14, <1>15, <1>16, <1>17, <1>18
  DEF Next

\* A lock is held by the handler that sends, and only then.
LEMMA LockStep == TypeOK /\ LockHasSender /\ [Next]_vars => LockHasSender'
<1> SUFFICES ASSUME TypeOK /\ LockHasSender, [Next]_vars PROVE LockHasSender'
  OBVIOUS
<1> USE RoutingAssumption
    DEF TypeOK, LockHasSender, Idle, Unused, Listening, Ended,
        GoTo, Working, streamVars, routeVars, requestVars
<1>1. ASSUME NEW a \in Agents, Register(a)
      PROVE  LockHasSender'
  BY <1>1 DEF Register
<1>2. ASSUME NEW a \in Agents, Unregister(a)
      PROVE  LockHasSender'
  BY <1>2 DEF Unregister
<1>3. ASSUME NEW x \in Streams, Establish(x)
      PROVE  LockHasSender'
  BY <1>3 DEF Establish
<1>4. ASSUME NEW x \in Streams, Disconnect(x)
      PROVE  LockHasSender'
  BY <1>4 DEF Disconnect
<1>5. ASSUME NEW x \in Streams, EndStream(x)
      PROVE  LockHasSender'
  BY <1>5 DEF EndStream, ClearPending, Routed
<1>6. ASSUME NEW x \in Streams, AddResponse(x)
      PROVE  LockHasSender'
  BY <1>6 DEF AddResponse, Say
<1>7. ASSUME NEW s \in Sessions, Store(s)
      PROVE  LockHasSender'
  BY <1>7 DEF Store
<1>8. ASSUME NEW s \in Sessions, Lookup(s)
      PROVE  LockHasSender'
  BY <1>8 DEF Lookup
<1>9. ASSUME NEW s \in Sessions, Lock(s)
      PROVE  LockHasSender'
  BY <1>9 DEF Lock
<1>10. ASSUME NEW s \in Sessions, Send(s)
      PROVE  LockHasSender'
  BY <1>10 DEF Send
<1>11. ASSUME NEW s \in Sessions, RouteFails(s)
      PROVE  LockHasSender'
  BY <1>11 DEF RouteFails, ClearPending
<1>12. ASSUME NEW s \in Sessions, AddMessage(s)
      PROVE  LockHasSender'
  BY <1>12 DEF AddMessage, Say
<1>13. ASSUME NEW s \in Sessions, NEW r \in Requests, Receive(s, r)
      PROVE  LockHasSender'
  BY <1>13 DEF Receive, Candidates
<1>14. ASSUME NEW x \in Streams, NEW r \in Requests,
             NEW claimed \in Sessions \cup {None}, NEW data \in BOOLEAN, TakeResponse(x, r, claimed, data)
      PROVE  LockHasSender'
  BY <1>14 DEF TakeResponse, ClearPending
<1>15. ASSUME NEW r \in Requests, Fire(r)
      PROVE  LockHasSender'
  BY <1>15 DEF Fire
<1>16. ASSUME NEW r \in Requests, Expire(r)
      PROVE  LockHasSender'
  BY <1>16 DEF Expire
<1>17. ASSUME NEW r \in Requests, AddTimeout(r)
      PROVE  LockHasSender'
  BY <1>17 DEF AddTimeout, Say
<1>18. CASE UNCHANGED vars
  BY <1>18 DEF vars
<1> QED
  BY <1>1, <1>2, <1>3, <1>4, <1>5, <1>6, <1>7, <1>8, <1>9, <1>10, <1>11, <1>12,
     <1>13, <1>14, <1>15, <1>16, <1>17, <1>18
  DEF Next

-----------------------------------------------------------------------------
\* Adding an answer or a timeout message to a session makes it the last outcome
\* of its request there; nothing else counts as an outcome.
LEMMA SayOutcome ==
    ASSUME TypeOK, NEW s \in Sessions, NEW r \in Requests,
           NEW kind \in {"user", "answer", "timeout"}, Say(s, kind, r)
    PROVE  \A z \in Sessions, q \in Requests :
               Outcomes(z, q)' = IF z = s /\ q = r /\ kind # "user"
                                 THEN Outcomes(z, q) \cup {Len(conversation[z]) + 1}
                                 ELSE Outcomes(z, q)
<1> TAKE z \in Sessions, q \in Requests
<1>1. CASE z # s
  BY <1>1 DEF TypeOK, Say, Outcomes
<1>2. CASE z = s
  <2> DEFINE c == conversation[s]
             d == conversation'[s]
             n == Len(c)
             wanted == {<<"answer", q>>, <<"timeout", q>>}
  <2>1. c \in Seq(Entry) /\ <<kind, r>> \in Entry
    BY DEF TypeOK, Entry
  <2>2. d = Append(c, <<kind, r>>)
    BY DEF TypeOK, Say
  <2>3. /\ n \in Nat /\ Len(d) = n + 1
        /\ \A i \in 1..n : d[i] = c[i]
        /\ d[n + 1] = <<kind, r>>
    BY <2>1, <2>2
  <2>4. <<kind, r>> \in wanted <=> q = r /\ kind # "user"
    OBVIOUS
  <2> HIDE DEF c, d, n, wanted
  <2>5. {i \in 1..(n + 1) : d[i] \in wanted}
          = {i \in 1..n : c[i] \in wanted} \cup {i \in {n + 1} : d[i] \in wanted}
    BY <2>3
  <2>6. {i \in {n + 1} : d[i] \in wanted} = IF q = r /\ kind # "user" THEN {n + 1} ELSE {}
    BY <2>3, <2>4
  <2> QED BY <1>2, <2>3, <2>5, <2>6 DEF Outcomes, c, d, n, wanted
<1> QED BY <1>1, <1>2

\* Answers and timeouts reach the session that asked.
LEMMA SessionStep ==
    TypeOK /\ Known /\ RoutesAreTimed /\ AnswersStayInSession /\ [Next]_vars
        => AnswersStayInSession'
<1> SUFFICES ASSUME TypeOK, Known, RoutesAreTimed, AnswersStayInSession, [Next]_vars
             PROVE  AnswersStayInSession'
  OBVIOUS
<1>1. ASSUME UNCHANGED <<conversation, asker>> PROVE AnswersStayInSession'
  BY <1>1 DEF AnswersStayInSession, Outcomes
<1>2. ASSUME NEW x \in Streams, AddResponse(x) PROVE AnswersStayInSession'
  <2> DEFINE r == agent[x].cur
  <2>1. r \in Requests /\ agent[x].to \in Sessions /\ agent[x].to = asker[r]
    BY <1>2, AtAnswer DEF AddResponse, Known
  <2>2. Say(agent[x].to, "answer", r) /\ asker' = asker
    BY <1>2 DEF AddResponse, requestVars
  <2> HIDE DEF r
  <2> QED BY <2>1, <2>2, SayOutcome DEF AnswersStayInSession
<1>3. ASSUME NEW r \in Requests, AddTimeout(r) PROVE AnswersStayInSession'
  <2>1. asker[r] \in Sessions
    BY <1>3 DEF AddTimeout, Known
  <2>2. Say(asker[r], "timeout", r) /\ asker' = asker
    BY <1>3 DEF AddTimeout, requestVars
  <2> QED BY <2>1, <2>2, SayOutcome DEF AnswersStayInSession
<1>4. ASSUME NEW s \in Sessions, AddMessage(s) PROVE AnswersStayInSession'
  <2>1. Say(s, "user", client[s].cur) /\ asker' = asker /\ client[s].cur \in Requests
    BY <1>4, AtWork DEF AddMessage, requestVars
  <2> QED BY <2>1, SayOutcome DEF AnswersStayInSession
<1>5. ASSUME NEW s \in Sessions, NEW r \in Requests, Receive(s, r)
      PROVE  AnswersStayInSession'
  <2>1. asker[r] = None /\ asker' = [asker EXCEPT ![r] = s] /\ conversation' = conversation
    BY <1>5 DEF Receive
  <2>2. \A z \in Sessions : Outcomes(z, r) = {}
    BY <2>1, RoutingAssumption DEF AnswersStayInSession
  <2>3. \A z \in Sessions, q \in Requests : Outcomes(z, q)' = Outcomes(z, q)
    BY <2>1 DEF Outcomes
  <2> QED BY <2>1, <2>2, <2>3 DEF AnswersStayInSession, TypeOK
<1> QED
  BY <1>1, <1>2, <1>3, <1>4, <1>5
  DEF Next, vars, Register, Unregister, Establish, Disconnect, EndStream, Store, Lookup,
      Lock, Send, RouteFails, TakeResponse, Fire, Expire, requestVars

-----------------------------------------------------------------------------
\* A step that says nothing, in which no handler takes an answer, no route
\* appears for a request that ended, and no timer forgets that it is over, adds
\* no speaker.
LEMMA Quiet ==
    ASSUME TypeOK, OneSpeaker, AnsweredOnce, UNCHANGED conversation,
           \A x \in Streams : agent'[x].cur \in {agent[x].cur, None},
           \A r \in Requests : r \in pending' \/ timer'[r] \in {"none", "taken"}
                                 => r \in pending \/ timer[r] \in {"none", "taken"}
    PROVE  OneSpeaker' /\ AnsweredOnce'
<1>1. \A s \in Sessions, r \in Requests : Outcomes(s, r)' = Outcomes(s, r)
  BY DEF Outcomes
<1>2. \A r \in Requests : r # None
  BY RoutingAssumption
<1> QED BY <1>1, <1>2 DEF OneSpeaker, AnsweredOnce, Silent, Untouched

\* At any time one actor at most may still speak for a request, and once it has
\* spoken nobody may.
LEMMA SpeakerStep ==
    TypeOK /\ Known /\ RoutesAreTimed /\ OneSpeaker /\ AnsweredOnce /\ [Next]_vars
        => OneSpeaker' /\ AnsweredOnce'
<1> SUFFICES ASSUME TypeOK, Known, RoutesAreTimed, OneSpeaker, AnsweredOnce, [Next]_vars
             PROVE  OneSpeaker' /\ AnsweredOnce'
  OBVIOUS
<1>n. None \notin Requests
  BY RoutingAssumption
<1>1. ASSUME UNCHANGED <<pending, timer, agent, conversation>>
      PROVE  OneSpeaker' /\ AnsweredOnce'
  BY <1>1, Quiet
<1>2. ASSUME NEW x \in Streams, Establish(x) PROVE OneSpeaker' /\ AnsweredOnce'
  BY <1>2, Quiet DEF Establish, routeVars, TypeOK, Listening
<1>3. ASSUME NEW x \in Streams, EndStream(x) PROVE OneSpeaker' /\ AnsweredOnce'
  BY <1>3, Quiet DEF EndStream, ClearPending, TypeOK, Ended
<1>4. ASSUME NEW s \in Sessions, Store(s) PROVE OneSpeaker' /\ AnsweredOnce'
  BY <1>4, Quiet, AtWork DEF Store, TypeOK, Known
<1>5. ASSUME NEW s \in Sessions, RouteFails(s) PROVE OneSpeaker' /\ AnsweredOnce'
  BY <1>5, Quiet DEF RouteFails, ClearPending, TypeOK
<1>6. ASSUME NEW s \in Sessions, AddMessage(s) PROVE OneSpeaker' /\ AnsweredOnce'
  <2>1. Say(s, "user", client[s].cur) /\ client[s].cur \in Requests
    BY <1>6, AtWork DEF AddMessage
  <2>2. \A z \in Sessions, q \in Requests : Outcomes(z, q)' = Outcomes(z, q)
    BY <2>1, SayOutcome
  <2> QED BY <1>6, <2>2 DEF AddMessage, routeVars, OneSpeaker, AnsweredOnce, Silent, Untouched
<1>7. ASSUME NEW x \in Streams, NEW r \in Requests, NEW claimed \in Sessions \cup {None},
             NEW data \in BOOLEAN, TakeResponse(x, r, claimed, data)
      PROVE  OneSpeaker' /\ AnsweredOnce'
  <2>1. r \in pending /\ r \in pendingTimers /\ timer[r] \in {"armed", "fired"}
    BY <1>7 DEF TakeResponse, RoutesAreTimed
  <2>2. Untouched(r) /\ Silent(r)
    BY <2>1 DEF OneSpeaker
  <2>3. r \notin pending' /\ timer'[r] \notin {"none", "taken"}
    BY <1>7, <2>1 DEF TakeResponse, ClearPending
  <2>4. \A q \in Requests : q \in pending' \/ timer'[q] \in {"none", "taken"}
                              => q # r /\ (q \in pending \/ timer[q] \in {"none", "taken"})
    BY <1>7, <2>3 DEF TakeResponse, ClearPending
  <2>5. \A y \in Streams : agent'[y] = agent[y] \/ (y = x /\ agent'[y].cur = r)
    <3>1. agent' = agent \/ agent' = [agent EXCEPT ![x] = [pc |-> "answer", cur |-> r, to |-> asker[r]]]
      BY <1>7 DEF TakeResponse
    <3>2. DOMAIN agent = Streams
      BY DEF TypeOK
    <3>3. ASSUME NEW y \in Streams, y # x PROVE agent'[y] = agent[y]
      BY <3>1, <3>2, <3>3
    <3>4. agent'[x] = agent[x] \/ agent'[x] = [pc |-> "answer", cur |-> r, to |-> asker[r]]
      BY <3>1, <3>2
    <3> QED BY <3>3, <3>4
  <2>6. \A s \in Sessions, q \in Requests : Outcomes(s, q)' = Outcomes(s, q)
    BY <1>7 DEF TakeResponse, Outcomes
  <2> QED BY <2>2, <2>4, <2>5, <2>6 DEF OneSpeaker, AnsweredOnce, Silent, Untouched
<1>8. ASSUME NEW x \in Streams, AddResponse(x) PROVE OneSpeaker' /\ AnsweredOnce'
  <2> DEFINE r == agent[x].cur
  <2>1. r \in Requests /\ agent[x].to \in Sessions /\ Say(agent[x].to, "answer", r)
    BY <1>8, AtAnswer DEF AddResponse
  <2>2. Silent(r) /\ \A y \in Streams : agent[y].cur = r => y = x
    BY <2>1 DEF OneSpeaker
  <2>3. r \notin pending /\ timer[r] \notin {"none", "taken"}
    BY <2>1 DEF OneSpeaker, Untouched
  <2>4. /\ pending' = pending /\ timer' = timer
        /\ \A y \in Streams : agent'[y].cur = IF y = x THEN None ELSE agent[y].cur
    BY <1>8 DEF AddResponse, routeVars, TypeOK, Listening
  <2>5. \A s \in Sessions, q \in Requests :
            Outcomes(s, q)' = IF s = agent[x].to /\ q = r
                              THEN Outcomes(s, q) \cup {Len(conversation[s]) + 1}
                              ELSE Outcomes(s, q)
    BY <2>1, SayOutcome
  <2> HIDE DEF r
  <2> QED BY <1>n, <2>1, <2>2, <2>3, <2>4, <2>5 DEF OneSpeaker, AnsweredOnce, Silent, Untouched
<1>9. ASSUME NEW r \in Requests, Fire(r) \/ Expire(r) PROVE OneSpeaker' /\ AnsweredOnce'
  BY <1>9, Quiet DEF Fire, Expire, TypeOK
<1>10. ASSUME NEW r \in Requests, AddTimeout(r) PROVE OneSpeaker' /\ AnsweredOnce'
  <2>1. asker[r] \in Sessions /\ Say(asker[r], "timeout", r) /\ timer[r] = "taken"
    BY <1>10 DEF AddTimeout, Known
  <2>2. Silent(r) /\ Untouched(r) /\ r \notin pending
    BY <2>1 DEF OneSpeaker, RoutesAreTimed
  <2>3. /\ pending' = pending /\ agent' = agent
        /\ \A q \in Requests : timer'[q] = IF q = r THEN "done" ELSE timer[q]
    BY <1>10 DEF AddTimeout, TypeOK
  <2>4. \A s \in Sessions, q \in Requests :
            Outcomes(s, q)' = IF s = asker[r] /\ q = r
                              THEN Outcomes(s, q) \cup {Len(conversation[s]) + 1}
                              ELSE Outcomes(s, q)
    BY <2>1, SayOutcome
  <2> QED BY <2>1, <2>2, <2>3, <2>4 DEF OneSpeaker, AnsweredOnce, Silent, Untouched
<1> QED
  BY <1>1, <1>2, <1>3, <1>4, <1>5, <1>6, <1>7, <1>8, <1>9, <1>10
  DEF Next, vars, Register, Unregister, Disconnect, Receive, Lookup, Lock, Send, routeVars

-----------------------------------------------------------------------------
\* Nothing was asked yet.
LEMMA InitHolds == Init => IInv
  BY RoutingAssumption
  DEF Init, IInv, TypeOK, Known, RoutesAreTimed, OneSpeaker, AnsweredOnce, Silent, Untouched,
      Outcomes, AnswersStayInSession, LockHasSender, Idle, Unused, Listening, Ended, Entry

\* The inductive invariant holds throughout.
LEMMA Invariance == Spec => []IInv
<1>1. IInv /\ [Next]_vars => IInv'
  BY TypeStep, KnownStep, TimedStep, LockStep, SessionStep, SpeakerStep DEF IInv
<1> QED BY <1>1, InitHolds, PTL DEF Spec

\* The tables, locks, handlers and timers keep their types, for any number of
\* requests, sessions, agents and streams (NewAgentService and every handler).
THEOREM RoutingTypes == Spec => []TypeOK
<1>1. IInv => TypeOK
  BY DEF IInv
<1> QED BY <1>1, Invariance, PTL

\* A request never gets a second answer or timeout message, whoever races for
\* its route (processAgentResponse, expirePendingResponse, StreamAgent).
THEOREM OutcomeOnce == Spec => []AnsweredOnce
<1>1. IInv => AnsweredOnce
  BY DEF IInv
<1> QED BY <1>1, Invariance, PTL

\* No answer or timeout message enters a session that did not ask
\* (processAgentResponse, expirePendingResponse).
THEOREM OutcomeInSession == Spec => []AnswersStayInSession
<1>1. IInv => AnswersStayInSession
  BY DEF IInv
<1> QED BY <1>1, Invariance, PTL

\* Every pending route has a live timer, and no timer is left without a route
\* (RouteMessageToAgent, clearPendingResponseLocked).
THEOREM RoutesTimed == Spec => []RoutesAreTimed
<1>1. IInv => RoutesAreTimed
  BY DEF IInv
<1> QED BY <1>1, Invariance, PTL

\* A send lock is held exactly while its handler sends on that stream
\* (sendToAgentStream).
THEOREM LockReleased == Spec => []LockHasSender
<1>1. IInv => LockHasSender
  BY DEF IInv
<1> QED BY <1>1, Invariance, PTL

\* The five together, which is what the routing owes to the sessions whatever
\* races for their routes (agent_service.go:346, 365, 432, 1064).
THEOREM RoutingCorrect == Spec => []RoutingSafe
<1>1. IInv => RoutingSafe
  BY DEF IInv, RoutingSafe
<1> QED BY <1>1, Invariance, PTL

-----------------------------------------------------------------------------
(* The routing tables implement RequestReply.                              *)

\* What decides the stage of a request that is not waiting.
Answered(r) ==
    \/ \E x \in Streams : agent[x].cur = r
    \/ \E s \in Sessions : <<"answer", r>> \in Said(s)

TimedOut(r) ==
    \/ timer[r] = "taken"
    \/ \E s \in Sessions : <<"timeout", r>> \in Said(s)

\* An entry of a session that tells of the end of a request is an outcome.
LEMMA SaidOutcome ==
    ASSUME NEW s \in Sessions, NEW r \in Requests,
           NEW kind \in {"answer", "timeout"}, <<kind, r>> \in Said(s)
    PROVE  \E i \in Outcomes(s, r) : conversation[s][i] = <<kind, r>>
  BY DEF Said, Outcomes

\* The stages exclude each other.
LEMMA StagesExclusive ==
    ASSUME IInv, NEW r \in Requests
    PROVE  /\ r \in pending \/ timer[r] = "none" => ~Answered(r) /\ ~TimedOut(r)
           /\ r \in pending => timer[r] # "none"
           /\ ~(Answered(r) /\ TimedOut(r))
<1> USE DEF IInv
<1>1. Silent(r) => \A s \in Sessions, kind \in {"answer", "timeout"} : <<kind, r>> \notin Said(s)
  BY SaidOutcome DEF Silent
<1>2. r \in pending => timer[r] \in {"armed", "fired"}
  BY DEF RoutesAreTimed
<1>3. r \in pending \/ timer[r] \in {"none", "taken"} => Untouched(r) /\ Silent(r)
  BY DEF OneSpeaker
<1>4. ~Untouched(r) => Silent(r)
  BY DEF OneSpeaker, Untouched
<1>5. ASSUME NEW s \in Sessions, NEW z \in Sessions,
             <<"answer", r>> \in Said(s), <<"timeout", r>> \in Said(z)
      PROVE  FALSE
  <2>1. PICK i \in Outcomes(s, r) : conversation[s][i] = <<"answer", r>>
    BY <1>5, SaidOutcome
  <2>2. PICK j \in Outcomes(z, r) : conversation[z][j] = <<"timeout", r>>
    BY <1>5, SaidOutcome
  <2> QED BY <2>1, <2>2 DEF AnsweredOnce
<1>6. ~(Answered(r) /\ TimedOut(r))
  BY <1>1, <1>3, <1>4, <1>5 DEF Answered, TimedOut, Untouched
<1> QED BY <1>1, <1>2, <1>3, <1>6 DEF Answered, TimedOut, Untouched

\* The stage of a request in terms of the tables.
StageOf(r) ==
    IF r \in pending THEN "waiting"
    ELSE IF Answered(r) THEN "answered"
    ELSE IF TimedOut(r) THEN "timedout"
    ELSE IF timer[r] = "none" THEN "new" ELSE "dropped"

\* Under the invariant the tables tell the stage.
LEMMA StageIs == IInv => \A r \in Requests : Stage(r) = StageOf(r)
<1> SUFFICES ASSUME IInv, NEW r \in Requests PROVE Stage(r) = StageOf(r)
  OBVIOUS
<1> QED BY StagesExclusive DEF Stage, StageOf, Answered, TimedOut

\* The same after a step.
LEMMA StageWillBe == IInv' => \A r \in Requests : Stage(r)' = StageOf(r)'
<1>1. (IInv => \A r \in Requests : Stage(r) = StageOf(r))'
  BY StageIs, PTL
<1> QED BY <1>1

\* A request none of whose tables change keeps its stage.
LEMMA StageSame ==
    ASSUME IInv, IInv', NEW r \in Requests,
           r \in pending' <=> r \in pending, timer'[r] = "none" <=> timer[r] = "none",
           Answered(r)' <=> Answered(r), TimedOut(r)' <=> TimedOut(r)
    PROVE  Stage(r)' = Stage(r)
  BY StageIs, StageWillBe DEF StageOf

\* What a session was told grows by the entry that is added.
LEMMA SaySaid ==
    ASSUME TypeOK, NEW s \in Sessions, NEW r \in Requests,
           NEW kind \in {"user", "answer", "timeout"}, Say(s, kind, r)
    PROVE  \A z \in Sessions :
               Said(z)' = IF z = s THEN Said(z) \cup {<<kind, r>>} ELSE Said(z)
<1> TAKE z \in Sessions
<1>1. CASE z # s
  BY <1>1 DEF TypeOK, Say, Said
<1>2. CASE z = s
  <2> DEFINE c == conversation[s]
             d == conversation'[s]
             n == Len(c)
  <2>1. c \in Seq(Entry) /\ <<kind, r>> \in Entry
    BY DEF TypeOK, Entry
  <2>2. d = Append(c, <<kind, r>>)
    BY DEF TypeOK, Say
  <2>3. /\ n \in Nat /\ Len(d) = n + 1
        /\ \A i \in 1..n : d[i] = c[i]
        /\ d[n + 1] = <<kind, r>>
    BY <2>1, <2>2
  <2> HIDE DEF c, d, n
  <2>4. 1..(n + 1) = 1..n \cup {n + 1}
    BY <2>3
  <2>5. {d[i] : i \in 1..(n + 1)} = {c[i] : i \in 1..n} \cup {<<kind, r>>}
    BY <2>3, <2>4
  <2> QED BY <1>2, <2>3, <2>5 DEF Said, c, d, n
<1> QED BY <1>1, <1>2

\* Whether a request is answered depends on what the handlers hold and the
\* sessions were told, whether it timed out on its timer instead.
LEMMA SameEnds ==
    ASSUME UNCHANGED conversation, \A x \in Streams : agent'[x].cur = agent[x].cur
    PROVE  \A r \in Requests :
              /\ Answered(r)' <=> Answered(r)
              /\ (timer'[r] = "taken" <=> timer[r] = "taken") => (TimedOut(r)' <=> TimedOut(r))
  BY DEF Answered, TimedOut, Said

\* A step that withdraws routes and does nothing else drops their requests.
LEMMA Withdraw ==
    ASSUME IInv, IInv', NEW R, ClearPending(R), UNCHANGED conversation,
           \A x \in Streams : agent'[x].cur = agent[x].cur
    PROVE  Reply!Next
<1> DEFINE D == R \cap pending
<1>t. TypeOK /\ RoutesAreTimed
  BY DEF IInv
<1>1. ASSUME NEW r \in Requests
      PROVE  /\ r \in pending' <=> (r \in pending /\ r \notin D)
             /\ timer'[r] = "none" <=> timer[r] = "none"
             /\ timer'[r] = "taken" <=> timer[r] = "taken"
  BY <1>t DEF ClearPending, TypeOK
<1>2. ASSUME NEW r \in Requests
      PROVE  (Answered(r)' <=> Answered(r)) /\ (TimedOut(r)' <=> TimedOut(r))
  BY <1>1, SameEnds
<1>3. ASSUME NEW r \in Requests, r \notin D PROVE Stage(r)' = Stage(r)
  BY <1>1, <1>2, <1>3, StageSame
<1>4. ASSUME NEW r \in D PROVE Stage(r) = "waiting" /\ Stage(r)' = "dropped"
  <2>1. r \in Requests /\ r \in pending
    BY <1>t DEF TypeOK
  <2>2. ~Answered(r) /\ ~TimedOut(r) /\ timer[r] # "none"
    BY <2>1, StagesExclusive
  <2>3. r \notin pending' /\ timer'[r] # "none" /\ ~Answered(r)' /\ ~TimedOut(r)'
    BY <1>1, <1>2, <2>1, <2>2
  <2> QED BY <2>1, <2>2, <2>3, StageIs, StageWillBe DEF StageOf
<1>5. D \in SUBSET Requests
  BY <1>t DEF TypeOK
<1> HIDE DEF D
<1>6. Reply!GiveUp(D)
  BY <1>3, <1>4, <1>5 DEF Reply!GiveUp
<1> QED BY <1>5, <1>6 DEF Reply!Next

\* A step that changes the stage of one request.
LEMMA OneMoves ==
    ASSUME NEW r \in Requests, \A q \in Requests : q # r => Stage(q)' = Stage(q),
           \/ Stage(r) = "new" /\ Stage(r)' = "waiting"
           \/ Stage(r) = "waiting" /\ Stage(r)' \in {"answered", "timedout"}
    PROVE  Reply!Next
<1>1. CASE Stage(r) = "new" /\ Stage(r)' = "waiting"
  <2>1. Reply!Ask(r)
    BY <1>1 DEF Reply!Ask
  <2> QED BY <2>1 DEF Reply!Next
<1>2. CASE Stage(r) = "waiting" /\ Stage(r)' \in {"answered", "timedout"}
  <2>1. Reply!Settle(r, Stage(r)')
    BY <1>2 DEF Reply!Settle
  <2> QED BY <1>2, <2>1 DEF Reply!Next
<1> QED BY <1>1, <1>2

\* A step that leaves every stage alone is a stutter of RequestReply.
LEMMA NoneMoves ==
    ASSUME IInv, IInv',
           \A r \in Requests :
              /\ r \in pending' <=> r \in pending
              /\ timer'[r] = "none" <=> timer[r] = "none"
              /\ Answered(r)' <=> Answered(r)
              /\ TimedOut(r)' <=> TimedOut(r)
    PROVE  UNCHANGED [r \in Requests |-> Stage(r)]
<1>1. \A r \in Requests : Stage(r)' = Stage(r)
  BY StageSame
<1> QED BY <1>1

\* Each step of the handlers and timers is a step of RequestReply or a stutter.
LEMMA ReplyStep ==
    IInv /\ IInv' /\ [Next]_vars => [Reply!Next]_([r \in Requests |-> Stage(r)])
<1> SUFFICES ASSUME IInv, IInv', [Next]_vars
             PROVE  Reply!Next \/ UNCHANGED [r \in Requests |-> Stage(r)]
  OBVIOUS
<1> DEFINE Same == UNCHANGED [r \in Requests |-> Stage(r)]
<1>t. TypeOK /\ Known /\ RoutesAreTimed /\ RoutesAreTimed'
  BY DEF IInv
<1>1. ASSUME UNCHANGED <<pending, timer, agent, conversation>> PROVE Same
  BY <1>1, SameEnds, NoneMoves
<1>2. ASSUME NEW x \in Streams, Establish(x) PROVE Same
  <2>1. \A y \in Streams : agent'[y].cur = agent[y].cur
    BY <1>2, <1>t DEF Establish, TypeOK, Unused, Listening, Ended
  <2> QED BY <1>2, <2>1, SameEnds, NoneMoves DEF Establish, routeVars
<1>3. ASSUME NEW x \in Streams, EndStream(x) PROVE Reply!Next
  <2>1. \A y \in Streams : agent'[y].cur = agent[y].cur
    BY <1>3, <1>t DEF EndStream, TypeOK, Unused, Listening, Ended
  <2> QED BY <1>3, <2>1, Withdraw DEF EndStream
<1>4. ASSUME NEW s \in Sessions, Store(s) PROVE Reply!Next
  <2>1. PICK r \in Requests : r = client[s].cur
    BY <1>4, <1>t, AtWork DEF Store
  <2>2. timer[r] = "none" /\ r \notin pending
    BY <1>4, <1>t, <2>1 DEF Store, Known, RoutesAreTimed
  <2>3. Stage(r) = "new"
    BY <2>2, StagesExclusive, StageIs DEF StageOf
  <2>4. Stage(r)' = "waiting"
    BY <1>4, <2>1, StageWillBe DEF Store, StageOf
  <2>5. ASSUME NEW q \in Requests, q # r PROVE Stage(q)' = Stage(q)
    BY <1>4, <1>t, <2>1, <2>5, SameEnds, StageSame DEF Store, TypeOK
  <2> QED BY <2>3, <2>4, <2>5, OneMoves
<1>5. ASSUME NEW s \in Sessions, RouteFails(s) PROVE Reply!Next
  BY <1>5, Withdraw DEF RouteFails
<1>6. ASSUME NEW s \in Sessions, AddMessage(s) PROVE Same
  <2>1. client[s].cur \in Requests /\ Say(s, "user", client[s].cur)
    BY <1>6, <1>t, AtWork DEF AddMessage
  <2>2. \A z \in Sessions, q \in Requests, kind \in {"answer", "timeout"} :
            <<kind, q>> \in Said(z)' <=> <<kind, q>> \in Said(z)
    BY <1>t, <2>1, SaySaid
  <2> QED BY <1>6, <2>2, NoneMoves DEF AddMessage, routeVars, Answered, TimedOut
<1>7. ASSUME NEW x \in Streams, NEW r \in Requests, NEW claimed \in Sessions \cup {None},
             NEW data \in BOOLEAN, TakeResponse(x, r, claimed, data)
      PROVE  Reply!Next
  <2>1. CASE agent' = agent
    BY <1>7, <2>1, Withdraw DEF TakeResponse
  <2>2. CASE agent' = [agent EXCEPT ![x] = [pc |-> "answer", cur |-> r, to |-> asker[r]]]
    <3>1. r \in pending /\ ClearPending({r}) /\ UNCHANGED conversation
      BY <1>7 DEF TakeResponse
    <3>2. /\ agent'[x].cur = r
          /\ \A y \in Streams : y # x => agent'[y].cur = agent[y].cur
      BY <1>t, <2>2 DEF TypeOK
    <3>3. agent[x].cur = None
      BY <1>7, <1>t DEF TakeResponse, TypeOK, Unused, Listening, Ended
    <3>4. r \notin pending' /\ Answered(r)'
      BY <3>1, <3>2 DEF ClearPending, Answered
    <3>5. Stage(r) = "waiting" /\ Stage(r)' = "answered"
      BY <3>1, <3>4, StageIs, StageWillBe DEF StageOf
    <3>6. ASSUME NEW q \in Requests, q # r PROVE Stage(q)' = Stage(q)
      <4>1. Answered(q)' <=> Answered(q)
        BY <3>1, <3>2, <3>3, <3>6, RoutingAssumption DEF Answered, Said
      <4>2. /\ q \in pending' <=> q \in pending
            /\ timer'[q] = "none" <=> timer[q] = "none"
            /\ timer'[q] = "taken" <=> timer[q] = "taken"
        BY <1>t, <3>1, <3>6 DEF ClearPending, TypeOK
      <4>3. TimedOut(q)' <=> TimedOut(q)
        BY <3>1, <4>2 DEF TimedOut, Said
      <4> QED BY <4>1, <4>2, <4>3, StageSame
    <3> QED BY <3>5, <3>6, OneMoves
  <2> QED BY <1>7, <2>1, <2>2 DEF TakeResponse
<1>8. ASSUME NEW x \in Streams, AddResponse(x) PROVE Same
  <2> DEFINE r == agent[x].cur
  <2>1. r \in Requests /\ agent[x].to \in Sessions /\ Say(agent[x].to, "answer", r)
    BY <1>8, <1>t, AtAnswer DEF AddResponse
  <2>2. \A y \in Streams : agent'[y].cur = IF y = x THEN None ELSE agent[y].cur
    BY <1>8, <1>t DEF AddResponse, TypeOK, Listening
  <2>3. \A z \in Sessions : Said(z)' = IF z = agent[x].to THEN Said(z) \cup {<<"answer", r>>} ELSE Said(z)
    BY <1>t, <2>1, SaySaid
  <2> HIDE DEF r
  <2>4. \A q \in Requests : Answered(q)' <=> Answered(q)
    BY <2>1, <2>2, <2>3, RoutingAssumption DEF Answered, r
  <2>5. \A q \in Requests : TimedOut(q)' <=> TimedOut(q)
    BY <1>8, <2>3 DEF AddResponse, routeVars, TimedOut
  <2> QED BY <1>8, <2>4, <2>5, NoneMoves DEF AddResponse, routeVars
<1>9. ASSUME NEW r \in Requests, Fire(r) PROVE Same
  <2>1. \A q \in Requests : /\ timer'[q] = "none" <=> timer[q] = "none"
                            /\ timer'[q] = "taken" <=> timer[q] = "taken"
    BY <1>9, <1>t DEF Fire, TypeOK
  <2> QED BY <1>9, <2>1, SameEnds, NoneMoves DEF Fire
<1>10. ASSUME NEW r \in Requests, Expire(r) PROVE Reply!Next \/ Same
  <2>1. \A q \in Requests \ {r} : /\ q \in pending' <=> q \in pending
                                  /\ timer'[q] = timer[q]
    BY <1>10, <1>t DEF Expire, TypeOK
  <2>2. \A q \in Requests : Answered(q)' <=> Answered(q)
    BY <1>10, SameEnds DEF Expire
  <2>3. \A q \in Requests \ {r} : TimedOut(q)' <=> TimedOut(q)
    BY <1>10, <2>1, SameEnds DEF Expire
  <2>4. CASE r \in pending
    <3>1. timer'[r] = "taken" /\ r \notin pending'
      BY <1>10, <1>t, <2>4 DEF Expire, TypeOK
    <3>2. ~Answered(r)' /\ TimedOut(r)'
      BY <2>2, <2>4, <3>1, StagesExclusive DEF TimedOut
    <3>3. Stage(r) = "waiting" /\ Stage(r)' = "timedout"
      BY <2>4, <3>1, <3>2, StageIs, StageWillBe DEF StageOf
    <3>4. ASSUME NEW q \in Requests, q # r PROVE Stage(q)' = Stage(q)
      BY <2>1, <2>2, <2>3, <3>4, StageSame
    <3> QED BY <3>3, <3>4, OneMoves
  <2>5. CASE r \notin pending
    <3>1. timer[r] = "fired" /\ timer'[r] = "done" /\ r \notin pending'
      BY <1>10, <1>t, <2>5 DEF Expire, TypeOK
    <3>2. TimedOut(r)' <=> TimedOut(r)
      BY <1>10, <3>1 DEF Expire, TimedOut, Said
    <3> QED BY <2>1, <2>2, <2>3, <2>5, <3>1, <3>2, NoneMoves
  <2> QED BY <2>4, <2>5
<1>11. ASSUME NEW r \in Requests, AddTimeout(r) PROVE Same
  <2>1. asker[r] \in Sessions /\ Say(asker[r], "timeout", r)
    BY <1>11, <1>t DEF AddTimeout, Known
  <2>2. \A z \in Sessions : Said(z)' = IF z = asker[r] THEN Said(z) \cup {<<"timeout", r>>} ELSE Said(z)
    BY <1>t, <2>1, SaySaid
  <2>3. timer[r] = "taken" /\ \A q \in Requests : timer'[q] = IF q = r THEN "done" ELSE timer[q]
    BY <1>11, <1>t DEF AddTimeout, TypeOK
  <2>4. \A q \in Requests : TimedOut(q)' <=> TimedOut(q)
    BY <2>1, <2>2, <2>3 DEF TimedOut
  <2>5. \A q \in Requests : Answered(q)' <=> Answered(q)
    BY <1>11, <2>2 DEF AddTimeout, Answered
  <2> QED BY <1>11, <2>3, <2>4, <2>5, NoneMoves DEF AddTimeout
<1> QED
  BY <1>1, <1>2, <1>3, <1>4, <1>5, <1>6, <1>7, <1>8, <1>9, <1>10, <1>11
  DEF Next, vars, Register, Unregister, Disconnect, Receive, Lookup, Lock, Send, routeVars

\* The routing of messages implements the abstract request: what a session sees
\* of a request is one wait and one outcome (RouteMessageToAgent,
\* processAgentResponse, expirePendingResponse, StreamAgent).
THEOREM Implements == Spec => ImplementsReply
<1>1. Init => Reply!Init
  <2> SUFFICES ASSUME Init PROVE Reply!Init
    OBVIOUS
  <2>1. IInv
    BY InitHolds
  <2>2. ASSUME NEW r \in Requests PROVE Stage(r) = "new"
    <3>1. r \notin pending /\ timer[r] = "none"
      BY DEF Init
    <3> QED BY <2>1, <3>1, StagesExclusive, StageIs DEF StageOf
  <2> QED BY <2>2 DEF Reply!Init
<1>2. IInv /\ IInv' /\ [Next]_vars => [Reply!Next]_([r \in Requests |-> Stage(r)])
  BY ReplyStep
<1> QED BY <1>1, <1>2, Invariance, PTL DEF Spec, ImplementsReply, Reply!Spec

-----------------------------------------------------------------------------
(* The tool containers of a worker.                                        *)

ExCalls == {"new", "create", "record", "start", "wait", "logs", "destroy", "untrack", "done"}
ExBoxes == {"none", "created", "running", "exited", "gone"}
ExCancels == [pc : {"none", "cancel", "stop", "remove", "done"}, force : BOOLEAN]

ExTypes ==
    /\ exClosed \in BOOLEAN
    /\ exRunning \subseteq Calls /\ exKnown \subseteq Calls /\ exCanceled \subseteq Calls
    /\ exCall \in [Calls -> ExCalls]
    /\ exResult \in [Calls -> {"none", "ok", "error"}]
    /\ exCancel \in [Calls -> ExCancels]
    /\ exBox \in [Calls -> ExBoxes]
    /\ exStray \subseteq Calls

\* How far a call and its cancellation got tells whether there is an entry, a result and,
\* outside the steps that work on it, a container.
ExCallOK(c) ==
    /\ c \in exRunning <=> exCall[c] \notin {"new", "done"} /\ exCancel[c].pc = "none"
    /\ exCall[c] = "new" => exCancel[c].pc = "none"
    /\ exCall[c] \in {"new", "create"} => exBox[c] = "none"
    /\ exCall[c] \in {"destroy", "untrack", "done"} => exResult[c] # "none"
    /\ exCall[c] \in {"untrack", "done"} /\ Present(c) => c \in exStray

\* The inductive invariant.
ExIInv == ExTypes /\ \A c \in Calls : ExCallOK(c)

\* What no step does.
ExKeeps ==
    /\ \A c \in Calls : Present(c) /\ exBox'[c] = "gone" => exCall'[c] # exCall[c] \/ exCancel'[c] # exCancel[c]
    /\ exClosed => \A c \in Calls : exCancel[c].pc = "none" => exCancel'[c].pc = "none"

\* A step that touches one call at most.
LEMMA ExOthers ==
    ASSUME ExIInv, NEW c \in Calls, ExTypes',
           \A d \in Calls \ {c} : /\ exCall'[d] = exCall[d] /\ exCancel'[d] = exCancel[d] /\ exBox'[d] = exBox[d]
                                  /\ exResult'[d] = exResult[d]
                                  /\ (d \in exRunning' <=> d \in exRunning) /\ (d \in exStray' <=> d \in exStray),
           ExCallOK(c)',
           Present(c) /\ exBox'[c] = "gone" => exCall'[c] # exCall[c] \/ exCancel'[c] # exCancel[c],
           exClosed /\ exCancel[c].pc = "none" => exCancel'[c].pc = "none"
    PROVE  ExIInv' /\ ExKeeps
<1>1. \A d \in Calls \ {c} : ExCallOK(d)'
  BY DEF ExIInv, ExCallOK, Present
<1>2. \A d \in Calls \ {c} : ~(Present(d) /\ exBox'[d] = "gone")
  BY DEF Present
<1> QED
  BY <1>1, <1>2 DEF ExIInv, ExKeeps

\* The steps of a call up to its container.
LEMMA ExBegins ==
    ASSUME ExIInv, NEW c \in Calls, BeginExecute(c) \/ CreateFails(c) \/ CreateBox(c) \/ RecordBox(c) \/ StartBox(c)
    PROVE  ExIInv' /\ ExKeeps
<1>1. ExTypes /\ ExCallOK(c)
  BY DEF ExIInv
<1>2. CASE BeginExecute(c)
  BY <1>1, <1>2, ExOthers DEF BeginExecute, Fails, Step, ExTypes, ExCalls, ExCallOK, Present
<1>3. CASE CreateFails(c)
  BY <1>1, <1>3, ExOthers DEF CreateFails, Fails, Step, ExTypes, ExCalls, ExBoxes, ExCallOK, Present
<1>4. CASE CreateBox(c)
  BY <1>1, <1>4, ExOthers DEF CreateBox, Step, ExTypes, ExCalls, ExBoxes, ExCallOK, Present
<1>5. CASE RecordBox(c)
  BY <1>1, <1>5, ExOthers DEF RecordBox, Step, ExTypes, ExCalls, ExCallOK, Present
<1>6. CASE StartBox(c)
  BY <1>1, <1>6, ExOthers DEF StartBox, Step, ExTypes, ExCalls, ExBoxes, ExCallOK, Present
<1> QED
  BY <1>2, <1>3, <1>4, <1>5, <1>6

\* The steps of a call from there to its end.
LEMMA ExEnds ==
    ASSUME ExIInv, NEW c \in Calls,
           StartBoxFails(c) \/ WaitReturns(c) \/ WaitFails(c) \/ ReadLogs(c) \/ DestroyBox(c) \/ Untrack(c)
    PROVE  ExIInv' /\ ExKeeps
<1>1. ExTypes /\ ExCallOK(c)
  BY DEF ExIInv
<1>2. CASE StartBoxFails(c) \/ WaitFails(c)
  BY <1>1, <1>2, ExOthers DEF StartBoxFails, WaitFails, Fails, Step, ExTypes, ExCalls, ExCallOK, Present
<1>3. CASE WaitReturns(c) \/ ReadLogs(c)
  BY <1>1, <1>3, ExOthers DEF WaitReturns, ReadLogs, Step, ExTypes, ExCalls, ExCallOK, Present
<1>4. CASE DestroyBox(c)
  BY <1>1, <1>4, ExOthers DEF DestroyBox, RemoveBox, Step, ExTypes, ExCalls, ExBoxes, ExCallOK, Present
<1>5. CASE Untrack(c)
  BY <1>1, <1>5, ExOthers DEF Untrack, Step, ExTypes, ExCalls, ExCallOK, Present
<1> QED
  BY <1>2, <1>3, <1>4, <1>5

\* The steps of a cancellation, the end of a container, and Close.
LEMMA ExCancels1 ==
    ASSUME ExIInv, NEW c \in Calls, NEW force \in BOOLEAN, TakeEntry(c, force) \/ CancelStep(c) \/ BoxExits(c)
    PROVE  ExIInv' /\ ExKeeps
<1>1. ExTypes /\ ExCallOK(c) /\ exCancel[c] \in ExCancels
  BY DEF ExIInv, ExTypes
<1>2. CASE TakeEntry(c, force)
  BY <1>1, <1>2, ExOthers DEF TakeEntry, ExTypes, ExCancels, ExCallOK, Present
<1>3. CASE CancelContext(c)
  BY <1>1, <1>3, ExOthers DEF CancelContext, CancelGoes, ExTypes, ExCancels, ExCallOK, Present
<1>4. CASE StopCanceled(c)
  BY <1>1, <1>4, ExOthers DEF StopCanceled, CancelGoes, ExTypes, ExCancels, ExBoxes, ExCallOK, Present
<1>5. CASE RemoveCanceled(c)
  <2>1. ExTypes'
    BY <1>1, <1>5 DEF RemoveCanceled, RemoveBox, CancelGoes, ExTypes, ExCancels, ExBoxes
  <2>2. /\ exCancel[c].pc = "remove" /\ exCancel'[c].pc = "done"
        /\ exCall'[c] = exCall[c] /\ exResult' = exResult /\ exRunning' = exRunning
        /\ \A d \in Calls \ {c} : exCancel'[d] = exCancel[d] /\ exBox'[d] = exBox[d]
    BY <1>1, <1>5 DEF RemoveCanceled, RemoveBox, CancelGoes, ExTypes, ExCancels
  <2>3. /\ exCall' = exCall
        /\ \A d \in Calls \ {c} : d \in exStray' <=> d \in exStray
        /\ exBox'[c] \in {exBox[c], "gone"} /\ (exBox'[c] # exBox[c] => Present(c))
        /\ (Present(c)' => Present(c) /\ (c \in exStray => c \in exStray'))
    BY <1>1, <1>5 DEF RemoveCanceled, RemoveBox, ExTypes, Present
  <2>4. ExCallOK(c)'
    BY <1>1, <2>2, <2>3 DEF ExCallOK, Present
  <2> QED
    BY <2>1, <2>2, <2>3, <2>4, ExOthers
<1>6. CASE BoxExits(c)
  BY <1>1, <1>6, ExOthers DEF BoxExits, ExTypes, ExBoxes, ExCallOK, Present
<1> QED
  BY <1>2, <1>3, <1>4, <1>5, <1>6 DEF CancelStep

\* Every step.
LEMMA ExStep == (ExInit => ExIInv) /\ (ExIInv /\ [ExNext]_exVars => ExIInv' /\ ExKeeps)
<1>1. ASSUME ExInit PROVE ExIInv
  BY <1>1 DEF ExInit, ExIInv, ExTypes, ExCalls, ExBoxes, ExCancels, ExCallOK, Present
<1>2. ASSUME ExIInv, UNCHANGED exVars PROVE ExIInv' /\ ExKeeps
  BY <1>2 DEF exVars, ExIInv, ExTypes, ExCallOK, Present, ExKeeps
<1>3. ASSUME ExIInv, CloseExecutor PROVE ExIInv' /\ ExKeeps
  BY <1>3 DEF CloseExecutor, ExIInv, ExTypes, ExCallOK, Present, ExKeeps
<1> QED
  BY <1>1, <1>2, <1>3, ExBegins, ExEnds, ExCancels1 DEF ExNext, ExecuteStep

\* What a worker's calls leave behind, and what they leave alone.
LEMMA ExecutorSafe ==
    ExSpec => [](ExTypeOK /\ NothingRemains /\ RunningIsListed) /\ OthersUntouched /\ ClosedRunsOut
<1>1. ExSpec => []ExIInv
  BY ExStep, PTL DEF ExSpec
<1>2. ExIInv => ExTypeOK /\ NothingRemains /\ RunningIsListed
  BY DEF ExIInv, ExTypes, ExCallOK, ExTypeOK, NothingRemains, RunningIsListed, ExCalls, ExBoxes, ExCancels
<1>3. ExSpec => [][ExKeeps]_exVars
  BY <1>1, ExStep, PTL DEF ExSpec
<1>4. ExKeeps <=> /\ \A c \in Calls : Present(c) /\ exBox'[c] = "gone" =>
                        exCall'[c] # exCall[c] \/ exCancel'[c] # exCancel[c]
                  /\ exClosed => \A c \in Calls : exCancel[c].pc = "none" => exCancel'[c].pc = "none"
  BY DEF ExKeeps
<1>5. ExSpec => OthersUntouched /\ ClosedRunsOut
  BY <1>3, <1>4, PTL DEF OthersUntouched, ClosedRunsOut
<1> QED
  BY <1>1, <1>2, <1>5, PTL

-----------------------------------------------------------------------------
(* The connection and the registration of a worker.                        *)

\* The links that are open, whether they work or not.
Open == {c \in Conns : link[c] \in {"ready", "failed"}}

\* No monitor of the agent runs.
NoMonitor == monitor.pc \in {"off", "ended"} /\ heart \in {"off", "ended"}

\* What the main goroutine can rely on at each of its steps.
MainKnows ==
    /\ main = "dial" => conn = 0 /\ \A c \in Conns : link[c] = "unused"
    /\ main \in {"dial", "dialed", "disconnect", "closed"} => NoMonitor
    /\ main \in {"dial", "dialed", "register"} => agentID = 0 /\ ~registered
    /\ main \in {"dialed", "register"} => conn # 0
    /\ registered /\ main # "closed" => conn # 0
    /\ main = "unregister" => registered
    /\ registered <=> agentID # 0
    /\ main = "closed" => Open = {}

\* The monitor dials when no link is open, and has a link to install.
MonitorKnows ==
    /\ monitor.pc = "redial" => Open = {}
    /\ monitor.pc = "install" => monitor.at \in Conns

\* Once the agent has unregistered, or tried, the orchestrator keeps lost IDs only.
IdsKnown ==
    knownAgents \ lostIDs \subseteq
        (IF main \in {"stop", "wait", "disconnect", "closed"} THEN {} ELSE {agentID})

\* The links belong to the agent.
LinksKnown == OneConnection /\ MainKnows /\ MonitorKnows

\* The inductive invariant.
WaIInv == WaTypeOK /\ LinksKnown /\ IdsKnown

\* The orchestrator's network.
LEMMA WaEnvironment ==
    ASSUME WaIInv, OrchestratorStops \/ OrchestratorStarts \/ \E c \in Conns : LinkBreaks(c) \/ LinkRecovers(c)
    PROVE  WaIInv'
<1>. USE DEF worldVars, idVars
<1>1. WaTypeOK'
  <2>1. breaks' \in 0..MaxBreaks /\ up' \in BOOLEAN /\ knownAgents' \subseteq knownAgents
    <3>1. breaks \in 0..MaxBreaks /\ up \in BOOLEAN
      BY DEF WaIInv, WaTypeOK
    <3>2. OrchestratorStops \/ (\E c \in Conns : LinkBreaks(c)) => breaks < MaxBreaks /\ breaks' = breaks + 1
      BY DEF OrchestratorStops, LinkBreaks
    <3>3. breaks' = breaks \/ (breaks < MaxBreaks /\ breaks' = breaks + 1)
      BY <3>2 DEF OrchestratorStarts, LinkRecovers
    <3>4. breaks' \in 0..MaxBreaks
      BY <3>1, <3>3, WaAssumption
    <3>5. up' \in BOOLEAN /\ knownAgents' \subseteq knownAgents
      BY <3>1 DEF OrchestratorStops, OrchestratorStarts, LinkBreaks, LinkRecovers
    <3> QED
      BY <3>4, <3>5
  <2>2. link' \in [Conns -> {"unused", "ready", "failed", "shut"}]
    BY DEF WaIInv, WaTypeOK, OrchestratorStops, OrchestratorStarts, LinkBreaks, LinkRecovers, BreakLinks
  <2>3. UNCHANGED <<lostIDs, conn, agentClosed, agentID, registered, attempts, stopping, main, monitor, heart>>
    BY DEF OrchestratorStops, OrchestratorStarts, LinkBreaks, LinkRecovers
  <2> QED
    BY <2>1, <2>2, <2>3 DEF WaIInv, WaTypeOK
<1>2. \A c \in Conns : link'[c] \in {"ready", "failed"} <=> link[c] \in {"ready", "failed"}
  BY DEF WaIInv, WaTypeOK, OrchestratorStops, OrchestratorStarts, LinkBreaks, LinkRecovers, BreakLinks
<1>3. \A c \in Conns : link[c] = "unused" => link'[c] = "unused"
  BY DEF WaIInv, WaTypeOK, OrchestratorStops, OrchestratorStarts, LinkBreaks, LinkRecovers, BreakLinks
<1>4. /\ UNCHANGED <<conn, agentID, registered, main, monitor, heart, lostIDs>>
      /\ knownAgents' \subseteq knownAgents
  BY DEF OrchestratorStops, OrchestratorStarts, LinkBreaks, LinkRecovers
<1>5. Open' = Open
  BY <1>2 DEF Open
<1>6. MonitorKnows' /\ OneConnection'
  BY <1>2, <1>4, <1>5 DEF WaIInv, LinksKnown, MonitorKnows, OneConnection
<1>7. MainKnows'
  BY <1>3, <1>4, <1>5 DEF WaIInv, LinksKnown, MainKnows, NoMonitor
<1>8. IdsKnown'
  BY <1>4 DEF WaIInv, IdsKnown
<1> QED
  BY <1>1, <1>6, <1>7, <1>8 DEF WaIInv, LinksKnown

\* A step that leaves the links and the connection alone, and what it must show.
LEMMA WaLinksStay ==
    ASSUME WaIInv, WaTypeOK', UNCHANGED <<link, conn>>,
           \/ monitor'.pc \notin {"redial", "install"} /\ monitor.pc \notin {"redial", "install"}
           \/ UNCHANGED monitor,
           MainKnows', IdsKnown'
    PROVE  WaIInv'
<1>1. OneConnection'
  BY DEF WaIInv, LinksKnown, OneConnection
<1>2. MonitorKnows'
  BY DEF WaIInv, LinksKnown, MonitorKnows, Open
<1> QED
  BY <1>1, <1>2 DEF WaIInv, LinksKnown

\* The agent comes up and goes down; its heart beats.
LEMMA WaMain ==
    ASSUME WaIInv,
           \/ DialFails \/ StartMonitor \/ RegisterFails \/ CheckHealth \/ TakeShutdownSignal
           \/ \E i \in AgentIDs : RegisterSucceeds(i)
           \/ BeginClose \/ UnregisterAnswered \/ UnregisterFails \/ CloseChannels \/ AwaitMonitors
           \/ SendHeartbeat \/ Tick
    PROVE  WaIInv'
<1>. USE DEF worldVars, idVars, MainGoes
<1>1. WaTypeOK /\ MainKnows /\ IdsKnown
  BY DEF WaIInv, LinksKnown
<1>2. UNCHANGED <<link, conn>>
  BY DEF DialFails, StartMonitor, RegisterFails, CheckHealth, TakeShutdownSignal, RegisterSucceeds,
     BeginClose, UnregisterAnswered, UnregisterFails, CloseChannels, AwaitMonitors, SendHeartbeat, Tick
<1>3. WaTypeOK'
  <2>1. CASE RegisterFails \/ \E i \in AgentIDs : RegisterSucceeds(i)
    BY <1>1, <2>1 DEF WaTypeOK, RegisterFails, RegisterSucceeds
  <2>2. CASE DialFails \/ StartMonitor \/ CheckHealth \/ TakeShutdownSignal
    BY <1>1, <2>2 DEF WaTypeOK, DialFails, StartMonitor, CheckHealth, TakeShutdownSignal
  <2>3. CASE UnregisterAnswered \/ UnregisterFails
    <3>1. UnregisterFails => agentID \in AgentIDs
      BY <1>1 DEF UnregisterFails, MainKnows, WaTypeOK
    <3> QED
      BY <1>1, <2>3, <3>1 DEF WaTypeOK, UnregisterAnswered, UnregisterFails
  <2>4. CASE CloseChannels \/ AwaitMonitors \/ SendHeartbeat \/ Tick
    <3>1. stopping' \in BOOLEAN
      <4>1. stopping' = stopping \/ stopping' = TRUE
        BY <2>4 DEF CloseChannels, AwaitMonitors, SendHeartbeat, Tick
      <4> QED
        BY <1>1, <4>1 DEF WaTypeOK
    <3>2. /\ main' = main \/ main' \in {"wait", "disconnect"}
          /\ heart' = heart \/ heart' \in {"tick", "ended", "beat"}
      BY <2>4 DEF CloseChannels, AwaitMonitors, SendHeartbeat, Tick
    <3>3. UNCHANGED <<worldVars, link, conn, agentClosed, idVars, attempts, monitor>>
      BY <2>4 DEF CloseChannels, AwaitMonitors, SendHeartbeat, Tick
    <3> QED
      BY <1>1, <3>1, <3>2, <3>3 DEF WaTypeOK
  <2>5. CASE BeginClose
    <3>1. agentClosed' \in BOOLEAN /\ stopping' \in BOOLEAN
      BY <2>5 DEF BeginClose
    <3>2. main' \in {"unregister", "stop"}
      BY <2>5 DEF BeginClose
    <3>3. UNCHANGED <<worldVars, link, conn, idVars, attempts, monitor, heart>>
      BY <2>5 DEF BeginClose
    <3> QED
      BY <1>1, <3>1, <3>2, <3>3 DEF WaTypeOK
  <2> QED
    BY <2>1, <2>2, <2>3, <2>4, <2>5
<1>4. /\ MainKnows' /\ IdsKnown'
      /\ \/ monitor'.pc \notin {"redial", "install"} /\ monitor.pc \notin {"redial", "install"}
         \/ UNCHANGED monitor
  <2>1. Open' = Open
    BY <1>2 DEF Open
  <2>2. CASE RegisterFails
    <3>1. UNCHANGED <<conn, link, agentID, registered, monitor, heart>> /\ main = "register" /\ main' = "close"
      BY <2>2 DEF RegisterFails
    <3>2. knownAgents' \ lostIDs' \subseteq knownAgents \ lostIDs
      BY <2>2 DEF RegisterFails
    <3> QED
      BY <1>1, <3>1, <3>2 DEF MainKnows, IdsKnown
  <2>3. CASE \E i \in AgentIDs : RegisterSucceeds(i)
    <3>1. PICK i \in AgentIDs : RegisterSucceeds(i)
      BY <2>3
    <3>2. i # 0 /\ 0 \notin AgentIDs
      BY WaAssumption
    <3>3. MainKnows'
      BY <1>1, <3>1, <3>2 DEF MainKnows, RegisterSucceeds
    <3>4. knownAgents \ lostIDs = {}
      BY <1>1, <3>1, <3>2 DEF MainKnows, IdsKnown, RegisterSucceeds, WaTypeOK
    <3>5. IdsKnown'
      BY <3>1, <3>4 DEF IdsKnown, RegisterSucceeds
    <3> QED
      BY <3>1, <3>3, <3>5 DEF RegisterSucceeds
  <2>4. CASE DialFails \/ StartMonitor \/ CheckHealth \/ TakeShutdownSignal \/ SendHeartbeat \/ Tick
    BY <1>1, <2>1, <2>4 DEF MainKnows, NoMonitor, IdsKnown, DialFails, StartMonitor, CheckHealth, TakeShutdownSignal, SendHeartbeat, Tick
  <2>5. CASE BeginClose
    <3>1. 0 \notin AgentIDs
      BY WaAssumption
    <3>2. UNCHANGED <<conn, link, agentID, registered, monitor, heart, knownAgents, lostIDs>>
      BY <2>5 DEF BeginClose
    <3>3. main = "close" /\ main' = IF registered /\ conn # 0 THEN "unregister" ELSE "stop"
      BY <2>5 DEF BeginClose
    <3>4. CASE registered
      BY <1>1, <3>2, <3>3, <3>4 DEF MainKnows, IdsKnown
    <3>5. CASE ~registered
      <4>1. knownAgents \ lostIDs = {}
        BY <1>1, <3>1, <3>3, <3>5 DEF MainKnows, IdsKnown, WaTypeOK
      <4> QED
        BY <1>1, <3>2, <3>3, <3>5, <4>1 DEF MainKnows, IdsKnown
    <3> QED
      BY <3>4, <3>5
  <2>6. CASE UnregisterAnswered
    <3>1. knownAgents' \ lostIDs' = {}
      BY <1>1, <2>6 DEF IdsKnown, UnregisterAnswered
    <3> QED
      BY <1>1, <2>6, <3>1 DEF MainKnows, IdsKnown, UnregisterAnswered
  <2>7. CASE UnregisterFails
    <3>1. knownAgents' \subseteq knownAgents
      BY <2>7 DEF UnregisterFails
    <3>2. knownAgents' \ lostIDs' = {}
      BY <1>1, <2>7, <3>1 DEF IdsKnown, UnregisterFails
    <3> QED
      BY <1>1, <2>7, <3>2 DEF MainKnows, IdsKnown, UnregisterFails
  <2>8. CASE CloseChannels \/ AwaitMonitors
    BY <1>1, <2>1, <2>8 DEF MainKnows, NoMonitor, IdsKnown, CloseChannels, AwaitMonitors
  <2> QED
    BY <2>2, <2>3, <2>4, <2>5, <2>6, <2>7, <2>8
<1> QED
  BY <1>1, <1>2, <1>3, <1>4, WaLinksStay

\* The reconnection monitor, Dial and the end of Close.
LEMMA WaConnections ==
    ASSUME WaIInv, MonitorStep \/ (\E c \in Conns : DialConnects(c)) \/ CloseConn
    PROVE  WaIInv'
<1>. USE DEF worldVars, idVars, MainGoes, MonitorGoes
<1>1. WaTypeOK /\ OneConnection /\ MainKnows /\ MonitorKnows /\ IdsKnown
  BY DEF WaIInv, LinksKnown
<1>2. 0 \notin Conns
  BY WaAssumption
<1>3. CASE CheckStop \/ LookAtState \/ ShouldReconnect
  <2>1. WaTypeOK'
    <3>1. attempts' = attempts \/ (attempts < MaxAttempts /\ attempts' = attempts + 1)
      BY <1>3 DEF CheckStop, LookAtState, ShouldReconnect
    <3>2. attempts' \in 0..MaxAttempts
      BY <1>1, <3>1, WaAssumption DEF WaTypeOK
    <3>3. /\ monitor'.pc \in {"check", "look", "allowed", "shut", "ended"}
          /\ monitor'.at \in {0, conn}
      BY <1>3 DEF CheckStop, LookAtState, ShouldReconnect
    <3>4. UNCHANGED <<worldVars, link, conn, agentClosed, idVars, stopping, main, heart>>
      BY <1>3 DEF CheckStop, LookAtState, ShouldReconnect
    <3> QED
      BY <1>1, <3>2, <3>3, <3>4 DEF WaTypeOK
  <2>2. UNCHANGED <<link, conn, main, agentID, registered, heart, knownAgents, lostIDs>>
    BY <1>3 DEF CheckStop, LookAtState, ShouldReconnect
  <2>3. monitor.pc \in {"check", "look", "allowed"} /\ monitor'.pc \notin {"redial", "install"}
    BY <1>3 DEF CheckStop, LookAtState, ShouldReconnect
  <2>4. MainKnows'
    BY <1>1, <2>2, <2>3 DEF MainKnows, NoMonitor, Open
  <2> QED
    BY <1>1, <2>1, <2>2, <2>3, <2>4, WaLinksStay DEF IdsKnown
<1>4. CASE ShutOld
  <2>1. WaTypeOK'
    BY <1>1, <1>4 DEF WaTypeOK, ShutOld, Shut
  <2>2. Open' = {}
    BY <1>1, <1>2, <1>4 DEF WaTypeOK, ShutOld, Shut, OneConnection, Open
  <2>3. MainKnows' /\ MonitorKnows' /\ OneConnection'
    BY <1>1, <1>4, <2>2 DEF ShutOld, MainKnows, NoMonitor, MonitorKnows, OneConnection, Open
  <2> QED
    BY <1>1, <1>4, <2>1, <2>3 DEF WaIInv, LinksKnown, IdsKnown, ShutOld
<1>5. CASE RedialFails
  <2>1. WaTypeOK' /\ MainKnows' /\ MonitorKnows' /\ OneConnection' /\ IdsKnown'
    BY <1>1, <1>5 DEF WaTypeOK, RedialFails, MainKnows, NoMonitor, MonitorKnows, OneConnection, IdsKnown, Open
  <2> QED
    BY <2>1 DEF WaIInv, LinksKnown
<1>6. CASE InstallConn
  <2>1. WaTypeOK'
    BY <1>1, <1>6 DEF WaTypeOK, InstallConn, MonitorKnows
  <2>2. MainKnows' /\ MonitorKnows' /\ OneConnection' /\ IdsKnown'
    BY <1>1, <1>2, <1>6 DEF InstallConn, MainKnows, NoMonitor, MonitorKnows, OneConnection, IdsKnown, Open
  <2> QED
    BY <2>1, <2>2 DEF WaIInv, LinksKnown
<1>7. ASSUME NEW c \in Conns, Redial(c) PROVE WaIInv'
  <2>1. WaTypeOK'
    BY <1>1, <1>7 DEF WaTypeOK, Redial
  <2>2. Open = {} /\ Open' = {c}
    BY <1>1, <1>7 DEF WaTypeOK, Redial, MonitorKnows, Open
  <2>3. monitor'.pc = "install" /\ monitor'.at = c
    BY <1>7 DEF Redial
  <2>4. OneConnection' /\ MonitorKnows'
    BY <2>2, <2>3 DEF OneConnection, MonitorKnows, Open
  <2>5. MainKnows'
    BY <1>1, <1>7, <2>3 DEF Redial, MainKnows, NoMonitor
  <2> QED
    BY <1>1, <1>7, <2>1, <2>4, <2>5 DEF WaIInv, LinksKnown, IdsKnown, Redial
<1>8. ASSUME NEW c \in Conns, DialConnects(c) PROVE WaIInv'
  <2>1. WaTypeOK'
    BY <1>1, <1>8 DEF WaTypeOK, DialConnects
  <2>2. Open' = {c}
    BY <1>1, <1>8 DEF WaTypeOK, DialConnects, MainKnows, Open
  <2>3. OneConnection' /\ MonitorKnows'
    BY <1>1, <1>8, <2>2 DEF OneConnection, MonitorKnows, MainKnows, NoMonitor, DialConnects, Open
  <2>4. MainKnows'
    BY <1>1, <1>2, <1>8 DEF DialConnects, MainKnows, NoMonitor
  <2> QED
    BY <1>1, <1>8, <2>1, <2>3, <2>4 DEF WaIInv, LinksKnown, IdsKnown, DialConnects
<1>9. CASE CloseConn
  <2>1. WaTypeOK'
    BY <1>1, <1>9 DEF WaTypeOK, CloseConn, Shut
  <2>2. Open' = {}
    BY <1>1, <1>2, <1>9 DEF WaTypeOK, CloseConn, Shut, OneConnection, Open, MainKnows, NoMonitor
  <2>3. MainKnows' /\ MonitorKnows' /\ OneConnection'
    BY <1>1, <1>9, <2>2 DEF CloseConn, MainKnows, NoMonitor, MonitorKnows, OneConnection, Open
  <2> QED
    BY <1>1, <1>9, <2>1, <2>3 DEF WaIInv, LinksKnown, IdsKnown, CloseConn
<1> QED
  BY <1>3, <1>4, <1>5, <1>6, <1>7, <1>8, <1>9 DEF MonitorStep

\* Every step.
LEMMA WaStep == (WaInit => WaIInv) /\ (WaIInv /\ [WaNext]_waVars => WaIInv')
<1>1. ASSUME WaInit PROVE WaIInv
  <2>1. WaTypeOK
    <3>1. breaks \in 0..MaxBreaks /\ attempts \in 0..MaxAttempts
      BY <1>1, WaAssumption DEF WaInit
    <3>2. up \in BOOLEAN /\ agentClosed \in BOOLEAN /\ registered \in BOOLEAN /\ stopping \in BOOLEAN
      BY <1>1 DEF WaInit
    <3>3. link \in [Conns -> {"unused", "ready", "failed", "shut"}]
      BY <1>1 DEF WaInit
    <3> QED
      BY <1>1, <3>1, <3>2, <3>3 DEF WaInit, WaTypeOK
  <2>2. OneConnection /\ MainKnows /\ MonitorKnows /\ IdsKnown
    BY <1>1 DEF WaInit, OneConnection, MainKnows, NoMonitor, MonitorKnows, IdsKnown, Open
  <2> QED
    BY <2>1, <2>2 DEF WaIInv, LinksKnown
<1>2. ASSUME WaIInv, UNCHANGED waVars PROVE WaIInv'
  BY <1>2 DEF waVars, WaIInv, WaTypeOK, LinksKnown, OneConnection, MainKnows, NoMonitor, MonitorKnows,
     IdsKnown, Open
<1> QED
  BY <1>1, <1>2, WaEnvironment, WaMain, WaConnections DEF WaNext, Bootstrap, Close

\* Of a worker: its calls leave no container behind and touch those of no other, also
\* under cancellation and Close; its agent has one connection and one registration,
\* and none when closed, however the orchestrator and its network fail
\* (worker/executor.go, worker/agent.go).
THEOREM WorkerStaysSafe == ExSpec /\ WaSpec => WorkerSafe
<1>1. WaSpec => []WaIInv
  BY WaStep, PTL DEF WaSpec
<1>2. WaIInv => WaTypeOK /\ OneConnection /\ ClosedIsGone /\ NoGhosts
  BY DEF WaIInv, WaTypeOK, LinksKnown, MainKnows, NoMonitor, Open, IdsKnown, ClosedIsGone, NoGhosts
<1> QED
  BY <1>1, <1>2, ExecutorSafe, PTL DEF WorkerSafe

-----------------------------------------------------------------------------
(* The delegations of the assistant.                                       *)

\* What the results are.
DgResults == [call : ToolCalls, success : BOOLEAN, state : Finals]
DgRuns == {"none", "asking", "polling", "returned"}
DgTasks == {"none", "active"} \cup Finals

\* The types; an agent has no worker id.
DgTyped ==
    /\ dgVia \in {"agent", "executor", "persistent"} /\ dgWorkerId \in BOOLEAN /\ dgOver \in BOOLEAN
    /\ dgVia = "agent" => ~dgWorkerId
    /\ dgRun \in [ToolCalls -> DgRuns] /\ dgTask \in [ToolCalls -> DgTasks]
    /\ dgResults \in Seq(DgResults) /\ Len(dgResults) \in 0..MaxToolCalls

\* Results come in the order of the calls, and the executor stops at a failure.
InOrder ==
    \A i \in 1..Len(dgResults) :
        /\ dgResults[i].call = i
        /\ dgResults[i].success => dgResults[i].state = "completed" /\ dgTask[i] = "completed"
        /\ dgVia = "executor" /\ ~dgResults[i].success => dgOver /\ i = Len(dgResults)

\* No call runs that is not its turn yet, none when it is over, and after the last one it is.
OneByOne ==
    /\ \A c \in ToolCalls : c > Awaited => dgRun[c] = "none"
    /\ dgOver => \A c \in ToolCalls : c >= Awaited => dgRun[c] = "none"
    /\ Len(dgResults) = MaxToolCalls => dgOver

\* Only a call that asked has a task, and only for a worker that is named.
TasksWereAsked ==
    \A c \in ToolCalls : dgTask[c] # "none" => dgRun[c] \in {"polling", "returned"} /\ dgWorkerId

\* The inductive invariant of the delegations.
DgIInv == DgTyped /\ InOrder /\ OneByOne /\ TasksWereAsked

\* At the start.
LEMMA DgInits == DgInit => DgIInv
<1> SUFFICES ASSUME DgInit PROVE DgIInv
  OBVIOUS
<1>1. Len(<< >>) = 0 /\ << >> \in Seq(DgResults)
  BY EmptySeq
<1>2. DgTyped
  <2>1. Len(<< >>) \in 0..MaxToolCalls
    BY <1>1, DgAssumption
  <2>2. dgRun \in [ToolCalls -> DgRuns] /\ dgTask \in [ToolCalls -> DgTasks]
    BY DEF DgInit, DgRuns, DgTasks
  <2>3. dgVia \in {"agent", "executor", "persistent"} /\ dgWorkerId \in BOOLEAN /\ dgOver \in BOOLEAN
    BY DEF DgInit
  <2>4. (dgVia = "agent" => ~dgWorkerId) /\ dgResults = << >>
    BY DEF DgInit
  <2> QED
    BY <1>1, <2>1, <2>2, <2>3, <2>4 DEF DgTyped
<1>3. InOrder /\ OneByOne /\ TasksWereAsked
  BY <1>1, DgAssumption DEF DgInit, InOrder, OneByOne, TasksWereAsked, ToolCalls
<1> QED
  BY <1>2, <1>3 DEF DgIInv

\* The results, as the steps need them.
LEMMA DgLen ==
    ASSUME DgIInv
    PROVE  /\ Len(dgResults) \in Nat /\ Awaited = Len(dgResults) + 1 /\ Awaited \in Nat
           /\ DOMAIN dgResults = 1..Len(dgResults)
           /\ MaxToolCalls \in Nat /\ Len(dgResults) <= MaxToolCalls
           /\ \A c \in ToolCalls : c \in Nat /\ (c < Awaited => c \in 1..Len(dgResults))
           /\ \A i \in 1..Len(dgResults) : i \in ToolCalls
<1>1. dgResults \in Seq(DgResults) /\ Len(dgResults) \in 0..MaxToolCalls /\ MaxToolCalls \in Nat
  BY DgAssumption DEF DgIInv, DgTyped
<1>2. Len(dgResults) \in Nat /\ DOMAIN dgResults = 1..Len(dgResults)
  BY <1>1, LenProperties
<1> QED
  BY <1>1, <1>2 DEF Awaited, ToolCalls

\* Calls and tasks go on and no result comes.
LEMMA DgGoesOn ==
    ASSUME DgIInv, UNCHANGED <<dgVia, dgWorkerId, dgResults>>, dgOver' \in BOOLEAN, dgOver => dgOver',
           dgRun' \in [ToolCalls -> DgRuns], dgTask' \in [ToolCalls -> DgTasks],
           \A c \in ToolCalls : c > Awaited => dgRun'[c] = dgRun[c],
           dgOver' => \A c \in ToolCalls : c >= Awaited => dgRun'[c] = "none",
           \A c \in ToolCalls : dgTask[c] = "completed" => dgTask'[c] = "completed",
           TasksWereAsked'
    PROVE  DgIInv'
<1>1. DgTyped'
  BY DEF DgIInv, DgTyped
<1>2. InOrder'
  <2>1. \A i \in 1..Len(dgResults) : i \in ToolCalls
    BY DgLen
  <2> QED
    BY <2>1 DEF DgIInv, InOrder
<1>3. OneByOne'
  <2>1. Awaited' = Awaited
    BY DEF Awaited
  <2> QED
    BY <2>1 DEF DgIInv, OneByOne
<1> QED
  BY <1>1, <1>2, <1>3 DEF DgIInv

\* The call whose turn it is gets its result.
LEMMA DgAnswers ==
    ASSUME DgIInv, NEW success \in BOOLEAN, NEW state \in Finals,
           Result(Awaited, success, state), ~dgOver, UNCHANGED <<dgVia, dgWorkerId>>,
           success => state = "completed" /\ dgTask'[Awaited] = "completed",
           dgRun' \in [ToolCalls -> DgRuns], dgTask' \in [ToolCalls -> DgTasks],
           \A c \in ToolCalls : c # Awaited => dgRun'[c] = dgRun[c] /\ dgTask'[c] = dgTask[c],
           TasksWereAsked'
    PROVE  DgIInv'
<1> DEFINE L == Len(dgResults)
           x == [call |-> Awaited, success |-> success, state |-> state]
<1>1. /\ L \in Nat /\ MaxToolCalls \in Nat /\ Awaited = L + 1 /\ L <= MaxToolCalls /\ L # MaxToolCalls
      /\ \A i \in 1..L : i \in ToolCalls /\ i # Awaited
  BY DgLen DEF DgIInv, OneByOne
<1>2. Awaited \in ToolCalls
  BY <1>1 DEF ToolCalls
<1>3. x \in DgResults /\ dgResults \in Seq(DgResults) /\ dgResults' = Append(dgResults, x)
      /\ x.call = Awaited /\ x.success = success /\ x.state = state
      /\ dgOver' = (Awaited = MaxToolCalls \/ (~success /\ dgVia = "executor"))
  BY <1>2 DEF Result, DgResults, DgIInv, DgTyped
<1> HIDE DEF x
<1>4. /\ dgResults' \in Seq(DgResults) /\ Len(dgResults') = L + 1 /\ dgResults'[L + 1] = x
      /\ \A i \in 1..L : dgResults'[i] = dgResults[i]
  BY <1>3, AppendProperties
<1>5. DgTyped'
  <2>1. Len(dgResults') \in 0..MaxToolCalls
    BY <1>1, <1>4
  <2>2. dgOver' \in BOOLEAN
    BY <1>3
  <2> QED
    BY <1>4, <2>1, <2>2 DEF DgIInv, DgTyped
<1>6. InOrder'
  <2> SUFFICES ASSUME NEW i \in 1..Len(dgResults')
               PROVE  /\ dgResults'[i].call = i
                      /\ dgResults'[i].success => dgResults'[i].state = "completed" /\ dgTask'[i] = "completed"
                      /\ dgVia' = "executor" /\ ~dgResults'[i].success => dgOver' /\ i = Len(dgResults')
    BY DEF InOrder
  <2>1. i \in 1..L \/ i = L + 1
    BY <1>1, <1>4
  <2>2. CASE i \in 1..L
    <3>1. dgTask'[i] = dgTask[i] /\ dgResults'[i] = dgResults[i]
      BY <1>1, <1>4, <2>2
    <3>2. /\ dgResults[i].call = i
          /\ dgResults[i].success => dgResults[i].state = "completed" /\ dgTask[i] = "completed"
          /\ ~(dgVia = "executor" /\ ~dgResults[i].success)
      BY <2>2 DEF DgIInv, InOrder
    <3> QED
      BY <3>1, <3>2
  <2>3. CASE i = L + 1
    <3>1. i = Awaited /\ dgResults'[i] = x /\ i = Len(dgResults')
      BY <1>1, <1>4, <2>3
    <3> QED
      BY <1>3, <3>1
  <2> QED
    BY <2>1, <2>2, <2>3
<1>7. OneByOne'
  <2>1. Awaited' = L + 2
    BY <1>1, <1>4 DEF Awaited
  <2>2. \A c \in ToolCalls : c >= Awaited' => dgRun'[c] = "none"
    BY <1>1, <2>1, DgLen DEF DgIInv, OneByOne
  <2>3. Len(dgResults') = MaxToolCalls => dgOver'
    BY <1>1, <1>3, <1>4
  <2>4. \A c \in ToolCalls : c > Awaited' => c >= Awaited'
    <3>1. \A c \in ToolCalls : c \in Nat
      BY DgLen
    <3> QED
      BY <1>1, <2>1, <3>1
  <2> QED
    BY <2>2, <2>3, <2>4 DEF OneByOne
<1> QED
  BY <1>5, <1>6, <1>7 DEF DgIInv

\* A call is run: refused, or asked of a worker.
LEMMA StartStep ==
    ASSUME DgIInv, NEW kind \in Asked, StartCall(kind)
    PROVE  DgIInv'
<1>1. /\ ~dgOver /\ ~Waiting /\ UNCHANGED <<dgVia, dgWorkerId, dgTask>>
      /\ dgRun \in [ToolCalls -> DgRuns] /\ dgTask \in [ToolCalls -> DgTasks] /\ TasksWereAsked
      /\ dgOver \in BOOLEAN
  BY DEF StartCall, DgIInv, DgTyped
<1>2. /\ Awaited \in ToolCalls /\ dgRun[Awaited] = "none"
      /\ \A c \in ToolCalls : c >= Awaited => dgRun[c] = "none"
  <2>1. Awaited \in ToolCalls
    BY <1>1, DgLen DEF DgIInv, OneByOne, ToolCalls
  <2>2. dgRun[Awaited] = "none"
    BY <1>1, <2>1 DEF Waiting
  <2>3. \A c \in ToolCalls : c >= Awaited => c = Awaited \/ c > Awaited
    BY DgLen
  <2> QED
    BY <2>1, <2>2, <2>3 DEF DgIInv, OneByOne
<1>3. CASE Result(Awaited, FALSE, "failed") /\ UNCHANGED dgRun
  <2>1. TasksWereAsked'
    BY <1>1, <1>3 DEF TasksWereAsked
  <2>2. "failed" \in Finals
    BY DEF Finals
  <2> QED
    BY <1>1, <1>3, <2>1, <2>2, DgAnswers
<1>4. CASE dgOver' = TRUE /\ UNCHANGED <<dgResults, dgRun>>
  <2>1. TasksWereAsked'
    BY <1>1, <1>4 DEF TasksWereAsked
  <2> QED
    BY <1>1, <1>2, <1>4, <2>1, DgGoesOn
<1>5. CASE dgRun' = [dgRun EXCEPT ![Awaited] = "asking"] /\ UNCHANGED <<dgResults, dgOver>>
  <2>1. dgRun' \in [ToolCalls -> DgRuns] /\ \A c \in ToolCalls : c # Awaited => dgRun'[c] = dgRun[c]
    BY <1>1, <1>5 DEF DgRuns
  <2>2. dgTask[Awaited] = "none"
    BY <1>1, <1>2 DEF TasksWereAsked
  <2>3. TasksWereAsked'
    BY <1>1, <2>1, <2>2 DEF TasksWereAsked
  <2>4. \A c \in ToolCalls : c > Awaited => dgRun'[c] = dgRun[c]
    BY <2>1, DgLen
  <2>5. dgOver' \in BOOLEAN /\ ~dgOver'
    BY <1>1, <1>5
  <2> QED
    BY <1>1, <1>5, <2>1, <2>3, <2>4, <2>5, DgGoesOn
<1> QED
  BY <1>3, <1>4, <1>5 DEF StartCall, StartGarbled

\* A delegation returns, to one who waits or to nobody.
LEMMA ReturnStep ==
    ASSUME DgIInv, NEW c \in ToolCalls, NEW success \in BOOLEAN, NEW state \in Finals,
           Return(c, success, state), dgRun[c] \in {"asking", "polling"},
           dgTask' \in [ToolCalls -> DgTasks],
           \A d \in ToolCalls : d # c => dgTask'[d] = dgTask[d],
           dgTask[c] = "completed" => dgTask'[c] = "completed",
           success => state = "completed" /\ dgTask'[c] = "completed",
           dgTask'[c] # "none" => dgWorkerId
    PROVE  DgIInv'
<1>1. /\ dgRun' = [dgRun EXCEPT ![c] = "returned"] /\ UNCHANGED <<dgVia, dgWorkerId>>
      /\ dgRun \in [ToolCalls -> DgRuns] /\ TasksWereAsked /\ OneByOne /\ dgOver \in BOOLEAN
  BY DEF Return, DgIInv, DgTyped
<1>2. /\ dgRun' \in [ToolCalls -> DgRuns] /\ dgRun'[c] = "returned"
      /\ \A d \in ToolCalls : d # c => dgRun'[d] = dgRun[d]
  BY <1>1 DEF DgRuns
<1>3. TasksWereAsked'
  BY <1>1, <1>2 DEF TasksWereAsked
<1>4. c <= Awaited /\ (c = Awaited => ~dgOver) /\ (dgOver => c < Awaited)
  <2>1. ~(c > Awaited) /\ ~(dgOver /\ c >= Awaited)
    BY DEF DgIInv, OneByOne
  <2> QED
    BY <2>1, DgLen
<1>5. CASE c = Awaited
  <2>1. Result(Awaited, success, state)
    BY <1>5 DEF Return
  <2> QED
    BY <1>1, <1>2, <1>3, <1>4, <1>5, <2>1, DgAnswers
<1>6. CASE c # Awaited
  <2>1. UNCHANGED <<dgResults, dgOver>>
    BY <1>6 DEF Return
  <2>2. \A d \in ToolCalls : d >= Awaited => d # c
    BY <1>4, <1>6, DgLen
  <2>3. \A d \in ToolCalls : d > Awaited => d >= Awaited
    BY DgLen
  <2>4. \A d \in ToolCalls : d > Awaited => dgRun'[d] = dgRun[d]
    BY <1>2, <2>2, <2>3
  <2>5. dgOver' => \A d \in ToolCalls : d >= Awaited => dgRun'[d] = "none"
    BY <1>1, <1>2, <2>1, <2>2 DEF OneByOne
  <2>6. \A d \in ToolCalls : dgTask[d] = "completed" => dgTask'[d] = "completed"
    OBVIOUS
  <2>7. dgOver' \in BOOLEAN /\ (dgOver => dgOver')
    BY <1>1, <2>1
  <2> QED
    BY <1>1, <1>2, <1>3, <2>1, <2>4, <2>5, <2>6, <2>7, DgGoesOn
<1> QED
  BY <1>5, <1>6

\* Tasks are made and end, and what was asked of the worker returns.
LEMMA DelegationStep ==
    ASSUME DgIInv, NEW c \in ToolCalls,
           \/ AskAnswered(c) \/ PollEnds(c) \/ PollTimesOut(c)
           \/ \E made \in BOOLEAN : AskFails(c, made)
           \/ \E s \in Finals : TaskEnds(c, s)
    PROVE  DgIInv'
<1>1. /\ dgRun \in [ToolCalls -> DgRuns] /\ dgTask \in [ToolCalls -> DgTasks] /\ TasksWereAsked
      /\ dgOver \in BOOLEAN /\ OneByOne
  BY DEF DgIInv, DgTyped
<1>2. CASE AskAnswered(c)
  <2>1. /\ dgRun[c] = "asking" /\ dgWorkerId
        /\ dgRun' = [dgRun EXCEPT ![c] = "polling"] /\ dgTask' = [dgTask EXCEPT ![c] = "active"]
        /\ UNCHANGED <<dgVia, dgWorkerId, dgOver, dgResults>>
    BY <1>2 DEF AskAnswered
  <2>2. /\ dgRun' \in [ToolCalls -> DgRuns] /\ dgTask' \in [ToolCalls -> DgTasks] /\ dgRun'[c] = "polling"
        /\ \A d \in ToolCalls : d # c => dgRun'[d] = dgRun[d] /\ dgTask'[d] = dgTask[d]
    BY <1>1, <2>1 DEF DgRuns, DgTasks
  <2>3. TasksWereAsked'
    BY <1>1, <2>1, <2>2 DEF TasksWereAsked
  <2>4. dgTask[c] = "none"
    BY <1>1, <2>1 DEF TasksWereAsked
  <2>5. \A d \in ToolCalls : dgTask[d] = "completed" => dgTask'[d] = "completed"
    BY <2>2, <2>4
  <2>6. ~(c > Awaited) /\ ~(dgOver /\ c >= Awaited)
    BY <1>1, <2>1 DEF OneByOne
  <2>7. \A d \in ToolCalls : d > Awaited => dgRun'[d] = dgRun[d]
    BY <2>2, <2>6
  <2>8. dgOver' => \A d \in ToolCalls : d >= Awaited => dgRun'[d] = "none"
    BY <1>1, <2>1, <2>2, <2>6 DEF OneByOne
  <2> QED
    BY <1>1, <2>1, <2>2, <2>3, <2>5, <2>7, <2>8, DgGoesOn
<1>3. CASE PollEnds(c)
  <2>1. /\ dgRun[c] = "polling" /\ dgTask[c] \in Finals /\ dgTask' = dgTask
        /\ Return(c, dgTask[c] = "completed", dgTask[c])
    BY <1>3 DEF PollEnds
  <2>2. dgTask[c] # "none" /\ dgWorkerId
    BY <1>1, <2>1 DEF Finals, TasksWereAsked
  <2> DEFINE b == dgTask[c] = "completed"
  <2>3. b \in BOOLEAN /\ Return(c, b, dgTask[c]) /\ (b => dgTask[c] = "completed")
    BY <2>1
  <2> HIDE DEF b
  <2> QED
    BY <1>1, <2>1, <2>2, <2>3, ReturnStep
<1>4. CASE PollTimesOut(c)
  <2>1. dgRun[c] = "polling" /\ dgTask' = dgTask /\ Return(c, FALSE, "timeout") /\ "timeout" \in Finals
    BY <1>4 DEF PollTimesOut, Finals
  <2>2. dgTask[c] # "none" => dgWorkerId
    BY <1>1 DEF TasksWereAsked
  <2> QED
    BY <1>1, <2>1, <2>2, ReturnStep
<1>5. ASSUME NEW made \in BOOLEAN, AskFails(c, made) PROVE DgIInv'
  <2>1. /\ dgRun[c] = "asking" /\ (made => dgWorkerId)
        /\ dgTask' = [dgTask EXCEPT ![c] = IF made THEN "active" ELSE @]
        /\ Return(c, FALSE, "failed") /\ "failed" \in Finals
    BY <1>5 DEF AskFails, Finals
  <2>2. dgTask[c] = "none"
    BY <1>1, <2>1 DEF TasksWereAsked
  <2>3. /\ dgTask' \in [ToolCalls -> DgTasks] /\ (dgTask'[c] # "none" => dgWorkerId)
        /\ \A d \in ToolCalls : d # c => dgTask'[d] = dgTask[d]
    BY <1>1, <2>1, <2>2 DEF DgTasks
  <2> QED
    BY <2>1, <2>2, <2>3, ReturnStep
<1>6. ASSUME NEW s \in Finals, TaskEnds(c, s) PROVE DgIInv'
  <2>1. /\ dgTask[c] = "active" /\ dgTask' = [dgTask EXCEPT ![c] = s]
        /\ UNCHANGED <<dgVia, dgWorkerId, dgOver, dgRun, dgResults>>
    BY <1>6 DEF TaskEnds
  <2>2. dgTask' \in [ToolCalls -> DgTasks] /\ \A d \in ToolCalls : d # c => dgTask'[d] = dgTask[d]
    BY <1>1, <2>1 DEF DgTasks
  <2>3. TasksWereAsked'
    BY <1>1, <2>1, <2>2 DEF TasksWereAsked
  <2>4. \A d \in ToolCalls : dgTask[d] = "completed" => dgTask'[d] = "completed"
    BY <2>1, <2>2
  <2>5. dgOver' => \A d \in ToolCalls : d >= Awaited => dgRun'[d] = "none"
    BY <1>1, <2>1 DEF OneByOne
  <2> QED
    BY <1>1, <2>1, <2>2, <2>3, <2>4, <2>5, DgGoesOn
<1> QED
  BY <1>2, <1>3, <1>4, <1>5, <1>6

\* Every step, and a stutter.
LEMMA DgNexts == DgIInv /\ [DgNext]_dgVars => DgIInv'
<1> SUFFICES ASSUME DgIInv, [DgNext]_dgVars PROVE DgIInv'
  OBVIOUS
<1>1. CASE ExecutorTimesOut
  <2>1. /\ Awaited \in ToolCalls /\ dgRun[Awaited] \in {"asking", "polling"}
        /\ Result(Awaited, FALSE, "failed") /\ "failed" \in Finals
        /\ UNCHANGED <<dgVia, dgWorkerId, dgRun, dgTask>>
    BY <1>1 DEF ExecutorTimesOut, Waiting, Finals
  <2>2. ~dgOver
    BY <2>1, DgLen DEF DgIInv, OneByOne
  <2>3. TasksWereAsked' /\ dgRun' \in [ToolCalls -> DgRuns] /\ dgTask' \in [ToolCalls -> DgTasks]
    BY <2>1 DEF DgIInv, DgTyped, TasksWereAsked
  <2> QED
    BY <2>1, <2>2, <2>3, DgAnswers
<1>2. CASE UNCHANGED dgVars
  BY <1>2 DEF dgVars, DgIInv, DgTyped, InOrder, OneByOne, TasksWereAsked, Awaited
<1> QED
  BY <1>1, <1>2, StartStep, DelegationStep DEF DgNext

\* What the invariant says of the states.
LEMMA DgHolds == DgIInv => DelegationsSafe
<1> SUFFICES ASSUME DgIInv PROVE DelegationsSafe
  OBVIOUS
<1>1. DOMAIN dgResults = 1..Len(dgResults) /\ Len(dgResults) \in Nat
  BY DgLen
<1>2. InOrder /\ OneByOne /\ TasksWereAsked
  BY DEF DgIInv
<1>3. DgTypeOK
  <2>1. \A i \in 1..Len(dgResults) : dgVia = "executor" /\ i < Len(dgResults) => dgResults[i].success
    <3>1. \A i \in 1..Len(dgResults) : i < Len(dgResults) => i # Len(dgResults)
      <4>1. \A n \in Nat : \A i \in 1..n : i < n => i # n
        OBVIOUS
      <4> QED
        BY <1>1, <4>1
    <3>2. \A i \in 1..Len(dgResults) : dgVia = "executor" /\ ~dgResults[i].success => i = Len(dgResults)
      BY <1>2 DEF InOrder
    <3> QED
      BY <3>1, <3>2
  <2>2. Len(dgResults) <= MaxToolCalls
    BY DgLen
  <2>3. dgOver \in BOOLEAN /\ dgRun \in [ToolCalls -> DgRuns] /\ dgTask \in [ToolCalls -> DgTasks]
    BY DEF DgIInv, DgTyped
  <2>4. \A i \in 1..Len(dgResults) :
          dgResults[i].call = i /\ (dgResults[i].success => dgResults[i].state = "completed")
    BY <1>2 DEF InOrder
  <2> QED
    BY <1>1, <2>1, <2>2, <2>3, <2>4 DEF DgTypeOK, DgRuns, DgTasks
<1>4. SuccessIsCompleted
  BY <1>1, <1>2 DEF SuccessIsCompleted, InOrder
<1>5. AbandonedWasReported
  <2> SUFFICES ASSUME NEW c \in DOMAIN dgResults, dgTask[c] = "active"
               PROVE  /\ ~dgResults[c].success
                      /\ (\E d \in ToolCalls : d > c /\ dgTask[d] # "none") => dgVia = "persistent"
    BY DEF AbandonedWasReported
  <2>1. ~dgResults[c].success
    BY <1>4 DEF SuccessIsCompleted
  <2>2. ASSUME NEW d \in ToolCalls, d > c, dgTask[d] # "none" PROVE dgVia = "persistent"
    <3>1. dgWorkerId /\ dgRun[d] # "none"
      BY <1>2, <2>2 DEF TasksWereAsked
    <3>2. dgVia # "agent" /\ dgVia \in {"agent", "executor", "persistent"}
      BY <3>1 DEF DgIInv, DgTyped
    <3>3. dgVia = "executor" => dgOver /\ c = Len(dgResults)
      BY <1>1, <1>2, <2>1 DEF InOrder
    <3>4. dgOver => ~(d >= Awaited)
      BY <1>2, <3>1 DEF OneByOne
    <3>5. c = Len(dgResults) => d >= Awaited
      BY <2>2, DgLen
    <3> QED
      BY <3>2, <3>3, <3>4, <3>5
  <2> QED
    BY <2>1, <2>2
<1> QED
  BY <1>3, <1>4, <1>5 DEF DelegationsSafe

\* DelegationsSafe: for any number of tool calls, each gets one result in its place, and a
\* delegated one succeeds only when its own task did (agent/tool-calling.ts,
\* tools/worker-delegation.ts).
THEOREM DelegationsStaySafe == DgSpec => []DelegationsSafe
  BY DgInits, DgNexts, DgHolds, PTL DEF DgSpec
=============================================================================
