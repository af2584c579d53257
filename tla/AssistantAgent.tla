---------------------------- MODULE AssistantAgent ----------------------------
(***************************************************************************)
(* The assistant agent (agents/assistant/src/agent.ts) with its session    *)
(* manager (session/manager.ts) and its stream to the orchestrator         *)
(* (StreamAgentClient of orchestrator/stream-client.ts).                   *)
(*                                                                         *)
(* The process has one thread.  A message runs from one await to the next; *)
(* the continuations of awaits on the session manager, which never wait,   *)
(* are microtasks: aaJobs holds them in their order, and timers, stream    *)
(* events and the events of a language model come when there are none.     *)
(* A tool call waits outside, like the model.                              *)
(***************************************************************************)
EXTENDS Naturals, Sequences, FiniteSets

CONSTANTS
    MaxChatMessages,    \* messages of users, numbered as they arrive (bound)
    ChatSessions,       \* their sessions
    MaxActive,          \* maxConcurrentMessages
    MaxChats            \* maxSessions of the session manager

\* The limits of the configuration are numbers (maxSessions 0 means no limit and is not
\* modelled), and a process makes finitely many sessions.
ASSUME AaAssumption ==
    MaxChatMessages \in Nat /\ MaxActive \in Nat /\ MaxChats \in Nat \ {0} /\ IsFiniteSet(ChatSessions)

VARIABLES
    aaState,        \* Agent.state
    aaReady,        \* Agent.registered, and ready
    aaLooping,      \* processMessagesLoop runs
    aaStream,       \* Agent.streamClient: "none", "connected" or "lost"
    aaQueue,        \* Agent.messageQueue
    aaActive,       \* Agent.activeMessageCount
    aaMsg,          \* messages: session, pc of processMessage, "text": the model wrote some
    aaJobs,         \* messages whose next step is a microtask
    aaSessions,     \* state of the sessions, "none" before create
    aaHistory,      \* context.messages of the sessions
    aaManager,      \* the session manager is not closed
    aaSent,         \* answers written to the stream
    aaShutdown      \* shutdown: "no", "waiting", "closing" or "done"

ChatMessages == 1..MaxChatMessages

chatMsgVars == <<aaQueue, aaActive, aaMsg, aaJobs>>
chatVars == <<aaSessions, aaHistory, aaManager>>
agentVars == <<aaState, aaReady, aaLooping, aaStream, aaShutdown>>
aaVars == <<agentVars, chatMsgVars, chatVars, aaSent>>

\* shutdown sets isShutdown first.
IsShutdown == aaShutdown # "no"
Outside == {"model", "tool"}
InMicrotask == {"missing", "found", "added", "record", "respond", "fail"}
UnderProcessing == InMicrotask \cup Outside
OpenChats == {"active", "idle"}
\* Macrotasks: timers and what arrives from outside.
AgentTurn == aaJobs = << >>

AaInit ==
    /\ aaState = "registering" /\ aaReady = FALSE /\ aaLooping = FALSE
    /\ aaStream = "none" /\ aaShutdown = "no"
    /\ aaQueue = << >> /\ aaActive = 0 /\ aaJobs = << >>
    /\ aaMsg = [m \in ChatMessages |-> [pc |-> "new", of |-> "none", text |-> FALSE]]
    /\ aaSessions = [s \in ChatSessions |-> "none"]
    /\ aaHistory = [s \in ChatSessions |-> << >>]
    /\ aaManager = TRUE /\ aaSent = << >>

-----------------------------------------------------------------------------
(* The life of the agent.                                                  *)

RegisterAssistant(connects) ==
    /\ AgentTurn /\ aaState = "registering" /\ ~aaReady /\ ~IsShutdown
    /\ aaStream = "none"
    /\ IF connects
       THEN aaStream' = "connected" /\ aaReady' = TRUE /\ aaState' = "idle"
       ELSE aaStream' = "lost" /\ UNCHANGED <<aaReady, aaState>>
    /\ UNCHANGED <<aaLooping, aaShutdown, chatMsgVars, chatVars, aaSent>>

StartLoop ==
    /\ AgentTurn /\ aaReady /\ ~aaLooping
    /\ aaLooping' = TRUE
    /\ UNCHANGED <<aaState, aaReady, aaStream, aaShutdown, chatMsgVars, chatVars, aaSent>>

\* An error or the end of the stream; the agent does not ask for reconnection.
LoseStream ==
    /\ AgentTurn /\ aaStream = "connected"
    /\ aaStream' = "lost"
    /\ UNCHANGED <<aaState, aaReady, aaLooping, aaShutdown, chatMsgVars, chatVars, aaSent>>

\* shutdown and unregister up to the wait for the messages under way; an agent
\* that was never registered has none, and keeps its stream client.
BeginShutdown ==
    /\ AgentTurn /\ ~IsShutdown
    /\ aaReady \/ aaStream = "lost"
    /\ aaReady' = FALSE
    /\ aaState' = IF aaReady THEN "unregistering" ELSE "terminated"
    /\ aaStream' = IF aaReady THEN "none" ELSE aaStream
    /\ aaShutdown' = IF aaReady THEN "waiting" ELSE "closing"
    /\ UNCHANGED <<aaLooping, chatMsgVars, chatVars, aaSent>>

ActiveDone ==
    /\ AgentTurn /\ aaShutdown = "waiting" /\ aaActive = 0
    /\ aaShutdown' = "closing" /\ aaLooping' = FALSE
    /\ UNCHANGED <<aaState, aaReady, aaStream, chatMsgVars, chatVars, aaSent>>

\* SessionManager.close.
CloseChats ==
    /\ AgentTurn /\ aaShutdown = "closing"
    /\ aaShutdown' = "done"
    /\ aaManager' = FALSE
    /\ aaSessions' = [s \in ChatSessions |->
                        IF aaSessions[s] \in OpenChats THEN "closed" ELSE aaSessions[s]]
    /\ UNCHANGED <<aaState, aaReady, aaLooping, aaStream, chatMsgVars, aaHistory, aaSent>>

\* The cleanup of the manager: maxDuration has passed, or idleTimeout.
ExpireChat(s) ==
    /\ AgentTurn /\ aaManager /\ aaSessions[s] \in OpenChats
    /\ aaSessions' = [aaSessions EXCEPT ![s] = "closed"]
    /\ UNCHANGED <<agentVars, chatMsgVars, aaHistory, aaManager, aaSent>>

IdleChat(s) ==
    /\ AgentTurn /\ aaManager /\ aaSessions[s] = "active"
    /\ aaSessions' = [aaSessions EXCEPT ![s] = "idle"]
    /\ UNCHANGED <<agentVars, chatMsgVars, aaHistory, aaManager, aaSent>>

-----------------------------------------------------------------------------
(* Messages.                                                               *)

\* A message with text and session, from the orchestrator; others are dropped.
ReceiveMessage(m, s) ==
    /\ AgentTurn /\ aaStream = "connected" /\ aaReady /\ aaMsg[m].pc = "new"
    /\ \A n \in 1..(m - 1) : aaMsg[n].pc # "new"
    /\ aaMsg' = [aaMsg EXCEPT ![m].pc = "queued", ![m].of = s]
    /\ aaQueue' = Append(aaQueue, m)
    /\ UNCHANGED <<agentVars, aaActive, aaJobs, chatVars, aaSent>>

\* SessionManager.get at the start of ensureSession.
Looked(s) == IF aaManager /\ aaSessions[s] # "none" THEN "found" ELSE "missing"

TakeFirst(n) ==
    /\ AgentTurn /\ aaLooping /\ ~IsShutdown /\ n > 0
    /\ LET taken == {aaQueue[i] : i \in 1..n}
       IN  aaMsg' = [m \in ChatMessages |->
                        IF m \in taken THEN [aaMsg[m] EXCEPT !.pc = Looked(aaMsg[m].of)] ELSE aaMsg[m]]
    /\ aaJobs' = SubSeq(aaQueue, 1, n)
    /\ aaQueue' = SubSeq(aaQueue, n + 1, Len(aaQueue))
    /\ aaActive' = aaActive + n
    /\ UNCHANGED <<agentVars, chatVars, aaSent>>

Lesser(a, b) == IF a < b THEN a ELSE b

\* The loop does not wait between two messages, so all it can take start in the
\* same turn.
TakeMessages == TakeFirst(Lesser(Len(aaQueue), MaxActive - aaActive))

\* The microtask of the first message in aaJobs: it goes on as a microtask or waits.
Hop(m, from, to) ==
    /\ aaJobs # << >> /\ m = Head(aaJobs) /\ aaMsg[m].pc = from
    /\ aaMsg' = [aaMsg EXCEPT ![m].pc = to]
    /\ aaJobs' = IF to \in InMicrotask THEN Append(Tail(aaJobs), m) ELSE Tail(aaJobs)
    /\ UNCHANGED <<agentVars, aaQueue, aaManager>>

\* SessionManager.create: not a second time, and closed sessions count, too.
CreateChat(m) ==
    LET s == aaMsg[m].of
        ok == /\ aaManager /\ aaSessions[s] = "none"
              /\ Cardinality({t \in ChatSessions : aaSessions[t] # "none"}) < MaxChats
    IN  /\ Hop(m, "missing", IF ok THEN "found" ELSE "fail")
        /\ aaSessions' = IF ok THEN [aaSessions EXCEPT ![s] = "active"] ELSE aaSessions
        /\ UNCHANGED <<aaActive, aaHistory, aaSent>>

\* SessionManager.addMessage: not in a closed session; wakes an idle one.
AddTo(m, role, from, to) ==
    LET s == aaMsg[m].of  ok == aaManager /\ aaSessions[s] \in OpenChats
    IN  /\ Hop(m, from, IF ok THEN to ELSE "fail")
        /\ aaHistory' = IF ok THEN [aaHistory EXCEPT ![s] = Append(@, [role |-> role, of |-> m])] ELSE aaHistory
        /\ aaSessions' = IF ok THEN [aaSessions EXCEPT ![s] = "active"] ELSE aaSessions
        /\ UNCHANGED <<aaActive, aaSent>>

AddQuestion(m) == AddTo(m, "user", "found", "added")

\* get once more, then the request to the model.
AskModel(m) ==
    /\ Hop(m, "added", IF aaManager THEN "model" ELSE "fail")
    /\ UNCHANGED <<aaActive, aaSessions, aaHistory, aaSent>>

\* The request and its events, the tools it calls.
ModelGoes(m, from, to) ==
    /\ AgentTurn /\ aaMsg[m].pc = from
    /\ aaMsg' = [aaMsg EXCEPT ![m].pc = to]
    /\ aaJobs' = IF to \in InMicrotask THEN <<m>> ELSE << >>
    /\ UNCHANGED <<agentVars, aaQueue, aaActive, chatVars, aaSent>>

\* Every chunk of the stream looks at isShutdown first.
ModelText(m) ==
    /\ AgentTurn /\ aaMsg[m].pc = "model" /\ ~IsShutdown
    /\ aaMsg' = [aaMsg EXCEPT ![m].text = TRUE]
    /\ UNCHANGED <<agentVars, aaQueue, aaActive, aaJobs, chatVars, aaSent>>

CallTool(m) == ~IsShutdown /\ ModelGoes(m, "model", "tool")
ToolReturns(m) == ModelGoes(m, "tool", "model")
\* An error, a chunk after the shutdown, or a tool call whose arguments do not
\* parse: they are parsed once more where the error is handled.
ModelFails(m) == ModelGoes(m, "model", "fail")
ModelEnds(m) == ModelGoes(m, "model", IF aaMsg[m].text THEN "record" ELSE "respond")

\* Mutant of RecordAnswer: writes back the context the question was asked with.
RecordAnswerStale(m) ==
    LET s == aaMsg[m].of  h == aaHistory[s]
        ok == aaManager /\ aaSessions[s] \in OpenChats
        asked == CHOOSE i \in 1..Len(h) : h[i] = [role |-> "user", of |-> m]
    IN  /\ Hop(m, "record", IF ok THEN "respond" ELSE "fail")
        /\ aaHistory' = IF ok THEN [aaHistory EXCEPT ![s] = Append(SubSeq(@, 1, asked), [role |-> "assistant", of |-> m])]
                        ELSE aaHistory
        /\ aaSessions' = IF ok THEN [aaSessions EXCEPT ![s] = "active"] ELSE aaSessions
        /\ UNCHANGED <<aaActive, aaSent>>

RecordAnswer(m) == AddTo(m, "assistant", "record", "respond")

FinishMessage(m, from, kind, sent) ==
    /\ Hop(m, from, IF sent /\ kind = "answer" THEN "done" ELSE "failed")
    /\ aaSent' = IF sent THEN Append(aaSent, [kind |-> kind, of |-> m]) ELSE aaSent
    /\ aaActive' = aaActive - 1
    /\ UNCHANGED <<aaSessions, aaHistory>>

\* Mutant of Respond: what cannot be sent is counted as processed, and the
\* message stays among the active ones.
RespondKeeps(m) ==
    /\ Hop(m, "respond", "done")
    /\ aaSent' = IF aaStream = "connected" THEN Append(aaSent, [kind |-> "answer", of |-> m]) ELSE aaSent
    /\ aaActive' = IF aaStream = "connected" THEN aaActive - 1 ELSE aaActive
    /\ UNCHANGED <<aaSessions, aaHistory>>

\* Without stream the answer fails, and so does the error that is sent instead.
Respond(m) == FinishMessage(m, "respond", "answer", aaStream = "connected")

FailMessage(m) == FinishMessage(m, "fail", "error", aaStream = "connected")

Microtask(m) ==
    \/ CreateChat(m) \/ AddQuestion(m) \/ AskModel(m)
    \/ RecordAnswer(m) \/ Respond(m) \/ FailMessage(m)

AaNext ==
    \/ \E connects \in BOOLEAN : RegisterAssistant(connects)
    \/ StartLoop \/ LoseStream \/ BeginShutdown \/ ActiveDone \/ CloseChats
    \/ \E s \in ChatSessions : ExpireChat(s) \/ IdleChat(s)
    \/ \E m \in ChatMessages, s \in ChatSessions : ReceiveMessage(m, s)
    \/ TakeMessages
    \/ \E m \in ChatMessages :
         \/ Microtask(m)
         \/ ModelText(m) \/ CallTool(m) \/ ToolReturns(m) \/ ModelFails(m) \/ ModelEnds(m)

\* Timers fire and microtasks run; a model ends its stream and a tool its call,
\* both have timeouts of their own.
AaFairness ==
    /\ WF_aaVars(TakeMessages) /\ WF_aaVars(ActiveDone) /\ WF_aaVars(CloseChats)
    /\ \A m \in ChatMessages :
         /\ WF_aaVars(Microtask(m)) /\ WF_aaVars(ToolReturns(m))
         /\ SF_aaVars(ModelEnds(m) \/ ModelFails(m))

AaSpec == AaInit /\ [][AaNext]_aaVars

-----------------------------------------------------------------------------
(* Properties                                                              *)

\* Not more messages are processed than maxConcurrentMessages, and the counter
\* unregister waits for is theirs (agent.ts:634).
AaTypeOK ==
    /\ aaState \in {"registering", "idle", "unregistering", "terminated"}
    /\ aaReady \in BOOLEAN /\ aaLooping \in BOOLEAN /\ aaManager \in BOOLEAN
    /\ aaStream \in {"none", "connected", "lost"}
    /\ aaShutdown \in {"no", "waiting", "closing", "done"}
    /\ aaMsg \in [ChatMessages -> [pc : {"new", "queued", "done", "failed"} \cup UnderProcessing,
                                   of : {"none"} \cup ChatSessions, text : BOOLEAN]]
    /\ aaQueue \in Seq(ChatMessages) /\ aaJobs \in Seq(ChatMessages)
    /\ aaSessions \in [ChatSessions -> {"none", "closed"} \cup OpenChats]
    /\ aaActive \in 0..MaxActive
    /\ aaActive = Cardinality({m \in ChatMessages : aaMsg[m].pc \in UnderProcessing})

\* A message gets one answer, or one error, or nothing when the stream is gone;
\* what counts as processed was answered (agent.ts:800).
AnsweredOnce ==
    /\ \A i, j \in 1..Len(aaSent) : aaSent[i].of = aaSent[j].of => i = j
    /\ \A m \in ChatMessages :
         aaMsg[m].pc = "done" => \E i \in 1..Len(aaSent) : aaSent[i] = [kind |-> "answer", of |-> m]

\* The context the next question of a session is asked with holds every answer
\* the user has seen, each after its question (agent.ts:735).
ContextIsComplete ==
    \A i \in 1..Len(aaSent) :
        LET m == aaSent[i].of  h == aaHistory[aaMsg[m].of]
        IN  aaSent[i].kind = "answer" /\ aaMsg[m].text =>
                \E q, a \in 1..Len(h) :
                    q < a /\ h[q] = [role |-> "user", of |-> m] /\ h[a] = [role |-> "assistant", of |-> m]

\* Messages of a session are processed in turns between their awaits: what one of
\* them put into the session is not lost to another (agent.ts:735).
HistoryGrows ==
    [][\A s \in ChatSessions :
        /\ Len(aaHistory'[s]) >= Len(aaHistory[s])
        /\ SubSeq(aaHistory'[s], 1, Len(aaHistory[s])) = aaHistory[s]]_aaVars

\* The manager keeps at most maxSessions sessions; expired ones are closed, not
\* deleted, and keep their place.
ChatsBounded == Cardinality({s \in ChatSessions : aaSessions[s] # "none"}) <= MaxChats

\* After the shutdown nothing is processed, no session is open and no message is
\* taken any more (agent.ts:381).
ShutdownIsQuiet ==
    aaShutdown = "done" =>
        /\ aaActive = 0 /\ aaJobs = << >> /\ ~aaReady /\ aaStream # "connected"
        /\ \A s \in ChatSessions : aaSessions[s] \notin OpenChats

\* A message the loop took is answered or fails, whatever its tools, its session,
\* the stream and the shutdown do meanwhile (agent.ts:655).
TakenEnds == \A m \in ChatMessages : aaMsg[m].pc \in UnderProcessing ~> aaMsg[m].pc \in {"done", "failed"}
\* A shutdown comes to its end: the counter it waits for reaches zero (agent.ts:381).
AgentShutdownEnds == IsShutdown ~> aaShutdown = "done"

\* Messages that are processed in turns between their awaits are answered once each,
\* with the whole conversation as context and without losing what another one said,
\* within the limits, and not after the shutdown (agent.ts:655, session/manager.ts).
AssistantAnswers ==
    /\ [](AaTypeOK /\ AnsweredOnce /\ ContextIsComplete /\ ChatsBounded /\ ShutdownIsQuiet)
    /\ HistoryGrows

\* Messages the loop took end and so does the shutdown that waits for them, whatever
\* tools, sessions and stream do (agent.ts:381, 655).
AssistantSettles ==
    /\ TakenEnds
    /\ AgentShutdownEnds
=============================================================================
