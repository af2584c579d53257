------------------------------ MODULE TerminalUI ------------------------------
(***************************************************************************)
(* The terminal user interface (pkg/tui): Model.Update and the commands it *)
(* starts.                                                                 *)
(*                                                                         *)
(* Update runs in one goroutine and takes one message at a time; a command *)
(* is a goroutine of its own that works on the model as it was when the    *)
(* command was made, and whose result is a message in its turn.  The       *)
(* client (see ReconnectingClient) is here a link that Dial makes and the  *)
(* monitor restores; a lost link breaks the streams on it.  The server's   *)
(* part (sessions, answers) is external.                                   *)
(***************************************************************************)
EXTENDS Naturals, FiniteSets, Sequences

CONSTANTS
    MaxTexts,       \* messages typed (bound)
    MaxAnswers,     \* answers and error events of the server (bound)
    MaxLosses,      \* times the link is lost (bound)
    MaxControls      \* times ctrl+r and ctrl+l are pressed (bound)

ASSUME TuAssumption == {MaxTexts, MaxAnswers, MaxLosses, MaxControls} \subseteq Nat

VARIABLES
    tuLink,         \* the client's connection is ready
    tuDialed,       \* dials that succeeded; a monitor exists from the first on
    tuClosed,       \* the client is closed
    tuSessions,     \* the state of each session at the server: "open", "closed"
    tuStreams,      \* the streams: [session, in, broken, sent]
    tuSession,      \* Model.sessionID
    tuStream,       \* Model.stream: the number of a stream, 0 for nil
    tuStatus,       \* the status bar: "connecting", "connected", "error"
    tuItems,        \* the sessions list: [ids, active]
    tuQuit,         \* "no", "quitting", or how the program ended
    tuCmds,         \* commands, by number: what they do, the copy they use, their message
    tuKeys          \* keys and events so far: [texts, answers, losses, retries]

tuServer == <<tuLink, tuDialed, tuClosed, tuSessions, tuStreams>>
tuModel == <<tuSession, tuStream, tuStatus, tuItems, tuQuit>>
tuVars == <<tuServer, tuModel, tuCmds, tuKeys>>

\* A command, with what it takes from the model.
TuCmd(at, session, stream) == [at |-> at, session |-> session, stream |-> stream, ids |-> {}]

\* NewModel and Init: a session is created at once.
TuInit ==
    /\ tuLink = FALSE /\ tuDialed = 0 /\ tuClosed = FALSE /\ tuSessions = << >> /\ tuStreams = << >>
    /\ tuSession = 0 /\ tuStream = 0 /\ tuStatus = "connecting" /\ tuQuit = "no"
    /\ tuItems = [ids |-> {}, active |-> 0]
    /\ tuCmds = [i \in {1} |-> TuCmd("dial", 0, 0)]
    /\ tuKeys = [texts |-> 0, answers |-> 0, losses |-> 0, retries |-> 0]

Ended == tuQuit \notin {"no", "quitting"}

Counts(key) == tuKeys' = [tuKeys EXCEPT ![key] = @ + 1]

\* A goroutine is started, under a number that is free; one is gone.
FreeNumber(cmds) == CHOOSE k \in 1..Cardinality(DOMAIN cmds) + 1 : k \notin DOMAIN cmds
With(cmds, cmd) ==
    LET k == FreeNumber(cmds) IN [j \in DOMAIN cmds \cup {k} |-> IF j = k THEN cmd ELSE cmds[j]]
Took(i) == [j \in DOMAIN tuCmds \ {i} |-> tuCmds[j]]

Starts(cmd) == tuCmds' = With(tuCmds, cmd)
CmdGoes(i, at) == tuCmds' = [tuCmds EXCEPT ![i].at = at]

-----------------------------------------------------------------------------
(* The link and the server.                                                *)

Broken(streams) == [s \in DOMAIN streams |-> [streams[s] EXCEPT !.broken = TRUE]]

LinkLost ==
    /\ tuLink /\ tuKeys.losses < MaxLosses /\ Counts("losses")
    /\ tuLink' = FALSE /\ tuStreams' = Broken(tuStreams)
    /\ UNCHANGED <<tuDialed, tuClosed, tuSessions, tuModel, tuCmds>>

LinkRestored ==
    /\ ~tuLink /\ tuDialed > 0 /\ ~tuClosed /\ tuLink' = TRUE
    /\ UNCHANGED <<tuDialed, tuClosed, tuSessions, tuStreams, tuModel, tuCmds, tuKeys>>

ServerAnswers(s) ==
    /\ ~tuStreams[s].broken /\ tuStreams[s].sent /\ tuKeys.answers < MaxAnswers /\ Counts("answers")
    /\ \E what \in {"answer", "error"} : tuStreams' = [tuStreams EXCEPT ![s].in = Append(@, what)]
    /\ UNCHANGED <<tuLink, tuDialed, tuClosed, tuSessions, tuModel, tuCmds>>

-----------------------------------------------------------------------------
(* Commands.  Those of a model without session or stream fail at once.     *)

\* createSessionCmd and retryConnectionCmd: Dial fails on a closed client, and on
\* one that is connected ("already connected").
CmdDial(i) ==
    /\ tuCmds[i].at = "dial"
    /\ \/ /\ ~tuClosed /\ ~tuLink /\ tuLink' = TRUE /\ tuDialed' = tuDialed + 1 /\ CmdGoes(i, "create")
       \/ CmdGoes(i, "failed") /\ UNCHANGED <<tuLink, tuDialed>>
    /\ UNCHANGED <<tuClosed, tuSessions, tuStreams, tuModel, tuKeys>>

CmdCreate(i) ==
    /\ tuCmds[i].at = "create"
    /\ \/ /\ tuLink /\ tuSessions' = Append(tuSessions, "open")
          /\ tuCmds' = [tuCmds EXCEPT ![i].at = "created", ![i].session = Len(tuSessions) + 1]
       \/ CmdGoes(i, "failed") /\ UNCHANGED tuSessions
    /\ UNCHANGED <<tuLink, tuDialed, tuClosed, tuStreams, tuModel, tuKeys>>

CmdInitStream(i) ==
    /\ tuCmds[i].at = "open"
    /\ \/ /\ tuLink
          /\ tuStreams' = Append(tuStreams, [session |-> tuCmds[i].session, in |-> << >>, broken |-> FALSE, sent |-> FALSE])
          /\ tuCmds' = [tuCmds EXCEPT ![i] = TuCmd("opened", 0, Len(tuStreams) + 1)]
       \/ CmdGoes(i, "failed") /\ UNCHANGED tuStreams
    /\ UNCHANGED <<tuLink, tuDialed, tuClosed, tuSessions, tuModel, tuKeys>>

CmdSend(i) ==
    LET s == tuCmds[i].stream IN
    /\ tuCmds[i].at = "send"
    /\ IF s = 0 \/ tuStreams[s].broken THEN CmdGoes(i, "failed") /\ UNCHANGED tuStreams
       ELSE CmdGoes(i, "read") /\ tuStreams' = [tuStreams EXCEPT ![s].sent = TRUE]
    /\ UNCHANGED <<tuLink, tuDialed, tuClosed, tuSessions, tuModel, tuKeys>>

\* waitForStreamMsgCmd: an error event ends the wait like an error of the stream.
CmdRead(i) ==
    LET s == tuCmds[i].stream IN
    /\ tuCmds[i].at = "read"
    /\ \/ tuStreams[s].broken /\ CmdGoes(i, "failed") /\ UNCHANGED tuStreams
       \/ /\ tuStreams[s].in # << >> /\ tuStreams' = [tuStreams EXCEPT ![s].in = Tail(@)]
          /\ CmdGoes(i, IF Head(tuStreams[s].in) = "error" THEN "failed" ELSE "received")
    /\ UNCHANGED <<tuLink, tuDialed, tuClosed, tuSessions, tuModel, tuKeys>>

\* listSessionsCmd.
CmdList(i) ==
    /\ tuCmds[i].at = "list"
    /\ \/ tuLink /\ tuCmds' = [tuCmds EXCEPT ![i].at = "listed",
                                             ![i].ids = {s \in DOMAIN tuSessions : tuSessions[s] = "open"}]
       \/ CmdGoes(i, "unlisted")
    /\ UNCHANGED <<tuServer, tuModel, tuKeys>>

\* shutdownCmd: closes the session (a failure is only logged), then the client.
CmdCloseSession(i) ==
    LET s == tuCmds[i].session IN
    /\ tuCmds[i].at = "close session" /\ CmdGoes(i, "close client")
    /\ tuSessions' = IF s # 0 /\ tuLink THEN [tuSessions EXCEPT ![s] = "closed"] ELSE tuSessions
    /\ UNCHANGED <<tuLink, tuDialed, tuClosed, tuStreams, tuModel, tuKeys>>

CmdCloseClient(i) ==
    /\ tuCmds[i].at = "close client" /\ CmdGoes(i, "complete")
    /\ tuClosed' = TRUE /\ tuLink' = FALSE /\ tuStreams' = Broken(tuStreams)
    /\ UNCHANGED <<tuDialed, tuSessions, tuModel, tuKeys>>

Command(i) ==
    \/ CmdDial(i) \/ CmdCreate(i) \/ CmdInitStream(i) \/ CmdSend(i) \/ CmdRead(i) \/ CmdList(i)
    \/ CmdCloseSession(i) \/ CmdCloseClient(i)

-----------------------------------------------------------------------------
(* Update.  The messages of several commands come in any order.            *)

\* While the program quits, any message ends it, and the commands with it:
\* shutdownCmd may not be done.
QuitOn(how) ==
    /\ tuQuit = "quitting" /\ tuQuit' = how /\ tuCmds' = [i \in {} |-> tuCmds[i]]
    /\ UNCHANGED <<tuServer, tuSession, tuStream, tuStatus, tuItems, tuKeys>>

QuitMessage(i) ==
    /\ tuCmds[i].at \in {"failed", "created", "opened", "received", "listed", "unlisted", "complete"}
    /\ QuitOn(IF tuCmds[i].at = "complete" THEN "shut down" ELSE "interrupted")

SessionCreated(i) ==
    LET id == tuCmds[i].session IN
    /\ tuQuit = "no" /\ tuCmds[i].at = "created"
    /\ tuSession' = id /\ tuStatus' = "connected" /\ tuItems' = [ids |-> {id}, active |-> id]
    /\ tuCmds' = With(Took(i), TuCmd("open", id, 0))
    /\ UNCHANGED <<tuServer, tuStream, tuQuit, tuKeys>>

\* SessionCreateFailedMsg and StreamSendFailedMsg, of whichever stream.
CmdFailed(i) ==
    /\ tuQuit = "no" /\ tuCmds[i].at = "failed"
    /\ tuStatus' = "error" /\ tuCmds' = Took(i)
    /\ UNCHANGED <<tuServer, tuSession, tuStream, tuItems, tuQuit, tuKeys>>

StreamInitialized(i) ==
    /\ tuQuit = "no" /\ tuCmds[i].at = "opened"
    /\ tuStream' = tuCmds[i].stream /\ tuCmds' = Took(i)
    /\ UNCHANGED <<tuServer, tuSession, tuStatus, tuItems, tuQuit, tuKeys>>

\* A plausible slip: one answer per message.
StreamMsgReceivedOnce(i) ==
    /\ tuQuit = "no" /\ tuCmds[i].at = "received" /\ tuCmds' = Took(i)
    /\ UNCHANGED <<tuServer, tuModel, tuKeys>>

\* The answer is shown, and the next one waited for on the stream of the model.
StreamMsgReceived(i) ==
    /\ tuQuit = "no" /\ tuCmds[i].at = "received"
    /\ tuCmds' = With(Took(i), TuCmd("read", 0, tuStream))
    /\ UNCHANGED <<tuServer, tuModel, tuKeys>>

SessionsListed(i) ==
    /\ tuQuit = "no" /\ tuCmds[i].at \in {"listed", "unlisted"} /\ tuCmds' = Took(i)
    /\ LET ids == tuCmds[i].ids IN
       tuItems' = IF tuCmds[i].at = "listed"
                  THEN [ids |-> ids, active |-> IF tuSession \in ids THEN tuSession ELSE 0]
                  ELSE IF tuSession # 0 THEN [ids |-> {tuSession}, active |-> tuSession] ELSE tuItems
    /\ UNCHANGED <<tuServer, tuSession, tuStream, tuStatus, tuQuit, tuKeys>>

-----------------------------------------------------------------------------
(* Keys.                                                                   *)

KeyEnter ==
    /\ tuQuit = "no" /\ tuKeys.texts < MaxTexts /\ Counts("texts")
    /\ Starts(TuCmd("send", 0, tuStream))
    /\ UNCHANGED <<tuServer, tuModel>>

KeyRetry ==
    /\ tuQuit = "no" /\ tuStatus = "error" /\ tuKeys.retries < MaxControls /\ Counts("retries")
    /\ tuStatus' = "connecting" /\ Starts(TuCmd("dial", 0, 0))
    /\ UNCHANGED <<tuServer, tuSession, tuStream, tuItems, tuQuit>>

KeyList ==
    /\ tuQuit = "no" /\ tuKeys.retries < MaxControls /\ Counts("retries")
    /\ Starts(TuCmd("list", 0, 0))
    /\ UNCHANGED <<tuServer, tuModel>>

KeyQuit ==
    /\ tuQuit = "no" /\ tuQuit' = "quitting"
    /\ Starts(TuCmd("close session", tuSession, 0))
    /\ UNCHANGED <<tuServer, tuSession, tuStream, tuStatus, tuItems, tuKeys>>

KeyWhileQuitting == QuitOn("interrupted")

TuNext ==
    /\ ~Ended
    /\ \/ LinkLost \/ LinkRestored \/ \E s \in DOMAIN tuStreams : ServerAnswers(s)
       \/ \E i \in DOMAIN tuCmds :
            \/ Command(i) \/ QuitMessage(i)
            \/ SessionCreated(i) \/ CmdFailed(i) \/ StreamInitialized(i) \/ StreamMsgReceived(i) \/ SessionsListed(i)
       \/ KeyEnter \/ KeyRetry \/ KeyList \/ KeyQuit \/ KeyWhileQuitting

TuSpec == TuInit /\ [][TuNext]_tuVars

-----------------------------------------------------------------------------
(* Properties                                                              *)

\* Whatever a command refers to exists; each text, key and dial leaves at most
\* one command behind, and each command at most one.
TuTypeOK ==
    /\ {tuLink, tuClosed} \subseteq BOOLEAN /\ tuDialed \in 0..MaxControls + 1
    /\ tuSessions \in Seq({"open", "closed"}) /\ tuSession \in 0..Len(tuSessions)
    /\ tuStreams \in Seq([session : DOMAIN tuSessions, in : Seq({"answer", "error"}),
                          broken : BOOLEAN, sent : BOOLEAN])
    /\ tuStream \in 0..Len(tuStreams)
    /\ tuStatus \in {"connecting", "connected", "error"}
    /\ tuQuit \in {"no", "quitting", "shut down", "interrupted"}
    /\ \A i \in DOMAIN tuCmds : tuCmds[i].stream \in 0..Len(tuStreams) /\ tuCmds[i].session \in 0..Len(tuSessions)
    /\ Cardinality(DOMAIN tuCmds) <= (IF tuStream = 0 THEN 1 ELSE 0) + tuKeys.texts + tuKeys.retries + (IF tuQuit = "quitting" THEN 1 ELSE 0)

\* Once a message went out on the stream of the current session and no error is
\* shown, somebody reads that stream: an answer is never left lying (update.go:177).
SomeoneListens ==
    tuQuit = "no" /\ tuStatus = "connected" /\ tuStream # 0
    /\ tuStreams[tuStream].session = tuSession /\ tuStreams[tuStream].sent =>
        \E i \in DOMAIN tuCmds : tuCmds[i].stream = tuStream /\ tuCmds[i].at \in {"read", "received", "failed"}

\* A program told to quit is on its way: the command that ends it is running or
\* its message waits, and if nothing overtook it, the session is closed unless
\* the link failed (model.go:302, update.go:14).
QuitIsUnderway ==
    /\ tuQuit = "quitting" =>
         \E i \in DOMAIN tuCmds : tuCmds[i].at \in {"close session", "close client", "complete"}
    /\ tuQuit = "shut down" =>
         tuClosed /\ (tuSession # 0 /\ tuSessions[tuSession] = "open" => tuKeys.losses > 0)

\* The session marked active in the list is the one messages go to, however the
\* answers to ctrl+l and ctrl+r overtake each other (update.go:199).
ActiveIsCurrent == tuItems.active \in {0, tuSession}

\* Keys, answers, losses and dials overtake each other, and still somebody listens to
\* the current stream, the list marks the session in use, and a program told to quit does (model.go, update.go).
TerminalSafe ==
    /\ TuTypeOK
    /\ SomeoneListens
    /\ QuitIsUnderway
    /\ ActiveIsCurrent
=============================================================================
