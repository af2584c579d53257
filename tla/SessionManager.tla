--------------------------- MODULE SessionManager ---------------------------
(***************************************************************************)
(* The session manager of pkg/session: manager.go on top of the state      *)
(* machine of state.go and the files of persistence.go, with the cleanup   *)
(* goroutine, Close, crashes at any point and RestoreSessions at boot.     *)
(*                                                                         *)
(* Every operation holds Manager.mu from its first to its last line, so an *)
(* operation is one action; the exceptions are Close, which waits for the  *)
(* cleanup goroutine while it holds the lock, and a crash in the middle of *)
(* an append.  Owners are numbered in the order in which ReadDir returns   *)
(* their directories; owner 0 is the empty string, whose files lie in the  *)
(* storage root and not in a directory of their own.                       *)
(***************************************************************************)
EXTENDS Naturals, Sequences, FiniteSets

CONSTANTS
    Messages,       \* the messages callers add, each with its own ID
    Garbage,        \* a line json.Unmarshal rejects
    Sessions,       \* session identifiers
    Owners,         \* owner identifiers, a set of naturals
    Containers,     \* container identifiers
    MaxSessions,    \* SessionConfig.MaxSessions, 0 for no limit
    MaxContainers,  \* types.SessionConfig.MaxContainers, 0 for no limit
    Persistence,    \* SessionConfig.PersistenceEnabled
    Extents,        \* how much of a failing or crashing append may be written
    MaxCrashes,     \* bound on crashes and restarts
    Absent          \* no such session in Manager.sessions

ASSUME StoreAssumption == Garbage \notin Messages

-----------------------------------------------------------------------------
(* The JSONL files of persistence.go.  A file is a sequence of lines.  A   *)
(* line is the message it parses to, or Garbage when it does not parse;    *)
(* content is abstracted to the message's identity.  open says that the    *)
(* last line has no newline yet: the next append continues that line, and  *)
(* two JSON objects on one line, or a fragment and an object, do not       *)
(* parse.                                                                  *)

File == [exists : BOOLEAN, lines : Seq(Messages \cup {Garbage}), open : BOOLEAN]

NoFile == [exists |-> FALSE, lines |-> <<>>, open |-> FALSE]

\* How much of an append reaches the file: the line with its newline, the line
\* without it, a fragment of the JSON text, or nothing (the file is created).
Extent == {"whole", "noeol", "partial", "nothing"}

\* Mutant of Write: opens without O_APPEND, truncating the file.
WriteTruncating(f, m, extent) ==
    [exists |-> TRUE, open |-> FALSE,
     lines |-> IF extent = "nothing" THEN <<>> ELSE <<m>>]

\* Opening with O_CREATE|O_APPEND and writing, up to some extent.
Write(f, m, extent) ==
    CASE extent = "nothing" -> [f EXCEPT !.exists = TRUE]
      [] extent # "nothing" /\ f.open ->
           [exists |-> TRUE, open |-> extent # "whole",
            lines |-> [f.lines EXCEPT ![Len(f.lines)] = Garbage]]
      [] extent # "nothing" /\ ~f.open ->
           [exists |-> TRUE, open |-> extent # "whole",
            lines |-> Append(f.lines, IF extent = "partial" THEN Garbage ELSE m)]

\* Mutant of LoadMessages: stops at the first corrupted line.
LoadMessagesUntilGarbage(f) ==
    LET n == Cardinality({i \in 1..Len(f.lines) : \A j \in 1..i : f.lines[j] # Garbage})
    IN SubSeq(f.lines, 1, n)

\* Corrupted lines are skipped: the k-th message is the k-th of the lines that parse.
LoadMessages(f) ==
    LET kept == {i \in 1..Len(f.lines) : f.lines[i] # Garbage}
        rank(i) == Cardinality({j \in kept : j <= i})
    IN  [k \in 1..Cardinality(kept) |-> f.lines[CHOOSE i \in kept : rank(i) = k]]

-----------------------------------------------------------------------------
(* The manager.                                                            *)

ASSUME ManagerAssumption ==
    /\ Owners \subseteq Nat
    /\ MaxSessions \in Nat /\ MaxContainers \in Nat /\ MaxCrashes \in Nat
    /\ Persistence \in BOOLEAN
    /\ Extents \subseteq Extent

VARIABLES
    mgr,       \* "open", "closing" (Close holds mu), "closed", "down"
    loop,      \* cleanupLoop: "select", "cleanup" (the ticker fired), "gone"
    sessions,  \* Manager.sessions
    files,     \* the session file of each owner and session
    born,      \* history: identifiers given out
    sent,      \* history: messages passed to AddMessage
    acked,     \* history: acknowledged messages per owner at the time and session, in order
    torn,      \* history: appends per owner and session that left a line open
    crashes    \* crashes and restarts so far

history == <<born, sent, acked, torn, crashes>>
vars == <<mgr, loop, sessions, files, history>>

State == {"initializing", "active", "idle", "closing", "closed"}

Session == [sm : State, State : State,
            Status : {"running", "stopping", "stopped"}, owner : Owners,
            msgs : Seq(Messages), containers : SUBSET Containers,
            expiry : {"never", "pending", "past"}]

ASSUME AbsentAssumption == Absent \notin Session

TypeOK ==
    /\ mgr \in {"open", "closing", "closed", "down"}
    /\ loop \in {"select", "cleanup", "gone"}
    /\ sessions \in [Sessions -> Session \cup {Absent}]
    /\ files \in [Owners -> [Sessions -> File]]
    /\ born \subseteq Sessions
    /\ sent \subseteq Messages
    /\ acked \in [Owners -> [Sessions -> Seq(Messages)]]
    /\ torn \in [Owners -> [Sessions -> Nat]]
    /\ crashes \in Nat

-----------------------------------------------------------------------------
(* The state machine.                                                      *)

Transitions ==
    [initializing |-> {"active", "closed"},
     active       |-> {"idle", "closing", "closed"},
     idle         |-> {"active", "closing", "closed"},
     closing      |-> {"closed"},
     closed       |-> {}]

CanTransition(x, target) == target \in Transitions[x.sm]

\* A refused transition leaves the session as it is; the callers that can meet
\* one ignore the error.
Transition(x, target) ==
    IF x.sm = target \/ CanTransition(x, target)
    THEN [x EXCEPT !.sm = target, !.State = target]
    ELSE x

\* Mutant of IsTerminal: takes closing for the last state.
IsTerminalClosing(x) == x.sm = "closing"

IsTerminal(x) == x.sm = "closed"
IsActive(x) == x.sm \in {"active", "idle"}

-----------------------------------------------------------------------------
Init ==
    /\ mgr = "open"
    /\ loop = "select"
    /\ sessions = [s \in Sessions |-> Absent]
    /\ files = [o \in Owners |-> [s \in Sessions |-> NoFile]]
    /\ born = {} /\ sent = {}
    /\ acked = [o \in Owners |-> [s \in Sessions |-> <<>>]]
    /\ torn = [o \in Owners |-> [s \in Sessions |-> 0]]
    /\ crashes = 0

InMemory == {s \in Sessions : sessions[s] # Absent}

\* The operations below run under mu and return early once the manager closed.
Live(s) == mgr = "open" /\ s \in InMemory

Replace(s, x) == sessions' = [sessions EXCEPT ![s] = x]

Create(s, o, expiry) ==
    /\ mgr = "open"
    /\ s \notin born
    /\ MaxSessions > 0 => Cardinality(InMemory) < MaxSessions
    /\ Replace(s, Transition([sm |-> "initializing", State |-> "initializing",
                              Status |-> "running", owner |-> o, msgs |-> <<>>,
                              containers |-> {}, expiry |-> expiry], "active"))
    /\ born' = born \cup {s}
    /\ UNCHANGED <<mgr, loop, files, sent, acked, torn, crashes>>

\* The metadata is replaced as a whole, the owner included: what is appended next
\* goes to the file of the new owner.
Update(s, o) ==
    /\ Live(s)
    /\ ~IsTerminal(sessions[s])
    /\ Replace(s, [sessions[s] EXCEPT !.owner = o])
    /\ UNCHANGED <<mgr, loop, files, history>>

CloseSession(s) ==
    /\ Live(s)
    /\ ~IsTerminal(sessions[s])
    /\ Replace(s, [Transition(sessions[s], "closed") EXCEPT !.Status = "stopped"])
    /\ UNCHANGED <<mgr, loop, files, history>>

Delete(s) ==
    /\ Live(s)
    /\ IsTerminal(sessions[s])
    /\ Replace(s, Absent)
    /\ UNCHANGED <<mgr, loop, files, history>>

AddContainer(s, c) ==
    /\ Live(s)
    /\ ~IsTerminal(sessions[s])
    /\ MaxContainers > 0 => Cardinality(sessions[s].containers) < MaxContainers
    /\ c \notin sessions[s].containers
    /\ Replace(s, [sessions[s] EXCEPT !.containers = @ \cup {c}])
    /\ UNCHANGED <<mgr, loop, files, history>>

RemoveContainer(s, c) ==
    /\ Live(s)
    /\ c \in sessions[s].containers
    /\ Replace(s, [sessions[s] EXCEPT !.containers = @ \ {c}])
    /\ UNCHANGED <<mgr, loop, files, history>>

-----------------------------------------------------------------------------
(* Messages.                                                               *)

\* An append to the file of the session's owner that wrote this much.
AppendMessage(s, m, extent) ==
    LET o == sessions[s].owner IN
    /\ files' = IF Persistence
                THEN [files EXCEPT ![o][s] = Write(@, m, extent)] ELSE files
    /\ torn' = IF Persistence /\ extent \in {"noeol", "partial"}
               THEN [torn EXCEPT ![o][s] = @ + 1] ELSE torn
    /\ sent' = sent \cup {m}

\* The message as it joins the conversation in memory.
Remember(x, m) ==
    LET y == [x EXCEPT !.msgs = Append(@, m)]
    IN IF y.sm = "idle" THEN Transition(y, "active") ELSE y

AddMessage(s, m) ==
    /\ Live(s)
    /\ ~IsTerminal(sessions[s])
    /\ m \notin sent
    /\ AppendMessage(s, m, "whole")
    /\ Replace(s, Remember(sessions[s], m))
    /\ acked' = [acked EXCEPT ![sessions[s].owner][s] = Append(@, m)]
    /\ UNCHANGED <<mgr, loop, born, crashes>>

\* Mutant of AddMessageFails: the error is logged only, the message acknowledged.
AddMessageFailsAcked(s, m) ==
    /\ Live(s)
    /\ Persistence
    /\ ~IsTerminal(sessions[s])
    /\ m \notin sent
    /\ \E extent \in Extents : AppendMessage(s, m, extent)
    /\ acked' = [acked EXCEPT ![sessions[s].owner][s] = Append(@, m)]
    /\ UNCHANGED <<mgr, loop, sessions, born, crashes>>

\* Write or Sync fails: the error is returned and memory stays as it was, the
\* file keeps what reached it.
AddMessageFails(s, m) ==
    /\ Live(s)
    /\ Persistence
    /\ ~IsTerminal(sessions[s])
    /\ m \notin sent
    /\ \E extent \in Extents : AppendMessage(s, m, extent)
    /\ UNCHANGED <<mgr, loop, sessions, born, acked, crashes>>

\* The process dies; memory is lost.
Die ==
    /\ crashes < MaxCrashes
    /\ crashes' = crashes + 1
    /\ mgr' = "down"
    /\ loop' = "gone"
    /\ sessions' = [s \in Sessions |-> Absent]

Crash ==
    /\ mgr # "down"
    /\ Die
    /\ UNCHANGED <<files, born, sent, acked, torn>>

CrashInAddMessage(s, m) ==
    /\ Live(s)
    /\ Persistence
    /\ ~IsTerminal(sessions[s])
    /\ m \notin sent
    /\ \E extent \in Extents : AppendMessage(s, m, extent)
    /\ Die
    /\ UNCHANGED <<born, acked>>

-----------------------------------------------------------------------------
(* Boot and RestoreSessions.                                               *)

\* The directories that have a file for the session; the storage root is not
\* a directory of it.
Directories(s) == {o \in Owners \ {0} : files[o][s].exists}

Restored(s) ==
    LET o == CHOOSE p \in Directories(s) : \A q \in Directories(s) : p <= q
    IN [sm |-> "initializing", State |-> "idle", Status |-> "running",
        owner |-> o, msgs |-> LoadMessages(files[o][s]), containers |-> {},
        expiry |-> "never"]

\* A new process: New starts the cleanup goroutine, Bootstrap restores.
Boot ==
    /\ mgr = "down"
    /\ mgr' = "open"
    /\ loop' = "select"
    /\ sessions' = [s \in Sessions |->
                      IF Persistence /\ Directories(s) # {} THEN Restored(s) ELSE Absent]
    /\ UNCHANGED <<files, history>>

-----------------------------------------------------------------------------
(* The cleanup goroutine, the clock and Close.                             *)

\* ExpiresAt passes.
Expire(s) ==
    /\ s \in InMemory
    /\ sessions[s].expiry = "pending"
    /\ Replace(s, [sessions[s] EXCEPT !.expiry = "past"])
    /\ UNCHANGED <<mgr, loop, files, history>>

\* The ticker's case of the select, also when stopCleanup is closed already.
Tick ==
    /\ loop = "select"
    /\ loop' = "cleanup"
    /\ UNCHANGED <<mgr, sessions, files, history>>

\* One pass over a session; quiet says that IdleTimeout has elapsed for it.
Clean(x, quiet) ==
    CASE IsTerminal(x) -> x
      [] ~IsTerminal(x) /\ x.expiry = "past" ->
           [Transition(x, "closing") EXCEPT !.Status = "stopping"]
      [] ~IsTerminal(x) /\ x.expiry # "past" ->
           IF x.sm = "active" /\ quiet THEN Transition(x, "idle") ELSE x

cleanup ==
    /\ loop = "cleanup"
    /\ mgr \in {"open", "closed"}
    /\ \E quiet \in SUBSET InMemory :
         sessions' = [s \in Sessions |->
             IF s \in InMemory THEN Clean(sessions[s], s \in quiet) ELSE Absent]
    /\ loop' = "select"
    /\ UNCHANGED <<mgr, files, history>>

CloseBegin ==
    /\ mgr = "open"
    /\ mgr' = "closing"
    /\ UNCHANGED <<loop, sessions, files, history>>

StopCleanup ==
    /\ mgr = "closing"
    /\ loop = "select"
    /\ loop' = "gone"
    /\ UNCHANGED <<mgr, sessions, files, history>>

CloseEnd ==
    /\ mgr = "closing"
    /\ loop = "gone"
    /\ mgr' = "closed"
    /\ sessions' = [s \in Sessions |->
         IF s \in InMemory /\ ~IsTerminal(sessions[s])
         THEN [Transition(sessions[s], "closed") EXCEPT !.Status = "stopped"]
         ELSE sessions[s]]
    /\ UNCHANGED <<loop, files, history>>

-----------------------------------------------------------------------------
Next ==
    \/ \E s \in Sessions, o \in Owners, e \in {"never", "pending"} : Create(s, o, e)
    \/ \E s \in Sessions, o \in Owners : Update(s, o)
    \/ \E s \in Sessions : CloseSession(s) \/ Delete(s) \/ Expire(s)
    \/ \E s \in Sessions, c \in Containers : AddContainer(s, c) \/ RemoveContainer(s, c)
    \/ \E s \in Sessions, m \in Messages :
         AddMessage(s, m) \/ AddMessageFails(s, m) \/ CrashInAddMessage(s, m)
    \/ Crash \/ Boot
    \/ Tick \/ cleanup \/ CloseBegin \/ StopCleanup \/ CloseEnd

Spec == Init /\ [][Next]_vars

\* The cleanup goroutine runs, its ticker fires, Close makes progress when it
\* can.  Callers need not call and a stopped process need not be restarted.
Fairness ==
    /\ WF_vars(Tick) /\ WF_vars(cleanup)
    /\ WF_vars(StopCleanup) /\ WF_vars(CloseEnd)

FairSpec == Spec /\ Fairness

-----------------------------------------------------------------------------
(* Properties                                                              *)

Contents(q) == {q[i] : i \in 1..Len(q)}

\* Read-only: the session takes messages from a stream.
ValidateSession(s) ==
    Live(s) /\ IsActive(sessions[s]) /\ sessions[s].expiry # "past"

\* What a restart would recover of a session.
Recoverable(s) ==
    IF Directories(s) = {} THEN <<>> ELSE Restored(s).msgs

\* The status a caller sees follows the state, whichever of cleanup,
\* CloseSession, Close and RestoreSessions set them (they set them separately).
StatusFollowsState ==
    \A s \in InMemory :
        sessions[s].Status = CASE sessions[s].State = "closed" -> "stopped"
                               [] sessions[s].State = "closing" -> "stopping"
                               [] OTHER -> "running"

\* What LoadMessages returns for an owner and a session.
OnDisk(o, s) == LoadMessages(files[o][s])

\* A message AddMessage acknowledged can be read from the file of the owner the session
\* had then, whatever crashes, failed appends and changes of the owner come after it
\* ("durability guarantees", persistence.go:302).
Durable ==
    \A o \in Owners, s \in Sessions : Contents(acked[o][s]) \subseteq Contents(OnDisk(o, s))

\* Every append that was cut short costs at most one acknowledged message: the
\* one that continues its line.
LossBounded ==
    \A o \in Owners, s \in Sessions :
        Cardinality(Contents(acked[o][s]) \ Contents(OnDisk(o, s))) <= torn[o][s]

\* Acknowledged messages come back in the order in which they were
\* acknowledged, none twice, in memory and from every file.
OrderPreserved ==
    \A o \in Owners, s \in Sessions :
        \A q \in {OnDisk(p, s) : p \in Owners} \cup {sessions[t].msgs : t \in InMemory \cap {s}} :
            \A i, j \in 1..Len(q) : i < j =>
                /\ q[i] # q[j]
                /\ \A k, l \in 1..Len(acked[o][s]) :
                       acked[o][s][k] = q[i] /\ acked[o][s][l] = q[j] => k < l

\* A session's conversation in memory never holds a message that no file of the
\* session has (AddMessage persists first).
MemoryOnDisk ==
    \A s \in InMemory :
        Contents(sessions[s].msgs) \subseteq UNION {Contents(OnDisk(o, s)) : o \in Owners}

\* A session that kept one owner, and not the empty one, is restored with everything
\* that was acknowledged.
OwnedIsRestored ==
    \A s \in Sessions, o \in Owners \ {0} :
        (\A p \in Owners \ {o} : ~files[p][s].exists) =>
            \A p \in Owners : Contents(acked[p][s]) \subseteq Contents(Recoverable(s))

\* "RestoreSessions restores all sessions from the persistence store"
\* (manager.go:702): what was acknowledged is in memory after a restart.
RestoresAll ==
    [][Boot => \A s \in Sessions, o \in Owners :
          acked[o][s] # <<>> =>
              /\ sessions'[s] # Absent
              /\ Contents(acked[o][s]) \subseteq Contents(sessions'[s].msgs)]_vars

\* A closed session takes no message and leaves the closed state only by being
\* deleted or with the process.
ClosedIsFinal ==
    [][\A s \in InMemory : sessions[s].sm = "closed" =>
          \/ sessions'[s] = Absent
          \/ sessions'[s].sm = "closed" /\ sessions'[s].msgs = sessions[s].msgs]_vars

\* A session past its expiry does not stay usable: cleanup gets to it.
ExpiredIsClosed ==
    \A s \in Sessions :
        (mgr = "open" /\ s \in InMemory /\ sessions[s].expiry = "past")
            ~> (mgr # "open" \/ s \notin InMemory \/ sessions[s].sm \in {"closing", "closed"})

\* Each file implements the log that AddMessage promises.
Log == INSTANCE DurableLog WITH
           Sessions <- Owners \X Sessions,
           log <- [f \in Owners \X Sessions |-> OnDisk(f[1], f[2])],
           acked <- [f \in Owners \X Sessions |-> Contents(acked[f[1]][f[2]])]
ImplementsLog == Log!Spec

\* "Close closes the session manager and cleans up all sessions"
\* (manager.go:472): a Close that began comes to an end.
CloseReturns == mgr = "closing" ~> mgr # "closing"

\* Through failing syncs, crashes and changes of the owner an acknowledged message stays
\* in its file, in order, memory never holds more than the files, and a session that
\* kept its owner is restored whole (manager.go:370, :702, persistence.go:253).
ConversationsDurable ==
    /\ Durable
    /\ OrderPreserved
    /\ MemoryOnDisk
    /\ OwnedIsRestored

\* Status and state agree, a closed session stays closed, and an expired one is closed
\* by the cleanup, although each is set by lines of their own (manager.go, state.go).
SessionStatesLegal ==
    /\ [](StatusFollowsState)
    /\ ClosedIsFinal
    /\ ExpiredIsClosed
=============================================================================
