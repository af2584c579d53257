---------------------------- MODULE StorageProofs ----------------------------
(***************************************************************************)
(* Proofs about what the orchestrator keeps in files, for any number of    *)
(* sessions, credentials, memories, skills, messages and crashes: what a   *)
(* restart recovers, and that status, state and closing agree.  And about  *)
(* the files it is told to follow: the configuration and the policy; and   *)
(* about tools and their containers.                                       *)
(***************************************************************************)
EXTENDS MCStorage, ConfigLoading, FiniteSetTheorems, SequenceTheorems, WellFoundedInduction, TLAPS

-----------------------------------------------------------------------------
(* What LoadMessages makes of a file.                                      *)

RankIn(S, i) == Cardinality({j \in S : j <= i})

\* The ranks of a finite set of positions count it off in its order.
LEMMA RanksCount ==
    ASSUME NEW n \in Nat, NEW S \in SUBSET (1..n)
    PROVE  /\ IsFiniteSet(S) /\ Cardinality(S) \in Nat
           /\ \A i \in S : RankIn(S, i) \in 1..Cardinality(S)
           /\ \A i, j \in S : i < j => RankIn(S, i) < RankIn(S, j)
           /\ \A k \in 1..Cardinality(S) : \E i \in S : RankIn(S, i) = k
<1>1. IsFiniteSet(S) /\ Cardinality(S) \in Nat
  <2>1. IsFiniteSet(1..n)
    BY FS_Interval
  <2> QED
    BY <2>1, FS_Subset, FS_CardinalityType
<1>2. ASSUME NEW i \in S PROVE /\ IsFiniteSet({j \in S : j <= i})
                                /\ RankIn(S, i) \in 1..Cardinality(S)
  <2> DEFINE T == {j \in S : j <= i}
  <2>1. IsFiniteSet(T) /\ Cardinality(T) <= Cardinality(S) /\ Cardinality(T) \in Nat
    BY <1>1, FS_Subset, FS_CardinalityType
  <2>2. Cardinality(T) # 0
    <3>1. i \in T
      BY <1>2
    <3> QED
      BY <2>1, <3>1, FS_EmptySet
  <2> QED
    BY <1>1, <2>1, <2>2 DEF RankIn
<1>3. ASSUME NEW i \in S, NEW j \in S, i < j PROVE RankIn(S, i) < RankIn(S, j)
  <2> DEFINE T == {k \in S : k <= i}
             U == {k \in S : k <= j}
  <2>1. T \subseteq U /\ j \in U /\ j \notin T
    <3>1. \A k \in S : k \in Nat
      OBVIOUS
    <3>2. i \in Nat /\ j \in Nat /\ \A k \in S : k <= i => k <= j
      <4>1. i \in Nat /\ j \in Nat
        BY <3>1
      <4> QED
        BY <1>3, <3>1, <4>1
    <3>3. j <= j /\ ~(j <= i)
      BY <1>3, <3>2
    <3> QED
      BY <3>2, <3>3
  <2>2. IsFiniteSet(U)
    BY <1>2
  <2>3. Cardinality(T) <= Cardinality(U) /\ Cardinality(T) # Cardinality(U)
    BY <2>1, <2>2, FS_Subset
  <2>4. Cardinality(T) \in Nat /\ Cardinality(U) \in Nat
    BY <1>2, <2>2, FS_CardinalityType
  <2> QED
    BY <2>3, <2>4 DEF RankIn
<1>4. \A k \in 1..Cardinality(S) : \E i \in S : RankIn(S, i) = k
  <2> DEFINE T == 1..Cardinality(S)
             f == [i \in S |-> RankIn(S, i)]
  <2>1. IsFiniteSet(T) /\ Cardinality(T) = Cardinality(S)
    BY <1>1, FS_Interval
  <2>2. f \in [S -> T]
    BY <1>2
  <2>3. \A i, j \in S : f[i] = f[j] => i = j
    <3> SUFFICES ASSUME NEW i \in S, NEW j \in S, i # j PROVE RankIn(S, i) # RankIn(S, j)
      OBVIOUS
    <3>1. i < j \/ j < i
      OBVIOUS
    <3>2. RankIn(S, i) \in Nat /\ RankIn(S, j) \in Nat
      <4>1. \A k \in S : RankIn(S, k) \in 1..Cardinality(S)
        BY <1>2
      <4> QED
        BY <1>1, <4>1
    <3> QED
      BY <1>3, <3>1, <3>2
  <2>4. f \in Injection(S, T)
    BY <2>2, <2>3 DEF Injection, IsInjective
  <2>5. f \in Surjection(S, T)
    BY <2>1, <2>4, FS_Injection
  <2>6. \A k \in T : \E i \in S : f[i] = k
    BY <2>5 DEF Surjection
  <2> QED
    BY <2>6
<1> QED
  BY <1>1, <1>2, <1>3, <1>4

\* LoadMessages returns the lines that parse, all of them and in their order.
LEMMA LoadKeeps ==
    ASSUME NEW f \in File
    PROVE  /\ LoadMessages(f) \in Seq(Messages)
           /\ Contents(LoadMessages(f)) = Contents(f.lines) \ {Garbage}
           /\ \A i, j \in 1..Len(LoadMessages(f)) : i < j =>
                \E a, b \in 1..Len(f.lines) :
                   a < b /\ f.lines[a] = LoadMessages(f)[i] /\ f.lines[b] = LoadMessages(f)[j]
<1> DEFINE lines == f.lines
           kept == {i \in 1..Len(lines) : lines[i] # Garbage}
           n == Cardinality(kept)
           At(k) == CHOOSE i \in kept : RankIn(kept, i) = k
           q == LoadMessages(f)
<1>1. lines \in Seq(Messages \cup {Garbage}) /\ Len(lines) \in Nat
  BY DEF File
<1>2. /\ n \in Nat
      /\ \A i \in kept : RankIn(kept, i) \in 1..n
      /\ \A i, j \in kept : i < j => RankIn(kept, i) < RankIn(kept, j)
      /\ \A k \in 1..n : \E i \in kept : RankIn(kept, i) = k
  BY <1>1, RanksCount
<1>3. q = [k \in 1..n |-> lines[At(k)]]
  BY DEF LoadMessages, RankIn
<1>4. \A i \in kept : i \in 1..Len(lines) /\ lines[i] \in Messages
  BY <1>1, ElementOfSeq
<1> HIDE DEF kept, q, lines
<1>5. \A k \in 1..n : At(k) \in kept /\ RankIn(kept, At(k)) = k
  BY <1>2
<1>6. \A i \in kept : At(RankIn(kept, i)) = i
  <2> SUFFICES ASSUME NEW i \in kept PROVE At(RankIn(kept, i)) = i
    OBVIOUS
  <2>1. At(RankIn(kept, i)) \in kept /\ RankIn(kept, At(RankIn(kept, i))) = RankIn(kept, i)
    BY <1>2, <1>5
  <2>2. \A j \in kept : j < i \/ j = i \/ i < j
    BY <1>4
  <2>3. \A j \in kept : RankIn(kept, j) \in Nat
    BY <1>2
  <2> HIDE DEF At
  <2> QED
    BY <1>2, <2>1, <2>2, <2>3
<1> HIDE DEF At, n
<1>7. q \in Seq(Messages) /\ Len(q) = n
  <2>1. \A k \in 1..n : lines[At(k)] \in Messages
    BY <1>4, <1>5
  <2>2. q \in [1..n -> Messages]
    BY <1>3, <2>1
  <2> QED
    BY <1>2, <2>2
<1>8. \A k \in 1..n : q[k] = lines[At(k)] /\ At(k) \in 1..Len(lines)
  BY <1>3, <1>4, <1>5
<1>9. Contents(q) = Contents(lines) \ {Garbage}
  <2>1. ASSUME NEW m \in Contents(q) PROVE m \in Contents(lines) /\ m # Garbage
    <3>1. PICK k \in 1..n : m = q[k]
      BY <1>7, <2>1 DEF Contents
    <3>2. m = lines[At(k)] /\ At(k) \in kept /\ At(k) \in 1..Len(lines)
      BY <1>5, <1>8, <3>1
    <3> QED
      BY <3>2 DEF Contents, kept
  <2>2. ASSUME NEW m \in Contents(lines), m # Garbage PROVE m \in Contents(q)
    <3>1. PICK i \in 1..Len(lines) : m = lines[i]
      BY <2>2 DEF Contents
    <3>2. i \in kept
      BY <2>2, <3>1 DEF kept
    <3>3. RankIn(kept, i) \in 1..n /\ q[RankIn(kept, i)] = m
      BY <1>2, <1>6, <1>8, <3>1, <3>2
    <3> QED
      BY <1>7, <3>3 DEF Contents
  <2> QED
    BY <2>1, <2>2
<1>10. ASSUME NEW i \in 1..n, NEW j \in 1..n, i < j PROVE At(i) < At(j)
  <2>1. At(i) \in kept /\ At(j) \in kept /\ RankIn(kept, At(i)) = i /\ RankIn(kept, At(j)) = j
    BY <1>5
  <2>2. At(i) < At(j) \/ At(i) = At(j) \/ At(j) < At(i)
    BY <1>4, <2>1
  <2> QED
    BY <1>2, <1>10, <2>1, <2>2
<1> QED
  BY <1>7, <1>8, <1>9, <1>10 DEF q, lines

-----------------------------------------------------------------------------
(* Types.                                                                  *)

\* A set of naturals has a least element: the directory a restart reads first.
LEMMA HasLeast ==
    ASSUME NEW S \in SUBSET Nat, S # {}
    PROVE  \E x \in S : \A y \in S : x <= y
<1>1. PICK x \in S : \A y \in S : ~(<<y, x>> \in OpToRel(<, Nat))
  BY NatLessThanWellFounded, WFMin
<1>2. \A y \in S : ~(y < x)
  BY <1>1 DEF OpToRel
<1>3. \A y \in S : x <= y
  BY <1>2
<1> QED
  BY <1>3

\* Writing to a file leaves a file.
LEMMA WriteTypes ==
    ASSUME NEW f \in File, NEW m \in Messages, NEW extent \in Extent, f.open => f.lines # << >>
    PROVE  /\ Write(f, m, extent) \in File
           /\ Write(f, m, extent).exists
           /\ Write(f, m, extent).open => Write(f, m, extent).lines # << >>
<1>1. /\ f.lines \in Seq(Messages \cup {Garbage}) /\ f.exists \in BOOLEAN /\ f.open \in BOOLEAN
      /\ extent \in {"whole", "noeol", "partial", "nothing"}
  BY ManagerAssumption DEF File, Extent
<1>2. CASE extent = "nothing"
  BY <1>2 DEF Write, File
<1>3. CASE extent # "nothing" /\ f.open
  <2> DEFINE lines == [f.lines EXCEPT ![Len(f.lines)] = Garbage]
  <2>1. lines \in Seq(Messages \cup {Garbage}) /\ Len(lines) = Len(f.lines) /\ Len(f.lines) # 0
    BY <1>1, <1>3, EmptySeq
  <2>2. Write(f, m, extent) = [exists |-> TRUE, open |-> extent # "whole", lines |-> lines]
    BY <1>3 DEF Write
  <2>3. lines # << >>
    BY <2>1
  <2> HIDE DEF lines
  <2> QED
    BY <2>1, <2>2, <2>3 DEF File
<1>4. CASE extent # "nothing" /\ ~f.open
  <2> DEFINE line == IF extent = "partial" THEN Garbage ELSE m
             lines == Append(f.lines, line)
  <2>1. lines \in Seq(Messages \cup {Garbage}) /\ lines # << >>
    <3>1. line \in Messages \cup {Garbage}
      OBVIOUS
    <3> HIDE DEF line
    <3>2. lines \in Seq(Messages \cup {Garbage}) /\ Len(lines) = Len(f.lines) + 1 /\ Len(f.lines) \in Nat
      BY <1>1, <3>1
    <3> QED
      BY <3>2
  <2>2. Write(f, m, extent) = [exists |-> TRUE, open |-> extent # "whole", lines |-> lines]
    BY <1>1, <1>4 DEF Write
  <2> HIDE DEF lines
  <2> QED
    BY <2>1, <2>2 DEF File
<1> QED
  BY <1>1, <1>2, <1>3, <1>4

\* An open line is a line.
OpenHasLine == \A o \in Owners, s \in Sessions : files[o][s].open => files[o][s].lines # << >>

\* The transitions keep everything but the two states.
LEMMA TransitionTypes ==
    ASSUME NEW x \in Session, NEW target \in State
    PROVE  /\ Transition(x, target) \in Session
           /\ Transition(x, target) = x \/ Transition(x, target) = [x EXCEPT !.sm = target, !.State = target]
  BY DEF Transition, Session

\* What a restart makes of a session is one.
LEMMA RestoredTypes ==
    ASSUME TypeOK, NEW s \in Sessions, Directories(s) # {}
    PROVE  /\ Restored(s) \in Session
           /\ Restored(s).sm = "initializing" /\ Restored(s).State = "idle"
           /\ Restored(s).Status = "running" /\ Restored(s).expiry = "never"
           /\ Restored(s).owner \in Directories(s)
           /\ Restored(s).msgs = LoadMessages(files[Restored(s).owner][s])
<1> DEFINE o == CHOOSE p \in Directories(s) : \A q \in Directories(s) : p <= q
<1>1. Directories(s) \subseteq Owners /\ Owners \subseteq Nat
  BY ManagerAssumption DEF Directories
<1>2. \E p \in Directories(s) : \A q \in Directories(s) : p <= q
  BY <1>1, HasLeast
<1>3. o \in Directories(s)
  BY <1>2
<1>4. Restored(s) = [sm |-> "initializing", State |-> "idle", Status |-> "running", owner |-> o,
                     msgs |-> LoadMessages(files[o][s]), containers |-> {}, expiry |-> "never"]
  BY DEF Restored
<1> HIDE DEF o
<1>5. files[o][s] \in File
  BY <1>1, <1>3 DEF TypeOK
<1>6. LoadMessages(files[o][s]) \in Seq(Messages)
  BY <1>5, LoadKeeps
<1> QED
  BY <1>1, <1>3, <1>4, <1>6 DEF Session, State

\* What the cleanup makes of a session is one.
LEMMA CleanTypes ==
    ASSUME NEW x \in Session, NEW quiet \in BOOLEAN
    PROVE  /\ Clean(x, quiet) \in Session
           /\ Clean(x, quiet).msgs = x.msgs /\ Clean(x, quiet).owner = x.owner
           /\ x.sm = "closed" => Clean(x, quiet) = x
<1>1. CASE IsTerminal(x)
  BY <1>1 DEF Clean
<1>2. CASE ~IsTerminal(x) /\ x.expiry = "past"
  <2>1. Clean(x, quiet) = [Transition(x, "closing") EXCEPT !.Status = "stopping"]
    BY <1>2 DEF Clean
  <2>2. Transition(x, "closing") \in Session /\ Transition(x, "closing").msgs = x.msgs
        /\ Transition(x, "closing").owner = x.owner
    <3>1. "closing" \in State
      BY DEF State
    <3>2. /\ Transition(x, "closing") \in Session
          /\ Transition(x, "closing") = x \/ Transition(x, "closing") = [x EXCEPT !.sm = "closing", !.State = "closing"]
      BY <3>1, TransitionTypes
    <3> QED
      BY <3>2 DEF Session
  <2> QED
    BY <1>2, <2>1, <2>2 DEF Session, IsTerminal
<1>3. CASE ~IsTerminal(x) /\ x.expiry # "past"
  <2>1. Clean(x, quiet) = IF x.sm = "active" /\ quiet THEN Transition(x, "idle") ELSE x
    BY <1>3 DEF Clean
  <2>2. Transition(x, "idle") \in Session /\ Transition(x, "idle").msgs = x.msgs
        /\ Transition(x, "idle").owner = x.owner
    <3>1. "idle" \in State
      BY DEF State
    <3>2. /\ Transition(x, "idle") \in Session
          /\ Transition(x, "idle") = x \/ Transition(x, "idle") = [x EXCEPT !.sm = "idle", !.State = "idle"]
      BY <3>1, TransitionTypes
    <3> QED
      BY <3>2 DEF Session
  <2> QED
    BY <1>3, <2>1, <2>2 DEF IsTerminal
<1> QED
  BY <1>1, <1>2, <1>3

-----------------------------------------------------------------------------
(* Status, state and closing.                                              *)

\* The two states of a session agree, but for one that was restored and has not moved
\* since; that one never expires.  The status follows.
Agrees(x) ==
    /\ \/ x.sm = x.State /\ x.sm # "initializing"
       \/ x.sm = "initializing" /\ x.State = "idle" /\ x.expiry = "never"
    /\ x.Status = CASE x.State = "closed" -> "stopped"
                    [] x.State = "closing" -> "stopping"
                    [] OTHER -> "running"

AllAgree == \A s \in InMemory : Agrees(sessions[s])

\* A closed session stays as it is or goes.
KeepsClosed ==
    \A s \in InMemory : sessions[s].sm = "closed" =>
        \/ sessions'[s] = Absent
        \/ sessions'[s].sm = "closed" /\ sessions'[s].msgs = sessions[s].msgs

SessionsMove ==
    /\ sessions' \in [Sessions -> Session \cup {Absent}]
    /\ AllAgree'
    /\ KeepsClosed

\* Replacing one session by another that is in order.
LEMMA ReplaceMoves ==
    ASSUME TypeOK, AllAgree, NEW s \in Sessions, NEW x, Replace(s, x),
           \/ x = Absent
           \/ x \in Session /\ Agrees(x)
              /\ (s \in InMemory /\ sessions[s].sm = "closed" => x.sm = "closed" /\ x.msgs = sessions[s].msgs)
    PROVE  SessionsMove
<1>1. sessions' \in [Sessions -> Session \cup {Absent}] /\ sessions'[s] = x
      /\ \A t \in Sessions : t # s => sessions'[t] = sessions[t]
  BY DEF TypeOK, Replace
<1>2. AllAgree'
  <2> SUFFICES ASSUME NEW t \in Sessions, sessions'[t] # Absent PROVE Agrees(sessions'[t])
    BY DEF AllAgree, InMemory, Agrees
  <2>1. CASE t = s
    BY <1>1, <2>1
  <2>2. CASE t # s
    BY <1>1, <2>2 DEF AllAgree, InMemory
  <2> QED
    BY <2>1, <2>2
<1>3. KeepsClosed
  BY <1>1 DEF KeepsClosed, InMemory
<1> QED
  BY <1>1, <1>2, <1>3 DEF SessionsMove

\* Nothing happens to the sessions.
LEMMA SessionsStay ==
    ASSUME TypeOK, AllAgree, UNCHANGED sessions
    PROVE  SessionsMove
  BY DEF TypeOK, AllAgree, SessionsMove, KeepsClosed, InMemory

\* A session that is not closed yet is closed, whatever state it was in.
LEMMA ClosingAgrees ==
    ASSUME NEW x \in Session, Agrees(x), ~IsTerminal(x)
    PROVE  LET y == [Transition(x, "closed") EXCEPT !.Status = "stopped"]
           IN  y \in Session /\ Agrees(y) /\ y.sm = "closed" /\ y.msgs = x.msgs /\ y.owner = x.owner
<1>1. "closed" \in Transitions[x.sm]
  BY DEF Transitions, Session, State, IsTerminal
<1>2. Transition(x, "closed") = [x EXCEPT !.sm = "closed", !.State = "closed"]
  BY <1>1 DEF Transition, CanTransition
<1> DEFINE y == [Transition(x, "closed") EXCEPT !.Status = "stopped"]
<1>3. y \in Session /\ y.sm = "closed" /\ y.State = "closed" /\ y.Status = "stopped" /\ y.msgs = x.msgs /\ y.owner = x.owner
  BY <1>2 DEF Session, State
<1> HIDE DEF y
<1>4. Agrees(y)
  BY <1>3 DEF Agrees
<1> QED
  BY <1>3, <1>4 DEF y

\* The cleanup keeps status and states in agreement: a session that expired is
\* not a restored one.
LEMMA CleanAgrees ==
    ASSUME NEW x \in Session, Agrees(x), NEW quiet \in BOOLEAN
    PROVE  Agrees(Clean(x, quiet))
<1>1. CASE IsTerminal(x)
  BY <1>1 DEF Clean
<1>2. CASE ~IsTerminal(x) /\ x.expiry = "past"
  <2>1. x.sm \in {"active", "idle", "closing"}
    BY <1>2 DEF Agrees, IsTerminal, Session, State
  <2>2. Transition(x, "closing") = [x EXCEPT !.sm = "closing", !.State = "closing"]
    BY <2>1 DEF Transition, CanTransition, Transitions
  <2> DEFINE y == [Transition(x, "closing") EXCEPT !.Status = "stopping"]
  <2>3. y.sm = "closing" /\ y.State = "closing" /\ y.Status = "stopping"
    BY <2>2 DEF Session
  <2>4. Clean(x, quiet) = y
    BY <1>2 DEF Clean
  <2> HIDE DEF y
  <2> QED
    BY <2>3, <2>4 DEF Agrees
<1>3. CASE ~IsTerminal(x) /\ x.expiry # "past"
  <2>1. CASE x.sm = "active" /\ quiet
    <3>1. Clean(x, quiet) = [x EXCEPT !.sm = "idle", !.State = "idle"]
      BY <1>3, <2>1 DEF Clean, Transition, CanTransition, Transitions
    <3>2. x.Status = "running"
      BY <2>1 DEF Agrees
    <3> DEFINE y == [x EXCEPT !.sm = "idle", !.State = "idle"]
    <3>3. y.sm = "idle" /\ y.State = "idle" /\ y.Status = "running"
      BY <3>2 DEF Session
    <3> HIDE DEF y
    <3> QED
      BY <3>1, <3>3 DEF Agrees, y
  <2>2. CASE ~(x.sm = "active" /\ quiet)
    BY <1>3, <2>2 DEF Clean
  <2> QED
    BY <2>1, <2>2
<1> QED
  BY <1>1, <1>2, <1>3

\* A message makes an idle session active, and changes no other state.
LEMMA RememberAgrees ==
    ASSUME NEW x \in Session, Agrees(x), NEW m \in Messages
    PROVE  LET y == Remember(x, m)
           IN  y \in Session /\ Agrees(y) /\ y.msgs = Append(x.msgs, m) /\ y.owner = x.owner
<1> DEFINE z == [x EXCEPT !.msgs = Append(@, m)]
           y == Remember(x, m)
<1>1. /\ z \in Session /\ z.msgs = Append(x.msgs, m) /\ z.owner = x.owner
      /\ z.sm = x.sm /\ z.State = x.State /\ z.Status = x.Status /\ z.expiry = x.expiry
  <2>1. Append(x.msgs, m) \in Seq(Messages)
    BY DEF Session
  <2> QED
    BY <2>1 DEF Session
<1>2. y = IF z.sm = "idle" THEN Transition(z, "active") ELSE z
  BY DEF Remember
<1> HIDE DEF z, y
<1>3. CASE z.sm = "idle"
  <2>1. y = [z EXCEPT !.sm = "active", !.State = "active"]
    BY <1>2, <1>3 DEF Transition, CanTransition, Transitions
  <2>2. /\ y \in Session /\ y.msgs = z.msgs /\ y.owner = z.owner
        /\ y.sm = "active" /\ y.State = "active" /\ y.Status = z.Status
    BY <1>1, <2>1 DEF Session, State
  <2>3. y.Status = "running"
    BY <1>1, <1>3, <2>2 DEF Agrees
  <2>4. Agrees(y)
    BY <2>2, <2>3 DEF Agrees
  <2> QED
    BY <1>1, <2>2, <2>4 DEF y
<1>4. CASE z.sm # "idle"
  <2>1. Agrees(z)
    BY <1>1 DEF Agrees
  <2> QED
    BY <1>1, <1>2, <1>4, <2>1 DEF y
<1> QED
  BY <1>3, <1>4

\* An identifier was given out before its session is in memory or on disk.
BornFirst ==
    \A s \in Sessions :
        (s \in InMemory \/ \E o \in Owners : files[o][s].exists) => s \in born

\* A process that is down has nothing in memory.
DownIsEmpty == mgr = "down" => InMemory = {}

\* What each operation does to the sessions in memory.
LEMMA SessionsStep ==
    ASSUME TypeOK, AllAgree, BornFirst, DownIsEmpty, [Next]_vars
    PROVE  SessionsMove
<1>1. ASSUME NEW s \in Sessions, Live(s)
      PROVE  sessions[s] \in Session /\ Agrees(sessions[s]) /\ s \in InMemory
  BY <1>1 DEF TypeOK, AllAgree, Live, InMemory
<1>2. ASSUME NEW s \in Sessions, NEW o \in Owners, NEW e \in {"never", "pending"}, Create(s, o, e)
      PROVE  SessionsMove
  <2> DEFINE x == [sm |-> "initializing", State |-> "initializing", Status |-> "running", owner |-> o,
                   msgs |-> << >>, containers |-> {}, expiry |-> e]
             y == Transition(x, "active")
  <2>1. y = [x EXCEPT !.sm = "active", !.State = "active"]
    BY DEF Transition, CanTransition, Transitions
  <2>2. y = [sm |-> "active", State |-> "active", Status |-> "running", owner |-> o,
             msgs |-> << >>, containers |-> {}, expiry |-> e]
    BY <2>1
  <2>3. Replace(s, y) /\ s \notin InMemory
    BY <1>2 DEF Create, BornFirst
  <2> HIDE DEF y
  <2>4. y \in Session
    BY <2>2 DEF Session, State
  <2>5. Agrees(y)
    BY <2>2 DEF Agrees
  <2> QED
    BY <2>3, <2>4, <2>5, ReplaceMoves
<1>3. ASSUME NEW s \in Sessions, NEW o \in Owners, Update(s, o) PROVE SessionsMove
  <2> DEFINE y == [sessions[s] EXCEPT !.owner = o]
  <2>1. Live(s) /\ ~IsTerminal(sessions[s]) /\ Replace(s, y)
    BY <1>3 DEF Update
  <2>2. y \in Session /\ Agrees(y)
    BY <1>1, <2>1 DEF Session, Agrees
  <2> QED
    BY <2>1, <2>2, ReplaceMoves DEF IsTerminal
<1>4. ASSUME NEW s \in Sessions, CloseSession(s) PROVE SessionsMove
  <2> DEFINE y == [Transition(sessions[s], "closed") EXCEPT !.Status = "stopped"]
  <2>1. Live(s) /\ ~IsTerminal(sessions[s]) /\ Replace(s, y)
    BY <1>4 DEF CloseSession
  <2>2. y \in Session /\ Agrees(y)
    BY <1>1, <2>1, ClosingAgrees
  <2> QED
    BY <2>1, <2>2, ReplaceMoves DEF IsTerminal
<1>5. ASSUME NEW s \in Sessions, Delete(s) PROVE SessionsMove
  BY <1>5, ReplaceMoves DEF Delete
<1>6. ASSUME NEW s \in Sessions, Expire(s) PROVE SessionsMove
  <2> DEFINE x == sessions[s]
             y == [x EXCEPT !.expiry = "past"]
  <2>1. x \in Session /\ Agrees(x) /\ x.expiry = "pending" /\ Replace(s, y)
    BY <1>6 DEF Expire, TypeOK, AllAgree, InMemory
  <2>2. /\ y \in Session /\ y.sm = x.sm /\ y.State = x.State /\ y.Status = x.Status
        /\ y.msgs = x.msgs
    BY <2>1 DEF Session
  <2> HIDE DEF x, y
  <2>3. Agrees(y)
    BY <2>1, <2>2 DEF Agrees
  <2> QED
    BY <2>1, <2>2, <2>3, ReplaceMoves DEF x
<1>7. ASSUME NEW s \in Sessions, NEW c \in Containers, AddContainer(s, c) \/ RemoveContainer(s, c)
      PROVE  SessionsMove
  <2> DEFINE x == sessions[s]
             y(d) == [x EXCEPT !.containers = d]
  <2>1. PICK d \in SUBSET Containers : Replace(s, y(d)) /\ Live(s)
    <3>1. x \in Session
      BY <1>1, <1>7 DEF AddContainer, RemoveContainer
    <3>2. CASE AddContainer(s, c)
      <4>1. x.containers \cup {c} \in SUBSET Containers
        BY <3>1 DEF Session
      <4> QED
        BY <3>2, <4>1 DEF AddContainer
    <3>3. CASE RemoveContainer(s, c)
      <4>1. x.containers \ {c} \in SUBSET Containers
        BY <3>1 DEF Session
      <4> QED
        BY <3>3, <4>1 DEF RemoveContainer
    <3> QED
      BY <1>7, <3>2, <3>3
  <2>2. x \in Session /\ Agrees(x)
    BY <1>1, <2>1
  <2>3. /\ y(d) \in Session /\ y(d).sm = x.sm /\ y(d).State = x.State /\ y(d).Status = x.Status
        /\ y(d).msgs = x.msgs /\ y(d).expiry = x.expiry
    BY <2>2 DEF Session
  <2>4. Agrees(y(d))
    BY <2>2, <2>3 DEF Agrees
  <2> QED
    BY <2>1, <2>3, <2>4, ReplaceMoves
<1>8. ASSUME NEW s \in Sessions, NEW m \in Messages, AddMessage(s, m) PROVE SessionsMove
  <2>1. Live(s) /\ ~IsTerminal(sessions[s]) /\ Replace(s, Remember(sessions[s], m))
    BY <1>8 DEF AddMessage
  <2>2. Remember(sessions[s], m) \in Session /\ Agrees(Remember(sessions[s], m))
    BY <1>1, <2>1, RememberAgrees
  <2> QED
    BY <2>1, <2>2, ReplaceMoves DEF IsTerminal
<1>9. ASSUME NEW s \in Sessions, NEW m \in Messages, AddMessageFails(s, m) PROVE SessionsMove
  BY <1>9, SessionsStay DEF AddMessageFails
<1>10. ASSUME Die PROVE SessionsMove
  BY <1>10 DEF Die, SessionsMove, AllAgree, KeepsClosed, InMemory
<1>11. ASSUME Boot PROVE SessionsMove
  <2>1. /\ sessions' = [s \in Sessions |->
                          IF Persistence /\ Directories(s) # {} THEN Restored(s) ELSE Absent]
    BY <1>11 DEF Boot
  <2>2. \A s \in Sessions : Directories(s) # {} => Restored(s) \in Session /\ Agrees(Restored(s))
    BY RestoredTypes DEF Agrees
  <2>3. \A s \in InMemory : sessions[s].sm = "closed" => sessions'[s] = Absent
    <3>1. InMemory = {}
      BY <1>11 DEF Boot, DownIsEmpty
    <3> QED
      BY <3>1
  <2> QED
    BY <2>1, <2>2, <2>3 DEF SessionsMove, AllAgree, KeepsClosed, InMemory
<1>12. ASSUME cleanup PROVE SessionsMove
  <2>1. PICK quiet \in SUBSET InMemory :
           sessions' = [s \in Sessions |->
             IF s \in InMemory THEN Clean(sessions[s], s \in quiet) ELSE Absent]
    BY <1>12 DEF cleanup
  <2>2. ASSUME NEW s \in InMemory
        PROVE  /\ Clean(sessions[s], s \in quiet) \in Session
               /\ Agrees(Clean(sessions[s], s \in quiet))
               /\ sessions[s].sm = "closed" => Clean(sessions[s], s \in quiet) = sessions[s]
    <3>1. sessions[s] \in Session /\ Agrees(sessions[s]) /\ (s \in quiet) \in BOOLEAN
      BY DEF TypeOK, AllAgree, InMemory
    <3> QED
      BY <3>1, CleanTypes, CleanAgrees
  <2> QED
    BY <2>1, <2>2 DEF SessionsMove, AllAgree, KeepsClosed, InMemory
<1>13. ASSUME CloseEnd PROVE SessionsMove
  <2> DEFINE y(s) == [Transition(sessions[s], "closed") EXCEPT !.Status = "stopped"]
  <2>1. sessions' = [s \in Sessions |->
           IF s \in InMemory /\ ~IsTerminal(sessions[s]) THEN y(s) ELSE sessions[s]]
    BY <1>13 DEF CloseEnd
  <2>2. \A s \in InMemory : ~IsTerminal(sessions[s]) => y(s) \in Session /\ Agrees(y(s))
    BY ClosingAgrees DEF TypeOK, AllAgree, InMemory
  <2>3. \A s \in Sessions : sessions[s] \in Session \cup {Absent}
    BY DEF TypeOK
  <2>4. \A s \in InMemory : sessions[s].sm = "closed" => sessions'[s] = sessions[s]
    BY <2>1 DEF IsTerminal, InMemory
  <2> HIDE DEF y
  <2> QED
    BY <2>1, <2>2, <2>3, <2>4 DEF SessionsMove, AllAgree, KeepsClosed, InMemory
<1>14. ASSUME UNCHANGED sessions PROVE SessionsMove
  BY <1>14, SessionsStay
<1>15. CASE Next
  <2>1. ASSUME NEW s \in Sessions, NEW m \in Messages, CrashInAddMessage(s, m) PROVE SessionsMove
    BY <1>10, <2>1 DEF CrashInAddMessage
  <2>2. ASSUME Crash PROVE SessionsMove
    BY <1>10, <2>2 DEF Crash
  <2>3. ASSUME Tick \/ CloseBegin \/ StopCleanup PROVE SessionsMove
    BY <1>14, <2>3 DEF Tick, CloseBegin, StopCleanup
  <2> QED
    BY <1>2, <1>3, <1>4, <1>5, <1>6, <1>7, <1>8, <1>9, <1>11, <1>12, <1>13, <1>15, <2>1, <2>2, <2>3 DEF Next
<1> QED
  BY <1>14, <1>15 DEF vars

-----------------------------------------------------------------------------
(* The invariant of both: what is typed, agrees, was born and is down.     *)

\* One append, acknowledged or not, or nothing that the files see.
DiskMoves ==
    \/ UNCHANGED <<files, sent, acked, torn>>
    \/ \E s \in Sessions, m \in Messages, extent \in Extents \cup {"whole"} :
         /\ s \in InMemory /\ m \notin sent
         /\ AppendMessage(s, m, extent)
         /\ \/ UNCHANGED <<acked, sessions>>
            \/ UNCHANGED acked /\ sessions' = [t \in Sessions |-> Absent]
            \/ /\ extent = "whole"
               /\ acked' = [acked EXCEPT ![sessions[s].owner][s] = Append(@, m)]
               /\ Replace(s, Remember(sessions[s], m))

\* Only the three outcomes of AddMessage touch the files.
LEMMA DiskStep ==
    ASSUME [Next]_vars
    PROVE  DiskMoves
<1>1. ASSUME NEW s \in Sessions, NEW m \in Messages, AddMessage(s, m) PROVE DiskMoves
  BY <1>1 DEF AddMessage, DiskMoves, Live
<1>2. ASSUME NEW s \in Sessions, NEW m \in Messages, AddMessageFails(s, m) PROVE DiskMoves
  BY <1>2 DEF AddMessageFails, DiskMoves, Live
<1>3. ASSUME NEW s \in Sessions, NEW m \in Messages, CrashInAddMessage(s, m) PROVE DiskMoves
  BY <1>3 DEF CrashInAddMessage, Die, DiskMoves, Live
<1>4. ASSUME UNCHANGED <<files, sent, acked, torn>> PROVE DiskMoves
  BY <1>4 DEF DiskMoves
<1>5. CASE Next
  BY <1>1, <1>2, <1>3, <1>4, <1>5
     DEF Next, Create, Update, CloseSession, Delete, Expire, AddContainer, RemoveContainer, Crash, Boot,
         Tick, cleanup, CloseBegin, StopCleanup, CloseEnd, history
<1> QED
  BY <1>4, <1>5 DEF vars, history

LifeInv == TypeOK /\ OpenHasLine /\ AllAgree /\ BornFirst /\ DownIsEmpty

\* The manager of a new process, without files, satisfies it.
LEMMA LifeInit == Init => LifeInv
<1> SUFFICES ASSUME Init PROVE LifeInv
  OBVIOUS
<1>1. TypeOK
  BY ManagerAssumption DEF Init, TypeOK, NoFile, File
<1> QED
  BY <1>1 DEF Init, LifeInv, OpenHasLine, AllAgree, BornFirst, DownIsEmpty, InMemory, NoFile

\* A session comes to memory new, without messages, or read from its file at boot.
LEMMA Arrivals ==
    ASSUME LifeInv, [Next]_vars, NEW s \in Sessions, s \notin InMemory, s \in InMemory'
    PROVE  /\ UNCHANGED <<files, sent, acked, torn>>
           /\ \/ s \notin born /\ s \in born' /\ sessions'[s].msgs = << >>
              \/ Directories(s) # {} /\ sessions'[s] = Restored(s) /\ born' = born
<1>1. sessions[s] = Absent /\ sessions'[s] # Absent
  BY DEF InMemory
<1>2. Next
  BY <1>1 DEF vars
<1>3. ASSUME NEW t \in InMemory, NEW x, Replace(t, x) PROVE FALSE
  <2>1. sessions'[s] = sessions[s]
    BY <1>3 DEF Replace, LifeInv, TypeOK
  <2> QED
    BY <1>1, <2>1
<1>4. CASE Boot
  BY <1>1, <1>4 DEF Boot, history
<1>5. ASSUME NEW t \in Sessions, NEW o \in Owners, NEW e \in {"never", "pending"}, Create(t, o, e)
      PROVE  /\ UNCHANGED <<files, sent, acked, torn>>
             /\ s \notin born /\ s \in born' /\ sessions'[s].msgs = << >>
  <2> DEFINE x == [sm |-> "initializing", State |-> "initializing", Status |-> "running", owner |-> o,
                   msgs |-> << >>, containers |-> {}, expiry |-> e]
  <2>1. t = s
    BY <1>1, <1>5 DEF Create, Replace, LifeInv, TypeOK
  <2>2. sessions'[s] = Transition(x, "active")
    BY <1>5, <2>1 DEF Create, Replace, LifeInv, TypeOK
  <2>3. Transition(x, "active") = [x EXCEPT !.sm = "active", !.State = "active"]
    BY DEF Transition, CanTransition, Transitions
  <2> QED
    BY <1>5, <2>1, <2>2, <2>3 DEF Create
<1>6. Boot \/ \E t \in Sessions, o \in Owners, e \in {"never", "pending"} : Create(t, o, e)
  BY <1>1, <1>2, <1>3
     DEF Next, Update, CloseSession, Delete, Expire, AddContainer, RemoveContainer, Live, AddMessage, InMemory,
         AddMessageFails, CrashInAddMessage, Crash, Die, Tick, cleanup, CloseBegin, StopCleanup, CloseEnd
<1> QED
  BY <1>4, <1>5, <1>6

\* Every operation keeps it.
LEMMA LifeStep ==
    ASSUME LifeInv, [Next]_vars
    PROVE  LifeInv' /\ SessionsMove
<1>1. SessionsMove
  BY SessionsStep DEF LifeInv
<1>2. DiskMoves
  BY DiskStep
<1> DEFINE DiskTyped ==
             /\ files' \in [Owners -> [Sessions -> File]] /\ sent' \subseteq Messages
             /\ acked' \in [Owners -> [Sessions -> Seq(Messages)]] /\ torn' \in [Owners -> [Sessions -> Nat]]
             /\ OpenHasLine'
             /\ \A s \in Sessions, o \in Owners : files'[o][s].exists => s \in born
<1>3. DiskTyped
  <2>1. CASE UNCHANGED <<files, sent, acked, torn>>
    BY <2>1 DEF LifeInv, TypeOK, OpenHasLine, BornFirst
  <2>2. CASE ~UNCHANGED <<files, sent, acked, torn>>
    <3>1. PICK s \in Sessions, m \in Messages, extent \in Extents \cup {"whole"} :
             /\ s \in InMemory /\ m \notin sent
             /\ AppendMessage(s, m, extent)
             /\ UNCHANGED acked \/ acked' = [acked EXCEPT ![sessions[s].owner][s] = Append(@, m)]
      BY <1>2, <2>2 DEF DiskMoves
    <3> DEFINE o == sessions[s].owner
               f == files[o][s]
               g == Write(f, m, extent)
    <3>2. o \in Owners
      BY <3>1 DEF LifeInv, TypeOK, Session, InMemory
    <3>3. f \in File /\ (f.open => f.lines # << >>) /\ extent \in Extent
      BY <3>2, ManagerAssumption DEF LifeInv, TypeOK, OpenHasLine, Extent
    <3>4. g \in File /\ (g.open => g.lines # << >>)
      BY <3>3, WriteTypes
    <3>5. files' = IF Persistence THEN [files EXCEPT ![o][s] = g] ELSE files
      BY <3>1 DEF AppendMessage
    <3>6. sent' = sent \cup {m} /\ sent' \subseteq Messages
      BY <3>1 DEF AppendMessage, LifeInv, TypeOK
    <3>7. torn' \in [Owners -> [Sessions -> Nat]]
      <4>1. torn[o][s] + 1 \in Nat
        BY <3>2 DEF LifeInv, TypeOK
      <4> QED
        BY <3>1, <3>2, <4>1 DEF AppendMessage, LifeInv, TypeOK
    <3>8. acked' \in [Owners -> [Sessions -> Seq(Messages)]]
      <4> DEFINE b == Append(acked[o][s], m)
      <4>1. acked[o][s] \in Seq(Messages) /\ b \in Seq(Messages)
        BY <3>1, <3>2 DEF LifeInv, TypeOK
      <4>2. acked \in [Owners -> [Sessions -> Seq(Messages)]]
        BY DEF LifeInv, TypeOK
      <4>3. UNCHANGED acked \/ acked' = [acked EXCEPT ![o][s] = b]
        BY <3>1
      <4> HIDE DEF b, o
      <4>4. [acked[o] EXCEPT ![s] = b] \in [Sessions -> Seq(Messages)]
        BY <3>2, <4>1, <4>2
      <4>5. UNCHANGED acked \/ acked' = [acked EXCEPT ![o] = [acked[o] EXCEPT ![s] = b]]
        BY <4>3
      <4> QED
        BY <3>2, <4>2, <4>4, <4>5
    <3> HIDE DEF g, o
    <3>9. /\ files' \in [Owners -> [Sessions -> File]]
          /\ \A p \in Owners, t \in Sessions :
               files'[p][t] = files[p][t] \/ (files'[p][t] = g /\ t = s)
      BY <3>2, <3>4, <3>5 DEF LifeInv, TypeOK
    <3>10. OpenHasLine'
      BY <3>4, <3>9 DEF OpenHasLine, LifeInv
    <3>11. s \in born
      BY <3>1 DEF LifeInv, BornFirst
    <3>12. \A t \in Sessions, p \in Owners : files'[p][t].exists => t \in born
      BY <3>9, <3>11 DEF LifeInv, BornFirst
    <3> QED
      BY <3>6, <3>7, <3>8, <3>9, <3>10, <3>12
  <2> QED
    BY <2>1, <2>2
<1> HIDE DEF DiskTyped
<1>4. /\ mgr' \in {"open", "closing", "closed", "down"} /\ loop' \in {"select", "cleanup", "gone"}
      /\ born' \subseteq Sessions /\ born \subseteq born' /\ crashes' \in Nat
  <2>1. CASE Next
    <3>1. UNCHANGED born \/ \E s \in Sessions : born' = born \cup {s}
      BY <2>1
         DEF Next, Create, Update, CloseSession, Delete, Expire, AddContainer, RemoveContainer, AddMessage,
             AddMessageFails, CrashInAddMessage, Crash, Boot, Tick, cleanup, CloseBegin, StopCleanup,
             CloseEnd, history
    <3>2. UNCHANGED crashes \/ crashes' = crashes + 1
      BY <2>1
         DEF Next, Create, Update, CloseSession, Delete, Expire, AddContainer, RemoveContainer, AddMessage,
             AddMessageFails, CrashInAddMessage, Crash, Die, Boot, Tick, cleanup, CloseBegin, StopCleanup,
             CloseEnd, history
    <3>3. UNCHANGED mgr \/ mgr' \in {"open", "closing", "closed", "down"}
      BY <2>1
         DEF Next, Create, Update, CloseSession, Delete, Expire, AddContainer, RemoveContainer, AddMessage,
             AddMessageFails, CrashInAddMessage, Crash, Die, Boot, Tick, cleanup, CloseBegin, StopCleanup,
             CloseEnd
    <3>4. UNCHANGED loop \/ loop' \in {"select", "cleanup", "gone"}
      BY <2>1
         DEF Next, Create, Update, CloseSession, Delete, Expire, AddContainer, RemoveContainer, AddMessage,
             AddMessageFails, CrashInAddMessage, Crash, Die, Boot, Tick, cleanup, CloseBegin, StopCleanup,
             CloseEnd
    <3> QED
      BY <3>1, <3>2, <3>3, <3>4 DEF LifeInv, TypeOK
  <2>2. CASE UNCHANGED vars
    BY <2>2 DEF vars, history, LifeInv, TypeOK
  <2> QED
    BY <2>1, <2>2
<1>5. TypeOK'
  BY <1>1, <1>3, <1>4 DEF DiskTyped, TypeOK, SessionsMove
<1>6. \A s \in InMemory' : s \in born'
  <2> SUFFICES ASSUME NEW s \in Sessions, sessions'[s] # Absent PROVE s \in born'
    BY DEF InMemory
  <2>1. CASE s \in InMemory
    BY <1>4, <2>1 DEF LifeInv, BornFirst
  <2>2. CASE s \notin InMemory
    <3>1. s \in InMemory'
      BY DEF InMemory
    <3>2. s \in born' \/ Directories(s) # {}
      BY <2>2, <3>1, Arrivals
    <3> QED
      BY <1>4, <3>2 DEF Directories, LifeInv, BornFirst
  <2> QED
    BY <2>1, <2>2
<1>7. BornFirst'
  BY <1>3, <1>4, <1>6 DEF DiskTyped, BornFirst
<1>8. DownIsEmpty'
  <2> SUFFICES ASSUME mgr' = "down" PROVE InMemory' = {}
    BY DEF DownIsEmpty
  <2>1. CASE Die
    BY <2>1 DEF Die, InMemory
  <2>2. CASE ~Die
    <3>1. mgr = "down" /\ UNCHANGED sessions
      <4>1. CASE Next
        BY <2>2, <4>1
           DEF Next, Create, Update, CloseSession, Delete, Expire, AddContainer, RemoveContainer, Live,
               AddMessage, AddMessageFails, CrashInAddMessage, Crash, Boot, Tick, cleanup, CloseBegin,
               StopCleanup, CloseEnd, LifeInv, DownIsEmpty
      <4>2. CASE UNCHANGED vars
        BY <4>2 DEF vars
      <4> QED
        BY <4>1, <4>2
    <3> QED
      BY <3>1 DEF LifeInv, DownIsEmpty, InMemory
  <2> QED
    BY <2>1, <2>2
<1> QED
  BY <1>1, <1>3, <1>5, <1>7, <1>8 DEF DiskTyped, SessionsMove, LifeInv

\* Every behaviour stays in it.
LEMMA LifeHolds == Spec => []LifeInv
<1>1. LifeInv /\ [Next]_vars => LifeInv'
  BY LifeStep
<1> QED
  BY LifeInit, <1>1, PTL DEF Spec

\* Every operation, crash and restart of the session manager keeps its state typed:
\* sessions, files and histories (manager.go, persistence.go).
THEOREM SessionsStayTyped == Spec => []TypeOK
<1>1. LifeInv => TypeOK
  BY DEF LifeInv
<1> QED
  BY LifeHolds, <1>1, PTL

\* The status of a session follows its state, whichever of CloseSession, Close, the cleanup and
\* RestoreSessions set them, each in lines of its own (manager.go, state.go).
THEOREM StatusStaysWithState == Spec => []StatusFollowsState
<1>1. LifeInv => StatusFollowsState
  BY DEF LifeInv, AllAgree, Agrees, StatusFollowsState
<1> QED
  BY LifeHolds, <1>1, PTL

\* A closed session takes no message and stays closed until it is deleted or lost with the
\* process (manager.go AddMessage, state.go's transitions).
THEOREM ClosedStaysFinal == Spec => ClosedIsFinal
<1>1. LifeInv /\ [Next]_vars => [KeepsClosed]_vars
  BY LifeStep DEF SessionsMove
<1>2. KeepsClosed <=> \A s \in InMemory : sessions[s].sm = "closed" =>
          \/ sessions'[s] = Absent
          \/ sessions'[s].sm = "closed" /\ sessions'[s].msgs = sessions[s].msgs
  BY DEF KeepsClosed
<1> QED
  BY LifeHolds, <1>1, <1>2, PTL DEF Spec, ClosedIsFinal
-----------------------------------------------------------------------------
(* Durability.  What one file of a session holds, against what was         *)
(* acknowledged while its owner was the session's.                         *)

\* The messages of q are different ones and lie in the order in which they were
\* acknowledged, as far as they were.
Ordered(q, a) ==
    \A i, j \in 1..Len(q) : i < j /\ q[i] # Garbage /\ q[j] # Garbage =>
        /\ q[i] # q[j]
        /\ \A k, l \in 1..Len(a) : a[k] = q[i] /\ a[l] = q[j] => k < l

\* The loss an open line may still cause is counted ahead: the append that left it
\* open was torn, the one that continues it need not be.
Kept(f, a, n, S) ==
    /\ Contents(f.lines) \ {Garbage} \subseteq S
    /\ Contents(a) \subseteq S
    /\ f.open => f.lines[Len(f.lines)] \notin Contents(a)
    /\ Cardinality(Contents(a) \ Contents(f.lines)) + (IF f.open THEN 1 ELSE 0) <= n
    /\ n = 0 => Garbage \notin Contents(f.lines)
    /\ ~f.exists => a = << >>

\* A sequence holds finitely much, and what is appended comes on top of it.
LEMMA ContentsOf ==
    ASSUME NEW T, NEW q \in Seq(T)
    PROVE  /\ Contents(q) \subseteq T /\ IsFiniteSet(Contents(q))
           /\ \A x : Contents(Append(q, x)) = Contents(q) \cup {x}
<1>1. Len(q) \in Nat /\ \A i \in 1..Len(q) : q[i] \in T
  BY ElementOfSeq
<1>2. IsFiniteSet(Contents(q))
  <2>1. IsFiniteSet(1..Len(q))
    BY <1>1, FS_Interval
  <2> DEFINE f == [i \in 1..Len(q) |-> q[i]]
  <2>2. f \in Surjection(1..Len(q), Contents(q))
    BY DEF Surjection, Contents
  <2> QED
    BY <2>1, <2>2, FS_Surjection
<1>3. ASSUME NEW x PROVE Contents(Append(q, x)) = Contents(q) \cup {x}
  <2>1. /\ Len(Append(q, x)) = Len(q) + 1 /\ Append(q, x)[Len(q) + 1] = x
        /\ \A i \in 1..Len(q) : Append(q, x)[i] = q[i]
    BY <1>1
  <2>2. 1..(Len(q) + 1) = 1..Len(q) \cup {Len(q) + 1}
    BY <1>1
  <2> QED
    BY <2>1, <2>2 DEF Contents
<1> QED
  BY <1>1, <1>2, <1>3 DEF Contents

\* A message nobody sent before may be acknowledged and appended.
LEMMA OrderedAppend ==
    ASSUME NEW q \in Seq(Messages \cup {Garbage}), NEW a \in Seq(Messages), NEW S, NEW m \in Messages,
           m \notin S, Ordered(q, a), Contents(q) \ {Garbage} \subseteq S, Contents(a) \subseteq S,
           NEW b, b = a \/ b = Append(a, m), NEW x, x = m \/ x = Garbage
    PROVE  Ordered(q, b) /\ Ordered(Append(q, x), b)
<1>1. Len(a) \in Nat /\ Len(q) \in Nat /\ \A i \in 1..Len(a) : a[i] # m
  BY DEF Contents
<1>2. \A i \in 1..Len(q) : q[i] # m
  BY StoreAssumption DEF Contents
<1>3. \A k \in 1..Len(b) : b[k] # m => k \in 1..Len(a) /\ b[k] = a[k]
  <2>1. CASE b = a
    BY <2>1
  <2>2. CASE b = Append(a, m)
    BY <1>1, <2>2
  <2> QED
    BY <2>1, <2>2
<1>4. \A k \in 1..Len(b) : b[k] = m => k = Len(a) + 1
  <2>1. CASE b = a
    BY <1>1, <2>1
  <2>2. CASE b = Append(a, m)
    BY <1>1, <2>2
  <2> QED
    BY <2>1, <2>2
<1> HIDE DEF Contents
<1>5. ASSUME NEW i \in 1..Len(q), NEW j \in 1..Len(q), i < j, q[i] # Garbage, q[j] # Garbage
      PROVE  q[i] # q[j] /\ \A k, l \in 1..Len(b) : b[k] = q[i] /\ b[l] = q[j] => k < l
  <2>1. q[i] # q[j] /\ \A k, l \in 1..Len(a) : a[k] = q[i] /\ a[l] = q[j] => k < l
    BY <1>5 DEF Ordered
  <2> QED
    BY <1>2, <1>3, <2>1
<1>6. ASSUME NEW i \in 1..Len(q), x = m
      PROVE  q[i] # x /\ \A k, l \in 1..Len(b) : b[k] = q[i] /\ b[l] = x => k < l
  <2>1. q[i] # m
    BY <1>2
  <2>2. \A k, l \in 1..Len(b) : b[k] = q[i] /\ b[l] = m => k \in 1..Len(a) /\ l = Len(a) + 1
    BY <1>3, <1>4, <2>1
  <2> QED
    BY <1>1, <1>6, <2>1, <2>2
<1>7. /\ Len(Append(q, x)) = Len(q) + 1 /\ Append(q, x)[Len(q) + 1] = x
      /\ \A i \in 1..Len(q) : Append(q, x)[i] = q[i]
  BY <1>1
<1>8. \A i \in 1..(Len(q) + 1) : i \in 1..Len(q) \/ i = Len(q) + 1
  BY <1>1
<1>9. \A i, j \in 1..(Len(q) + 1) : i < j => i \in 1..Len(q)
  BY <1>1
<1>10. Ordered(q, b)
  BY <1>5 DEF Ordered
<1>11. Ordered(Append(q, x), b)
  <2> DEFINE p == Append(q, x)
  <2> HIDE DEF p
  <2> SUFFICES ASSUME NEW i \in 1..Len(p), NEW j \in 1..Len(p), i < j, p[i] # Garbage, p[j] # Garbage
               PROVE  p[i] # p[j] /\ \A k, l \in 1..Len(b) : b[k] = p[i] /\ b[l] = p[j] => k < l
    BY DEF Ordered, p
  <2>1. i \in 1..Len(q) /\ p[i] = q[i]
    BY <1>7, <1>9 DEF p
  <2>2. CASE j \in 1..Len(q)
    <3>1. p[j] = q[j]
      BY <1>7, <2>2 DEF p
    <3> QED
      BY <1>5, <2>1, <2>2, <3>1
  <2>3. CASE j = Len(q) + 1
    <3>1. p[j] = x /\ x = m
      BY <1>7, <2>3 DEF p
    <3> QED
      BY <1>6, <2>1, <3>1
  <2> QED
    BY <1>7, <1>8, <2>2, <2>3 DEF p
<1> QED
  BY <1>10, <1>11

\* Nor does an append that is cut short disturb the order.
LEMMA OrderedWrite ==
    ASSUME NEW f \in File, f.open => f.lines # << >>, NEW a \in Seq(Messages), NEW S,
           NEW m \in Messages, m \notin S, NEW extent \in Extent, Ordered(f.lines, a),
           Contents(f.lines) \ {Garbage} \subseteq S, Contents(a) \subseteq S,
           NEW b, b = a \/ b = Append(a, m)
    PROVE  Ordered(Write(f, m, extent).lines, b)
<1> DEFINE g == Write(f, m, extent)
<1>1. f.lines \in Seq(Messages \cup {Garbage}) /\ f.open \in BOOLEAN /\ Len(f.lines) \in Nat
  BY DEF File
<1>2. /\ Ordered(f.lines, b)
      /\ \A x : x = m \/ x = Garbage => Ordered(Append(f.lines, x), b)
  BY <1>1, OrderedAppend
<1>3. CASE extent = "nothing"
  <2>1. g.lines = f.lines
    BY <1>3 DEF Write, File
  <2> QED
    BY <1>2, <2>1
<1>4. CASE extent # "nothing" /\ f.open
  <2> DEFINE z == Len(f.lines)
  <2>1. z \in 1..z /\ z \in Nat
    BY <1>1, <1>4, EmptySeq
  <2>2. g.lines = [f.lines EXCEPT ![z] = Garbage]
    BY <1>4 DEF Write
  <2>3. Len(g.lines) = z /\ g.lines[z] = Garbage /\ \A i \in 1..z : i # z => g.lines[i] = f.lines[i]
    BY <1>1, <2>1, <2>2
  <2> QED
    BY <1>2, <2>1, <2>3 DEF Ordered
<1>5. CASE extent # "nothing" /\ ~f.open
  <2> DEFINE line == IF extent = "partial" THEN Garbage ELSE m
  <2>1. line = m \/ line = Garbage
    OBVIOUS
  <2>2. g.lines = Append(f.lines, line)
    BY <1>5 DEF Write
  <2> QED
    BY <1>2, <2>1, <2>2
<1> QED
  BY <1>1, <1>3, <1>4, <1>5

\* An append that reaches the file as far as it does, acknowledged only when it is whole.
LEMMA KeptWrite ==
    ASSUME NEW f \in File, f.open => f.lines # << >>, NEW a \in Seq(Messages), NEW n \in Nat,
           NEW S, NEW m \in Messages, m \notin S, NEW extent \in Extent,
           Kept(f, a, n, S), NEW b, b = a \/ (extent = "whole" /\ b = Append(a, m))
    PROVE  Kept(Write(f, m, extent), b, IF extent \in {"noeol", "partial"} THEN n + 1 ELSE n, S \cup {m})
<1> DEFINE g == Write(f, m, extent)
           p == IF extent \in {"noeol", "partial"} THEN n + 1 ELSE n
           L == Contents(f.lines)
           A == Contents(a)
<1>1. /\ f.lines \in Seq(Messages \cup {Garbage}) /\ f.open \in BOOLEAN /\ Len(f.lines) \in Nat
      /\ L \subseteq Messages \cup {Garbage} /\ A \subseteq Messages /\ IsFiniteSet(A)
      /\ Garbage \notin Messages /\ g.exists
  BY ContentsOf, StoreAssumption, WriteTypes DEF File
<1>2. /\ L \ {Garbage} \subseteq S /\ A \subseteq S
      /\ (f.open => f.lines[Len(f.lines)] \notin A)
      /\ Cardinality(A \ L) + (IF f.open THEN 1 ELSE 0) <= n
      /\ n = 0 => Garbage \notin L
  BY DEF Kept
<1>3. IsFiniteSet(A \ L) /\ Cardinality(A \ L) \in Nat
  BY <1>1, FS_Difference, FS_CardinalityType
<1>4. /\ b = a \/ b = Append(a, m)
      /\ b \in Seq(Messages)
      /\ Contents(b) \subseteq A \cup {m} /\ A \subseteq Contents(b)
      /\ extent # "whole" => b = a
  <2>1. /\ Append(a, m) \in Seq(Messages)
        /\ Contents(Append(a, m)) = A \cup {m}
    BY ContentsOf
  <2> QED
    BY <2>1
<1> HIDE DEF g, p, L, A
<1>6. ASSUME extent = "nothing" PROVE Kept(g, b, p, S \cup {m})
  <2>1. g.lines = f.lines /\ g.open = f.open /\ b = a /\ p = n
    BY <1>4, <1>6 DEF g, p, Write, File
  <2> QED
    BY <1>1, <1>2, <2>1 DEF Kept, L, A
<1>7. ASSUME extent # "nothing", f.open PROVE Kept(g, b, p, S \cup {m})
  <2> DEFINE z == Len(f.lines)
             M == Contents(g.lines)
  <2>1. z \in 1..z /\ z \in Nat
    BY <1>1, <1>7, EmptySeq
  <2>2. g.lines = [f.lines EXCEPT ![z] = Garbage] /\ g.open = (extent # "whole")
    BY <1>7 DEF g, Write
  <2>3. Len(g.lines) = z /\ g.lines[z] = Garbage /\ \A i \in 1..z : i # z => g.lines[i] = f.lines[i]
    BY <1>1, <2>1, <2>2
  <2> HIDE DEF z
  <2>4. M \ {Garbage} \subseteq L /\ Garbage \in M /\ L \subseteq M \cup {f.lines[z]}
    BY <2>1, <2>3 DEF M, L, Contents, z
  <2> HIDE DEF M
  <2>6. A \ M = A \ L
    BY <1>1, <1>2, <1>7, <2>4 DEF z
  <2>7. n # 0 /\ Cardinality(A \ L) + 1 <= n
    BY <1>2, <1>3, <1>7
  <2>8. Cardinality(Contents(b) \ M) + (IF g.open THEN 1 ELSE 0) <= p
    <3>1. CASE b = a
      <4>1. Contents(b) \ M = A \ L
        BY <2>6, <3>1 DEF A
      <4>2. (IF g.open THEN 1 ELSE 0) <= 1 /\ n <= p /\ p \in Nat
        BY DEF p
      <4>3. Cardinality(Contents(b) \ M) = Cardinality(A \ L)
        BY <4>1
      <4> QED
        BY <1>3, <2>7, <4>2, <4>3
    <3>2. CASE b # a
      <4>1. extent = "whole"
        BY <1>4, <3>2
      <4>2. Contents(b) \ M = (A \ M) \cup ({m} \ M)
        <5>1. Contents(Append(a, m)) = A \cup {m}
          BY ContentsOf DEF A
        <5> QED
          BY <1>4, <3>2, <5>1
      <4>3. Contents(b) \ M \subseteq (A \ L) \cup {m}
        BY <2>6, <4>2
      <4>4. Cardinality((A \ L) \cup {m}) <= Cardinality(A \ L) + 1 /\ IsFiniteSet((A \ L) \cup {m})
        <5>1. Cardinality((A \ L) \cup {m}) = (IF m \in A \ L THEN Cardinality(A \ L) ELSE Cardinality(A \ L) + 1)
              /\ IsFiniteSet((A \ L) \cup {m})
          BY <1>3, FS_AddElement
        <5> QED
          BY <1>3, <5>1
      <4>5. /\ Cardinality(Contents(b) \ M) <= Cardinality((A \ L) \cup {m})
            /\ Cardinality(Contents(b) \ M) \in Nat /\ Cardinality((A \ L) \cup {m}) \in Nat
        BY <4>3, <4>4, FS_Subset, FS_CardinalityType
      <4>6. g.open = FALSE /\ p = n
        BY <2>2, <4>1 DEF p
      <4> QED
        BY <1>3, <2>7, <4>4, <4>5, <4>6
    <3> QED
      BY <3>1, <3>2
  <2>9. g.open => g.lines[Len(g.lines)] \notin Contents(b)
    BY <1>1, <1>4, <2>3
  <2>10. p # 0
    BY <2>7 DEF p
  <2> QED
    BY <1>1, <1>2, <1>4, <2>4, <2>8, <2>9, <2>10 DEF Kept, M
<1>8. ASSUME extent # "nothing", ~f.open PROVE Kept(g, b, p, S \cup {m})
  <2> DEFINE line == IF extent = "partial" THEN Garbage ELSE m
             M == Contents(g.lines)
  <2>1. line = m \/ line = Garbage
    OBVIOUS
  <2>2. g.lines = Append(f.lines, line) /\ g.open = (extent # "whole")
    BY <1>8 DEF g, Write
  <2>3. M = L \cup {line}
    BY <1>1, <2>2, ContentsOf DEF L
  <2>5. extent # "partial" => m \in M
    BY <2>3
  <2>6. p = 0 => n = 0 /\ extent # "partial"
    BY DEF p
  <2>7. g.open => b = a /\ p = n + 1
    BY <1>4, <1>8, <2>2 DEF p, Extent
  <2>8. ~g.open => p = n /\ extent # "partial"
    BY <1>8, <2>2 DEF p
  <2>9. g.open => g.lines[Len(g.lines)] \notin Contents(b)
    <3>1. g.lines[Len(g.lines)] = line
      BY <1>1, <2>2
    <3>2. line \notin A
      BY <1>1, <1>2, <2>1
    <3> QED
      BY <2>7, <3>1, <3>2 DEF A
  <2>10. Contents(b) \ M \subseteq A \ L
    <3>1. CASE b = a
      BY <2>3, <3>1 DEF A
    <3>2. CASE b # a
      <4>1. m \in M
        BY <1>4, <2>5, <3>2
      <4> QED
        BY <1>4, <2>3, <4>1
    <3> QED
      BY <3>1, <3>2
  <2>11. Cardinality(Contents(b) \ M) <= Cardinality(A \ L) /\ Cardinality(Contents(b) \ M) \in Nat
    BY <1>3, <2>10, FS_Subset, FS_CardinalityType
  <2>12. Cardinality(Contents(b) \ M) + (IF g.open THEN 1 ELSE 0) <= p
    BY <1>2, <1>3, <1>8, <2>7, <2>8, <2>11
  <2>13. p = 0 => Garbage \notin M
    <3>1. p = 0 => Garbage \notin L /\ line = m
      BY <1>2, <2>6
    <3> QED
      BY <1>1, <2>3, <3>1
  <2>14. M \ {Garbage} \subseteq S \cup {m}
    BY <1>2, <2>1, <2>3
  <2>15. Contents(b) \subseteq S \cup {m}
    BY <1>2, <1>4
  <2> HIDE DEF line
  <2> QED
    BY <1>1, <2>9, <2>12, <2>13, <2>14, <2>15 DEF Kept, M
<1> QED
  BY <1>1, <1>6, <1>7, <1>8 DEF g, p

\* What a restart reads has the order of the file.
LEMMA LoadOrdered ==
    ASSUME NEW f \in File, NEW a, Ordered(f.lines, a)
    PROVE  Ordered(LoadMessages(f), a)
<1> DEFINE q == LoadMessages(f)
<1>1. \A i, j \in 1..Len(q) : i < j =>
         \E x, y \in 1..Len(f.lines) : x < y /\ f.lines[x] = q[i] /\ f.lines[y] = q[j]
  BY LoadKeeps
<1> HIDE DEF q
<1> SUFFICES ASSUME NEW i \in 1..Len(q), NEW j \in 1..Len(q), i < j, q[i] # Garbage, q[j] # Garbage
             PROVE  q[i] # q[j] /\ \A k, l \in 1..Len(a) : a[k] = q[i] /\ a[l] = q[j] => k < l
  BY DEF Ordered, q
<1>2. PICK x \in 1..Len(f.lines), y \in 1..Len(f.lines) :
         x < y /\ f.lines[x] = q[i] /\ f.lines[y] = q[j]
  BY <1>1
<1> QED
  BY <1>2 DEF Ordered

-----------------------------------------------------------------------------
(* The files of a session and its conversation in memory, step by step.    *)

\* The conversation in memory.
Memory(s) == IF s \in InMemory THEN sessions[s].msgs ELSE << >>

\* Only AddMessage changes a conversation that stays in memory.
LEMMA MessagesStay ==
    ASSUME LifeInv, [Next]_vars, NEW s \in InMemory, s \in InMemory'
    PROVE  sessions'[s].msgs = sessions[s].msgs \/ \E m \in Messages : AddMessage(s, m)
<1> DEFINE Same == sessions'[s].msgs = sessions[s].msgs
<1>1. /\ s \in Sessions /\ sessions[s] \in Session /\ sessions'[s] # Absent
      /\ sessions \in [Sessions -> Session \cup {Absent}]
  BY DEF LifeInv, TypeOK, InMemory
<1>2. ASSUME NEW t \in Sessions, NEW x, Replace(t, x), t = s => x.msgs = sessions[s].msgs PROVE Same
  BY <1>1, <1>2 DEF Replace
<1>3. ASSUME NEW t \in Sessions, NEW x, Replace(t, x), t # s PROVE Same
  BY <1>1, <1>3 DEF Replace
<1>4. ASSUME NEW t \in Sessions, NEW o \in Owners, Update(t, o) PROVE Same
  BY <1>1, <1>2, <1>4 DEF Update, Session
<1>5. ASSUME NEW t \in Sessions, CloseSession(t) PROVE Same
  <2>1. t = s => [Transition(sessions[t], "closed") EXCEPT !.Status = "stopped"].msgs = sessions[s].msgs
    <3> SUFFICES ASSUME t = s PROVE [Transition(sessions[s], "closed") EXCEPT !.Status = "stopped"].msgs = sessions[s].msgs
      OBVIOUS
    <3> QED
      BY <1>1, <1>5, ClosingAgrees DEF CloseSession, LifeInv, AllAgree
  <2> QED
    BY <1>2, <1>5, <2>1 DEF CloseSession
<1>6. ASSUME NEW t \in Sessions, Delete(t) PROVE Same
  <2>1. t # s
    BY <1>1, <1>6 DEF Delete, Replace
  <2> QED
    BY <1>3, <1>6, <2>1 DEF Delete
<1>7. ASSUME NEW t \in Sessions, Expire(t) PROVE Same
  BY <1>1, <1>2, <1>7 DEF Expire, Session
<1>8. ASSUME NEW t \in Sessions, NEW c \in Containers, AddContainer(t, c) \/ RemoveContainer(t, c) PROVE Same
  <2>1. PICK d : Replace(t, [sessions[t] EXCEPT !.containers = d])
    BY <1>8 DEF AddContainer, RemoveContainer
  <2> QED
    BY <1>1, <1>2, <2>1 DEF Session
<1>9. ASSUME NEW t \in Sessions, NEW m \in Messages, AddMessage(t, m), ~AddMessage(s, m) PROVE Same
  BY <1>3, <1>9 DEF AddMessage
<1>10. ASSUME UNCHANGED sessions PROVE Same
  BY <1>10
<1>11. ASSUME Die PROVE FALSE
  BY <1>1, <1>11 DEF Die
<1>12. ASSUME Boot PROVE FALSE
  BY <1>12 DEF Boot, LifeInv, DownIsEmpty
<1>13. ASSUME cleanup PROVE Same
  <2>1. PICK quiet \in SUBSET InMemory : sessions'[s] = Clean(sessions[s], s \in quiet)
    BY <1>1, <1>13 DEF cleanup
  <2>2. (s \in quiet) \in BOOLEAN
    OBVIOUS
  <2> QED
    BY <1>1, <2>1, <2>2, CleanTypes
<1>14. ASSUME CloseEnd PROVE Same
  <2>1. sessions'[s] = IF ~IsTerminal(sessions[s])
                       THEN [Transition(sessions[s], "closed") EXCEPT !.Status = "stopped"] ELSE sessions[s]
    BY <1>1, <1>14 DEF CloseEnd
  <2>2. Agrees(sessions[s])
    BY DEF LifeInv, AllAgree
  <2> QED
    BY <1>1, <2>1, <2>2, ClosingAgrees
<1>15. ASSUME NEW t \in Sessions, NEW o \in Owners, NEW e \in {"never", "pending"}, Create(t, o, e) PROVE Same
  <2>1. t # s
    BY <1>15 DEF Create, LifeInv, BornFirst
  <2> QED
    BY <1>3, <1>15, <2>1 DEF Create
<1> HIDE DEF Same
<1>16. CASE Next
  <2>1. ASSUME NEW t \in Sessions, NEW m \in Messages, AddMessageFails(t, m) \/ CrashInAddMessage(t, m)
        PROVE  Same
    BY <1>10, <1>11, <2>1 DEF AddMessageFails, CrashInAddMessage
  <2>2. ASSUME Crash \/ Tick \/ CloseBegin \/ StopCleanup PROVE Same
    BY <1>10, <1>11, <2>2 DEF Crash, Tick, CloseBegin, StopCleanup
  <2>3. ASSUME NEW t \in Sessions, NEW m \in Messages, AddMessage(t, m)
        PROVE  Same \/ \E d \in Messages : AddMessage(s, d)
    BY <1>9, <2>3
  <2> QED
    BY <1>4, <1>5, <1>6, <1>7, <1>8, <1>12, <1>13, <1>14, <1>15, <1>16, <2>1, <2>2, <2>3 DEF Next, Same
<1> QED
  BY <1>10, <1>16 DEF vars, Same

\* No file changes: what a session has in memory is lost, read back or as it was.
Rests ==
    /\ UNCHANGED <<files, sent, acked, torn>>
    /\ \A s \in Sessions :
         \/ Memory(s)' \in {Memory(s), << >>}
         \/ \E p \in Owners : Memory(s)' = LoadMessages(files[p][s])

\* One append to one file, and its acknowledgement when it is whole.
Appends(o, t, m, extent) ==
    /\ files'[o][t] = Write(files[o][t], m, extent)
    /\ torn'[o][t] = IF extent \in {"noeol", "partial"} THEN torn[o][t] + 1 ELSE torn[o][t]
    /\ acked'[o][t] = acked[o][t] \/ (extent = "whole" /\ acked'[o][t] = Append(acked[o][t], m))
    /\ \A p \in Owners, s \in Sessions : p # o \/ s # t =>
         files'[p][s] = files[p][s] /\ torn'[p][s] = torn[p][s] /\ acked'[p][s] = acked[p][s]
    /\ sent' = sent \cup {m}
    /\ Memory(t)' \in {Memory(t), << >>} \/ (extent = "whole" /\ Memory(t)' = Append(Memory(t), m))
    /\ \A s \in Sessions \ {t} : Memory(s)' \in {Memory(s), << >>}

\* A step means one of these for the files.
LEMMA FileTurn ==
    ASSUME Persistence, LifeInv, [Next]_vars
    PROVE  \/ Rests
           \/ \E o \in Owners, t \in Sessions, m \in Messages \ sent, extent \in Extent : Appends(o, t, m, extent)
<1>1. DiskMoves /\ LifeInv'
  BY LifeStep, DiskStep
<1>2. CASE UNCHANGED <<files, sent, acked, torn>>
  <2> SUFFICES ASSUME NEW s \in Sessions
               PROVE  \/ Memory(s)' \in {Memory(s), << >>}
                      \/ \E p \in Owners : Memory(s)' = LoadMessages(files[p][s])
    BY <1>2 DEF Rests
  <2>1. CASE s \notin InMemory'
    BY <2>1 DEF Memory
  <2>2. CASE s \in InMemory' /\ s \notin InMemory
    <3>1. Memory(s)' = sessions'[s].msgs
      BY <2>2 DEF Memory
    <3>2. sessions'[s].msgs = << >> \/ (Directories(s) # {} /\ sessions'[s] = Restored(s))
      BY <2>2, Arrivals
    <3>3. ASSUME Directories(s) # {} PROVE \E p \in Owners : Restored(s).msgs = LoadMessages(files[p][s])
      <4>1. /\ Restored(s).owner \in Directories(s)
            /\ Restored(s).msgs = LoadMessages(files[Restored(s).owner][s])
        BY <3>3, RestoredTypes DEF LifeInv
      <4> QED
        BY <4>1 DEF Directories
    <3> QED
      BY <3>1, <3>2, <3>3
  <2>3. CASE s \in InMemory' /\ s \in InMemory
    <3>1. ASSUME NEW m \in Messages, AddMessage(s, m) PROVE FALSE
      BY <1>2, <3>1 DEF AddMessage, AppendMessage
    <3> QED
      BY <2>3, <3>1, MessagesStay DEF Memory
  <2> QED
    BY <2>1, <2>2, <2>3
<1>3. CASE ~UNCHANGED <<files, sent, acked, torn>>
  <2>1. PICK t \in Sessions, m \in Messages, extent \in Extents \cup {"whole"} :
           /\ t \in InMemory /\ m \notin sent
           /\ AppendMessage(t, m, extent)
           /\ \/ UNCHANGED <<acked, sessions>>
              \/ UNCHANGED acked /\ sessions' = [u \in Sessions |-> Absent]
              \/ /\ extent = "whole"
                 /\ acked' = [acked EXCEPT ![sessions[t].owner][t] = Append(@, m)]
                 /\ Replace(t, Remember(sessions[t], m))
    BY <1>1, <1>3 DEF DiskMoves
  <2> DEFINE o == sessions[t].owner
             g == Write(files[o][t], m, extent)
  <2>2. o \in Owners /\ extent \in Extent /\ sessions[t] \in Session
    <3>1. sessions[t] \in Session
      BY <2>1 DEF LifeInv, TypeOK, InMemory
    <3> QED
      BY <3>1, ManagerAssumption DEF Session, Extent
  <2>3. /\ files' = [files EXCEPT ![o][t] = g] /\ sent' = sent \cup {m}
        /\ torn' = IF extent \in {"noeol", "partial"} THEN [torn EXCEPT ![o][t] = @ + 1] ELSE torn
    BY <2>1 DEF AppendMessage
  <2>4. Memory(t) = sessions[t].msgs
    BY <2>1 DEF Memory
  <2>5. ASSUME Replace(t, Remember(sessions[t], m))
        PROVE  /\ Memory(t)' = Append(Memory(t), m)
               /\ \A s \in Sessions \ {t} : Memory(s)' = Memory(s)
    <3>1. sessions'[t] = Remember(sessions[t], m) /\ \A s \in Sessions \ {t} : sessions'[s] = sessions[s]
      BY <2>5 DEF Replace, LifeInv, TypeOK
    <3>2. Remember(sessions[t], m) \in Session /\ Remember(sessions[t], m).msgs = Append(sessions[t].msgs, m)
      BY <2>1, <2>2, RememberAgrees DEF LifeInv, AllAgree
    <3>3. t \in InMemory' /\ \A s \in Sessions \ {t} : s \in InMemory' <=> s \in InMemory
      BY <3>1, <3>2, AbsentAssumption DEF InMemory
    <3> QED
      BY <2>4, <3>1, <3>2, <3>3 DEF Memory
  <2> HIDE DEF g, o
  <2>6. /\ files'[o][t] = g
        /\ torn'[o][t] = IF extent \in {"noeol", "partial"} THEN torn[o][t] + 1 ELSE torn[o][t]
        /\ \A p \in Owners, s \in Sessions : p # o \/ s # t =>
             files'[p][s] = files[p][s] /\ torn'[p][s] = torn[p][s]
    BY <2>2, <2>3 DEF LifeInv, TypeOK
  <2>7. CASE UNCHANGED acked /\ (UNCHANGED sessions \/ sessions' = [u \in Sessions |-> Absent])
    <3>1. \A s \in Sessions : Memory(s)' \in {Memory(s), << >>}
      BY <2>7 DEF Memory, InMemory
    <3>2. Appends(o, t, m, extent)
      BY <2>3, <2>6, <2>7, <3>1 DEF Appends, g
    <3> QED
      BY <2>1, <2>2, <3>2
  <2>8. CASE /\ extent = "whole" /\ acked' = [acked EXCEPT ![o][t] = Append(@, m)]
             /\ Replace(t, Remember(sessions[t], m))
    <3>1. /\ acked'[o][t] = Append(acked[o][t], m)
          /\ \A p \in Owners, s \in Sessions : p # o \/ s # t => acked'[p][s] = acked[p][s]
      BY <2>2, <2>8 DEF LifeInv, TypeOK
    <3>2. Appends(o, t, m, extent)
      BY <2>3, <2>5, <2>6, <2>8, <3>1 DEF Appends, g
    <3> QED
      BY <2>1, <2>2, <3>2
  <2> QED
    BY <2>1, <2>7, <2>8 DEF o
<1> QED
  BY <1>2, <1>3

-----------------------------------------------------------------------------
(* What AddMessage acknowledged is kept.                                   *)

\* Every file keeps what was acknowledged under its owner, and no file of a session
\* contradicts the order of what was acknowledged under any of its owners.
Filed ==
    \A o \in Owners, s \in Sessions :
        /\ Kept(files[o][s], acked[o][s], torn[o][s], sent)
        /\ \A p \in Owners : Ordered(files[o][s].lines, acked[p][s])

\* The conversation in memory follows the same order and, while no line of the session was
\* torn, holds nothing that its files do not.
Held(s) ==
    /\ Contents(Memory(s)) \subseteq sent
    /\ \A o \in Owners : Ordered(Memory(s), acked[o][s])
    /\ (\A o \in Owners : torn[o][s] = 0) =>
          \A x \in Contents(Memory(s)) : \E o \in Owners : x \in Contents(files[o][s].lines)

\* The inductive invariant.
DurableInv == LifeInv /\ Filed /\ \A s \in Sessions : Held(s)

\* The files, their acknowledgements and the messages in memory have their types.
LEMMA FileTypes ==
    ASSUME LifeInv
    PROVE  \A o \in Owners, s \in Sessions :
             /\ files[o][s] \in File /\ (files[o][s].open => files[o][s].lines # << >>)
             /\ files[o][s].lines \in Seq(Messages \cup {Garbage})
             /\ acked[o][s] \in Seq(Messages) /\ torn[o][s] \in Nat /\ Memory(s) \in Seq(Messages)
<1>1. \A s \in Sessions : Memory(s) \in Seq(Messages)
  BY DEF LifeInv, TypeOK, Memory, InMemory, Session
<1> QED
  BY <1>1 DEF LifeInv, TypeOK, OpenHasLine, File

\* A step keeps it in every file.
LEMMA FiledStep ==
    ASSUME Persistence, DurableInv, [Next]_vars
    PROVE  Filed'
<1>1. CASE Rests
  BY <1>1 DEF Rests, Filed, DurableInv
<1>2. ASSUME NEW o \in Owners, NEW t \in Sessions, NEW m \in Messages \ sent, NEW extent \in Extent,
             Appends(o, t, m, extent)
      PROVE  Filed'
  <2>1. LifeInv /\ Filed /\ sent' = sent \cup {m}
    BY <1>2 DEF DurableInv, Appends
  <2> SUFFICES ASSUME NEW p \in Owners, NEW s \in Sessions
               PROVE  /\ Kept(files'[p][s], acked'[p][s], torn'[p][s], sent')
                      /\ \A q \in Owners : Ordered(files'[p][s].lines, acked'[q][s])
    BY DEF Filed
  <2> DEFINE f == files[p][s]
  <2>2. /\ Kept(f, acked[p][s], torn[p][s], sent)
        /\ \A q \in Owners : Ordered(f.lines, acked[q][s]) /\ Contents(acked[q][s]) \subseteq sent
        /\ Contents(f.lines) \ {Garbage} \subseteq sent
    BY <2>1 DEF Filed, Kept
  <2>3. /\ f \in File /\ (f.open => f.lines # << >>) /\ f.lines \in Seq(Messages \cup {Garbage})
        /\ torn[p][s] \in Nat /\ \A q \in Owners : acked[q][s] \in Seq(Messages)
    BY <2>1, FileTypes
  <2>4. \A q \in Owners : acked'[q][s] = acked[q][s] \/ acked'[q][s] = Append(acked[q][s], m)
    BY <1>2 DEF Appends
  <2>5. CASE p = o /\ s = t
    <3>1. /\ files'[p][s] = Write(f, m, extent)
          /\ torn'[p][s] = IF extent \in {"noeol", "partial"} THEN torn[p][s] + 1 ELSE torn[p][s]
          /\ acked'[p][s] = acked[p][s] \/ (extent = "whole" /\ acked'[p][s] = Append(acked[p][s], m))
      BY <1>2, <2>5 DEF Appends
    <3>2. Kept(Write(f, m, extent), acked'[p][s],
               IF extent \in {"noeol", "partial"} THEN torn[p][s] + 1 ELSE torn[p][s], sent \cup {m})
      BY <2>2, <2>3, <3>1, KeptWrite
    <3>3. ASSUME NEW q \in Owners PROVE Ordered(Write(f, m, extent).lines, acked'[q][s])
      BY <2>2, <2>3, <2>4, OrderedWrite
    <3> QED
      BY <2>1, <3>1, <3>2, <3>3
  <2>6. CASE p # o \/ s # t
    <3>1. files'[p][s] = f /\ acked'[p][s] = acked[p][s] /\ torn'[p][s] = torn[p][s]
      BY <1>2, <2>6 DEF Appends
    <3>2. Kept(f, acked[p][s], torn[p][s], sent \cup {m})
      BY <2>2 DEF Kept
    <3>3. ASSUME NEW q \in Owners PROVE Ordered(f.lines, acked'[q][s])
      BY <2>2, <2>3, <2>4, OrderedAppend
    <3> QED
      BY <2>1, <3>1, <3>2, <3>3
  <2> QED
    BY <2>5, <2>6
<1> QED
  BY <1>1, <1>2, FileTurn DEF DurableInv

\* A file that was not torn loses no line to an append that does not tear it either.
LEMMA LinesStay ==
    ASSUME NEW f \in File, NEW a \in Seq(Messages), NEW S, Kept(f, a, 0, S),
           NEW m \in Messages, NEW extent \in Extent, extent \notin {"noeol", "partial"}
    PROVE  /\ Contents(f.lines) \subseteq Contents(Write(f, m, extent).lines)
           /\ extent = "whole" => m \in Contents(Write(f, m, extent).lines)
<1>1. f.lines \in Seq(Messages \cup {Garbage}) /\ f.open \in BOOLEAN
  BY DEF File
<1>2. ~f.open
  <2>1. IsFiniteSet(Contents(a) \ Contents(f.lines))
    BY ContentsOf, FS_Difference
  <2>2. Cardinality(Contents(a) \ Contents(f.lines)) \in Nat
    BY <2>1, FS_CardinalityType
  <2>3. Cardinality(Contents(a) \ Contents(f.lines)) + (IF f.open THEN 1 ELSE 0) <= 0
    BY DEF Kept
  <2> QED
    BY <2>2, <2>3
<1>3. CASE extent = "nothing"
  BY <1>3 DEF Write, File
<1>4. CASE extent = "whole"
  <2>1. Write(f, m, extent).lines = Append(f.lines, m)
    BY <1>2, <1>4 DEF Write
  <2>2. Contents(Append(f.lines, m)) = Contents(f.lines) \cup {m}
    BY <1>1, ContentsOf
  <2> QED
    BY <2>1, <2>2
<1> QED
  BY <1>3, <1>4 DEF Extent

\* And in every conversation.
LEMMA HeldStep ==
    ASSUME Persistence, DurableInv, [Next]_vars, NEW s \in Sessions
    PROVE  Held(s)'
<1>1. LifeInv /\ Filed /\ Held(s)
  BY DEF DurableInv
<1>2. /\ \A o \in Owners : /\ files[o][s] \in File /\ acked[o][s] \in Seq(Messages) /\ torn[o][s] \in Nat
                           /\ Kept(files[o][s], acked[o][s], torn[o][s], sent)
                           /\ \A p \in Owners : Ordered(files[p][s].lines, acked[o][s])
                           /\ Contents(acked[o][s]) \subseteq sent
      /\ Contents(<< >>) = {}
      /\ \A a : Ordered(<< >>, a)
  <2>1. Contents(<< >>) = {} /\ \A a : Ordered(<< >>, a)
    BY DEF Contents, Ordered
  <2>2. \A o \in Owners : /\ Kept(files[o][s], acked[o][s], torn[o][s], sent)
                          /\ \A p \in Owners : Ordered(files[p][s].lines, acked[o][s])
    BY <1>1 DEF Filed
  <2>3. \A o \in Owners : Contents(acked[o][s]) \subseteq sent
    BY <2>2 DEF Kept
  <2> QED
    BY <1>1, <2>1, <2>2, <2>3, FileTypes
<1>3. CASE Rests
  <2>1. CASE Memory(s)' \in {Memory(s), << >>}
    BY <1>1, <1>2, <1>3, <2>1 DEF Rests, Held
  <2>2. ASSUME NEW p \in Owners, Memory(s)' = LoadMessages(files[p][s]) PROVE Held(s)'
    <3>1. Contents(LoadMessages(files[p][s])) = Contents(files[p][s].lines) \ {Garbage}
      BY <1>2, LoadKeeps
    <3>2. \A o \in Owners : Ordered(LoadMessages(files[p][s]), acked[o][s])
      BY <1>2, LoadOrdered
    <3>3. Contents(files[p][s].lines) \ {Garbage} \subseteq sent
      BY <1>2 DEF Kept
    <3> QED
      BY <1>3, <2>2, <3>1, <3>2, <3>3 DEF Rests, Held
  <2> QED
    BY <1>3, <2>1, <2>2 DEF Rests
<1>4. ASSUME NEW o \in Owners, NEW t \in Sessions, NEW m \in Messages \ sent, NEW extent \in Extent,
             Appends(o, t, m, extent)
      PROVE  Held(s)'
  <2> DEFINE q == Memory(s)
             now == Memory(s)'
  <2>1. /\ q \in Seq(Messages) /\ Contents(q) \subseteq sent
        /\ \A p \in Owners : Ordered(q, acked[p][s])
    BY <1>1, FileTypes DEF Held
  <2>2. q \in Seq(Messages \cup {Garbage}) /\ Contents(q) \ {Garbage} \subseteq sent
    <3>1. Seq(Messages) \subseteq Seq(Messages \cup {Garbage})
      BY ElementOfSeq, SeqDef
    <3> QED
      BY <2>1, <3>1
  <2>3. /\ now \in {q, << >>} \/ (s = t /\ extent = "whole" /\ now = Append(q, m))
        /\ sent' = sent \cup {m}
        /\ \A p \in Owners : acked'[p][s] = acked[p][s] \/ acked'[p][s] = Append(acked[p][s], m)
    BY <1>4 DEF Appends
  <2> HIDE DEF q, now
  <2>4. Contents(Append(q, m)) = Contents(q) \cup {m}
    BY <2>1, ContentsOf
  <2>5. Contents(now) \subseteq sent'
    BY <1>2, <2>1, <2>3, <2>4
  <2>6. ASSUME NEW p \in Owners PROVE Ordered(now, acked'[p][s])
    <3>1. Ordered(q, acked[p][s]) /\ acked[p][s] \in Seq(Messages) /\ Contents(acked[p][s]) \subseteq sent
      BY <1>2, <2>1
    <3>2. Ordered(q, acked'[p][s]) /\ Ordered(Append(q, m), acked'[p][s])
      BY <2>2, <2>3, <3>1, OrderedAppend
    <3> QED
      BY <1>2, <2>3, <3>2
  <2>7. ASSUME \A p \in Owners : torn'[p][s] = 0, NEW x \in Contents(now)
        PROVE  \E p \in Owners : x \in Contents(files'[p][s].lines)
    <3>1. \A p \in Owners : torn[p][s] = 0
      BY <1>2, <1>4, <2>7 DEF Appends
    <3>2. s = t => extent \notin {"noeol", "partial"}
      BY <1>2, <1>4, <2>7 DEF Appends
    <3>3. \A p \in Owners : Contents(files[p][s].lines) \subseteq Contents(files'[p][s].lines)
      <4> SUFFICES ASSUME NEW p \in Owners PROVE Contents(files[p][s].lines) \subseteq Contents(files'[p][s].lines)
        OBVIOUS
      <4>1. CASE p = o /\ s = t
        <5>1. files'[p][s] = Write(files[p][s], m, extent) /\ Kept(files[p][s], acked[p][s], 0, sent)
          BY <1>2, <1>4, <3>1, <4>1 DEF Appends
        <5> QED
          BY <1>2, <3>2, <4>1, <5>1, LinesStay
      <4>2. CASE p # o \/ s # t
        BY <1>4, <4>2 DEF Appends
      <4> QED
        BY <4>1, <4>2
    <3>4. \A y \in Contents(q) : \E p \in Owners : y \in Contents(files[p][s].lines)
      BY <1>1, <3>1 DEF Held, q
    <3>5. CASE x \in Contents(q)
      BY <3>3, <3>4, <3>5
    <3>6. CASE x \notin Contents(q)
      <4>1. s = t /\ extent = "whole" /\ x = m
        BY <1>2, <2>3, <2>4, <2>7, <3>6
      <4>2. files'[o][s] = Write(files[o][s], m, extent) /\ Kept(files[o][s], acked[o][s], 0, sent)
        BY <1>2, <1>4, <3>1, <4>1 DEF Appends
      <4> QED
        BY <1>2, <3>2, <4>1, <4>2, LinesStay
    <3> QED
      BY <3>5, <3>6
  <2> QED
    BY <2>5, <2>6, <2>7 DEF Held, now
<1> QED
  BY <1>1, <1>3, <1>4, FileTurn

\* There is nothing to keep at first.
LEMMA DurableInit == Init => DurableInv
<1> SUFFICES ASSUME Init PROVE DurableInv
  OBVIOUS
<1>1. Contents(<< >>) = {} /\ Cardinality({} \ {}) = 0 /\ \A a : Ordered(<< >>, a)
  BY FS_EmptySet DEF Contents, Ordered
<1>2. Kept(NoFile, << >>, 0, {})
  <2>1. NoFile.lines = << >> /\ NoFile.open = FALSE
    BY DEF NoFile
  <2>2. Cardinality(Contents(<< >>) \ Contents(NoFile.lines)) + (IF NoFile.open THEN 1 ELSE 0) <= 0
    <3>1. Cardinality(Contents(<< >>) \ Contents(NoFile.lines)) = 0
      BY <1>1, <2>1
    <3> QED
      BY <2>1, <3>1
  <2>3. Contents(NoFile.lines) = {}
    BY <1>1, <2>1
  <2> QED
    BY <1>1, <2>1, <2>2, <2>3 DEF Kept
<1>3. ASSUME NEW o \in Owners, NEW s \in Sessions
      PROVE  files[o][s] = NoFile /\ acked[o][s] = << >> /\ torn[o][s] = 0 /\ sent = {} /\ Memory(s) = << >>
  BY DEF Init, Memory, InMemory
<1>4. Filed
  <2> SUFFICES ASSUME NEW o \in Owners, NEW s \in Sessions
               PROVE  /\ Kept(files[o][s], acked[o][s], torn[o][s], sent)
                      /\ \A p \in Owners : Ordered(files[o][s].lines, acked[p][s])
    BY DEF Filed
  <2>1. NoFile.lines = << >>
    BY DEF NoFile
  <2> QED
    BY <1>1, <1>2, <1>3, <2>1
<1>5. \A s \in Sessions : Held(s)
  BY <1>1 DEF Init, Memory, InMemory, Held
<1> QED
  BY <1>4, <1>5, LifeInit DEF DurableInv

\* Every behaviour keeps what was acknowledged in its file.
LEMMA DurableHolds ==
    ASSUME Persistence
    PROVE  Spec => []DurableInv
<1>1. Init => DurableInv
  BY DurableInit
<1>2. DurableInv /\ [Next]_vars => DurableInv'
  <2> SUFFICES ASSUME DurableInv, [Next]_vars PROVE DurableInv'
    OBVIOUS
  <2>1. LifeInv' /\ Filed'
    BY LifeStep, FiledStep DEF DurableInv
  <2>2. \A s \in Sessions : Held(s)'
    BY HeldStep
  <2> QED
    BY <2>1, <2>2 DEF DurableInv
<1> QED
  BY <1>1, <1>2, PTL DEF Spec

\* What can be read from a file of what was acknowledged under its owner.
LEMMA ReadFollows ==
    ASSUME DurableInv, NEW o \in Owners, NEW s \in Sessions
    PROVE  /\ Kept(files[o][s], acked[o][s], torn[o][s], sent)
           /\ files[o][s] \in File /\ torn[o][s] \in Nat /\ acked[o][s] \in Seq(Messages)
           /\ OnDisk(o, s) \in Seq(Messages)
           /\ Contents(OnDisk(o, s)) = Contents(files[o][s].lines) \ {Garbage}
           /\ Contents(acked[o][s]) \ Contents(OnDisk(o, s)) = Contents(acked[o][s]) \ Contents(files[o][s].lines)
           /\ IsFiniteSet(Contents(acked[o][s]) \ Contents(files[o][s].lines))
           /\ Cardinality(Contents(acked[o][s]) \ Contents(files[o][s].lines)) \in Nat
<1>1. /\ Kept(files[o][s], acked[o][s], torn[o][s], sent)
      /\ files[o][s] \in File /\ torn[o][s] \in Nat /\ acked[o][s] \in Seq(Messages)
  BY FileTypes DEF DurableInv, Filed
<1>2. OnDisk(o, s) \in Seq(Messages) /\ Contents(OnDisk(o, s)) = Contents(files[o][s].lines) \ {Garbage}
  BY <1>1, LoadKeeps DEF OnDisk
<1>3. Contents(acked[o][s]) \subseteq Messages /\ IsFiniteSet(Contents(acked[o][s]))
  BY <1>1, ContentsOf
<1>4. /\ IsFiniteSet(Contents(acked[o][s]) \ Contents(files[o][s].lines))
      /\ Cardinality(Contents(acked[o][s]) \ Contents(files[o][s].lines)) \in Nat
  BY <1>3, FS_Difference, FS_CardinalityType
<1> QED
  BY <1>1, <1>2, <1>3, <1>4, StoreAssumption

\* However appends are cut short, however often the process dies and whoever owns the
\* session, each cut costs at most one acknowledged message: the one that continues its
\* line (persistence.go:253).
THEOREM LossStaysBounded ==
    ASSUME Persistence
    PROVE  Spec => []LossBounded
<1>1. DurableInv => LossBounded
  <2> SUFFICES ASSUME DurableInv, NEW o \in Owners, NEW s \in Sessions
               PROVE  Cardinality(Contents(acked[o][s]) \ Contents(OnDisk(o, s))) <= torn[o][s]
    BY DEF LossBounded
  <2> DEFINE lost == Cardinality(Contents(acked[o][s]) \ Contents(files[o][s].lines))
  <2>1. /\ lost \in Nat /\ torn[o][s] \in Nat
        /\ lost = Cardinality(Contents(acked[o][s]) \ Contents(OnDisk(o, s)))
        /\ lost + (IF files[o][s].open THEN 1 ELSE 0) <= torn[o][s]
    BY ReadFollows DEF Kept
  <2> HIDE DEF lost
  <2> QED
    BY <2>1
<1> QED
  BY DurableHolds, <1>1, PTL

\* Acknowledged messages come back in the order in which they were acknowledged, none
\* twice, in memory and from every file, torn lines or not (persistence.go, manager.go).
THEOREM OrderStaysPreserved ==
    ASSUME Persistence
    PROVE  Spec => []OrderPreserved
<1>1. DurableInv => OrderPreserved
  <2> SUFFICES ASSUME DurableInv, NEW o \in Owners, NEW s \in Sessions,
                      NEW q \in {OnDisk(p, s) : p \in Owners} \cup {sessions[t].msgs : t \in InMemory \cap {s}},
                      NEW i \in 1..Len(q), NEW j \in 1..Len(q), i < j
               PROVE  /\ q[i] # q[j]
                      /\ \A k, l \in 1..Len(acked[o][s]) :
                           acked[o][s][k] = q[i] /\ acked[o][s][l] = q[j] => k < l
    BY DEF OrderPreserved
  <2>1. \A p \in Owners : Ordered(OnDisk(p, s), acked[o][s]) /\ OnDisk(p, s) \in Seq(Messages)
    <3> SUFFICES ASSUME NEW p \in Owners PROVE Ordered(OnDisk(p, s), acked[o][s]) /\ OnDisk(p, s) \in Seq(Messages)
      OBVIOUS
    <3>1. files[p][s] \in File /\ OnDisk(p, s) \in Seq(Messages)
      BY ReadFollows
    <3>2. Ordered(files[p][s].lines, acked[o][s])
      BY DEF DurableInv, Filed
    <3> QED
      BY <3>1, <3>2, LoadOrdered DEF OnDisk
  <2>2. s \in InMemory => /\ Ordered(sessions[s].msgs, acked[o][s]) /\ sessions[s].msgs \in Seq(Messages)
    BY DEF Memory, DurableInv, Held, LifeInv, TypeOK, InMemory, Session
  <2>3. Ordered(q, acked[o][s]) /\ q \in Seq(Messages)
    BY <2>1, <2>2
  <2>4. q[i] # Garbage /\ q[j] # Garbage
    BY <2>3, ElementOfSeq, StoreAssumption
  <2> QED
    BY <2>3, <2>4 DEF Ordered
<1> QED
  BY DurableHolds, <1>1, PTL

\* No append left a line open.
Whole == \A o \in Owners, s \in Sessions : torn[o][s] = 0

\* With appends that are cut before their first byte or not at all, no line is torn.
LEMMA NothingTorn ==
    ASSUME Extents \subseteq {"whole", "nothing"}
    PROVE  Spec => []Whole
<1>1. Init => Whole
  BY DEF Init, Whole
<1>2. Whole /\ [Next]_vars => Whole'
  <2>1. [Next]_vars => UNCHANGED torn
    <3> SUFFICES ASSUME DiskMoves PROVE UNCHANGED torn
      BY DiskStep
    <3>1. ASSUME NEW s \in Sessions, NEW m \in Messages, NEW extent \in Extents \cup {"whole"},
                 AppendMessage(s, m, extent)
          PROVE  UNCHANGED torn
      BY <3>1 DEF AppendMessage
    <3> QED
      BY <3>1 DEF DiskMoves
  <2> QED
    BY <2>1 DEF Whole
<1> QED
  BY <1>1, <1>2, PTL DEF Spec

\* A file without a torn line keeps all that was acknowledged, and no more than was sent.
LEMMA WholeFile ==
    ASSUME DurableInv, Whole, NEW o \in Owners, NEW s \in Sessions
    PROVE  /\ Contents(acked[o][s]) \subseteq Contents(OnDisk(o, s))
           /\ Contents(OnDisk(o, s)) = Contents(files[o][s].lines)
           /\ Garbage \notin Contents(files[o][s].lines) /\ ~files[o][s].open
           /\ Contents(files[o][s].lines) \subseteq sent
           /\ ~files[o][s].exists => Contents(acked[o][s]) = {}
<1> DEFINE X == Contents(files[o][s].lines)
           A == Contents(acked[o][s])
<1>1. /\ Cardinality(A \ X) + (IF files[o][s].open THEN 1 ELSE 0) <= 0
      /\ Cardinality(A \ X) \in Nat /\ IsFiniteSet(A \ X)
      /\ A \ Contents(OnDisk(o, s)) = A \ X
      /\ Contents(OnDisk(o, s)) = X \ {Garbage}
      /\ Garbage \notin X /\ X \ {Garbage} \subseteq sent
      /\ ~files[o][s].exists => acked[o][s] = << >>
  <2>1. torn[o][s] = 0
    BY DEF Whole
  <2> QED
    BY <2>1, ReadFollows DEF Kept
<1> HIDE DEF X, A
<1>2. A \ X = {}
  <2>1. Cardinality(A \ X) = 0
    BY <1>1
  <2> QED
    BY <1>1, <2>1, FS_EmptySet
<1>3. ~files[o][s].open
  BY <1>1
<1>4. Contents(<< >>) = {}
  BY DEF Contents
<1> QED
  BY <1>1, <1>2, <1>3, <1>4 DEF X, A

\* Through failing syncs, crashes and changes of the owner an acknowledged message stays in
\* its file, in order, memory never holds more than the files, and a session that has one
\* owner, and not the empty one, is restored whole, as long as no append is cut in the
\* middle of its line (manager.go:370, persistence.go:253).
THEOREM ConversationsStayDurable ==
    ASSUME Persistence, Extents \subseteq {"whole", "nothing"}
    PROVE  Spec => []ConversationsDurable
<1>1. DurableInv /\ Whole => Durable
  BY WholeFile DEF Durable
<1>2. DurableInv /\ Whole => MemoryOnDisk
  <2> SUFFICES ASSUME DurableInv, Whole, NEW s \in InMemory, NEW x \in Contents(sessions[s].msgs)
               PROVE  \E o \in Owners : x \in Contents(OnDisk(o, s))
    BY DEF MemoryOnDisk
  <2>1. s \in Sessions /\ Held(s) /\ Memory(s) = sessions[s].msgs
    BY DEF InMemory, DurableInv, Memory
  <2>2. \E o \in Owners : x \in Contents(files[o][s].lines)
    BY <2>1 DEF Held, Whole
  <2> QED
    BY <2>1, <2>2, WholeFile
<1>3. DurableInv /\ Whole => OwnedIsRestored
  <2> SUFFICES ASSUME DurableInv, Whole, NEW s \in Sessions, NEW o \in Owners \ {0},
                      \A p \in Owners \ {o} : ~files[p][s].exists, NEW p \in Owners
               PROVE  Contents(acked[p][s]) \subseteq Contents(Recoverable(s))
    BY DEF OwnedIsRestored
  <2>1. CASE ~files[p][s].exists
    BY <2>1, WholeFile
  <2>2. CASE files[p][s].exists
    <3>1. p = o /\ Directories(s) = {o}
      BY <2>2 DEF Directories
    <3>2. Restored(s).owner = o /\ Restored(s).msgs = LoadMessages(files[o][s])
      BY <3>1, RestoredTypes DEF DurableInv, LifeInv
    <3>3. Recoverable(s) = OnDisk(o, s)
      BY <3>1, <3>2 DEF Recoverable, OnDisk
    <3> QED
      BY <3>1, <3>3, WholeFile
  <2> QED
    BY <2>1, <2>2
<1> QED
  BY DurableHolds, NothingTorn, OrderStaysPreserved, <1>1, <1>2, <1>3, PTL DEF ConversationsDurable

-----------------------------------------------------------------------------
(* The files implement the log.                                            *)

\* Of a file without a torn line LoadMessages returns the lines.
LEMMA LoadWhole ==
    ASSUME NEW f \in File, Garbage \notin Contents(f.lines)
    PROVE  LoadMessages(f) = f.lines
<1> DEFINE n == Len(f.lines)
           kept == {i \in 1..n : f.lines[i] # Garbage}
<1>1. n \in Nat /\ f.lines \in Seq(Messages \cup {Garbage})
  BY DEF File
<1>2. kept = 1..n
  BY DEF Contents
<1>3. \A k \in Nat : IsFiniteSet(1..k) /\ Cardinality(1..k) = k
  BY FS_Interval
<1>4. ASSUME NEW i \in 1..n PROVE RankIn(1..n, i) = i
  <2>1. {j \in 1..n : j <= i} = 1..i
    BY <1>1
  <2>2. Cardinality(1..i) = i
    BY <1>1, <1>3
  <2> QED
    BY <2>1, <2>2 DEF RankIn
<1>5. \A k \in 1..n : (CHOOSE i \in 1..n : RankIn(1..n, i) = k) = k
  BY <1>4
<1>6. LoadMessages(f) = [k \in 1..Cardinality(kept) |-> f.lines[CHOOSE i \in kept : RankIn(kept, i) = k]]
  BY DEF LoadMessages, RankIn
<1> HIDE DEF kept, n
<1>7. LoadMessages(f) = [k \in 1..n |-> f.lines[k]]
  <2>1. Cardinality(kept) = n
    BY <1>1, <1>2, <1>3 DEF n
  <2> QED
    BY <1>2, <1>5, <1>6, <2>1
<1>8. f.lines = [k \in 1..n |-> f.lines[k]]
  BY <1>1 DEF n
<1> QED
  BY <1>7, <1>8

\* The invariant of a manager whose appends are whole or nothing.
WholeInv == DurableInv /\ Whole

\* The log and its acknowledgements, as the refinement maps them.
Logged == [f \in Owners \X Sessions |-> OnDisk(f[1], f[2])]
Acknowledged == [f \in Owners \X Sessions |-> Contents(acked[f[1]][f[2]])]

\* A file without a torn line is read as it is.
LEMMA ReadWhole ==
    WholeInv => \A o \in Owners, s \in Sessions :
        OnDisk(o, s) = files[o][s].lines /\ ~files[o][s].open /\ Contents(files[o][s].lines) \subseteq sent
<1> SUFFICES ASSUME WholeInv, NEW o \in Owners, NEW s \in Sessions
             PROVE  OnDisk(o, s) = files[o][s].lines /\ ~files[o][s].open /\ Contents(files[o][s].lines) \subseteq sent
  OBVIOUS
<1>1. files[o][s] \in File
  BY FileTypes DEF WholeInv, DurableInv
<1> QED
  BY <1>1, WholeFile, LoadWhole DEF WholeInv, OnDisk

\* What is read is what the lines say.
FilesRead == \A o \in Owners, s \in Sessions : OnDisk(o, s) = files[o][s].lines

\* A whole append is a step of the log, everything else leaves it alone.
LEMMA LogStep ==
    ASSUME Persistence, WholeInv, FilesRead', Whole', [Next]_vars
    PROVE  [Log!Next]_<<Logged, Acknowledged>>
<1>1. LifeInv /\ DurableInv
  BY DEF WholeInv, DurableInv
<1>2. CASE Rests
  <2>1. \A o \in Owners, s \in Sessions : OnDisk(o, s)' = OnDisk(o, s)
    BY <1>2, ReadWhole DEF Rests, FilesRead
  <2> QED
    BY <1>2, <2>1 DEF Rests, Logged, Acknowledged
<1>3. ASSUME NEW o \in Owners, NEW t \in Sessions, NEW m \in Messages \ sent, NEW extent \in Extent,
             Appends(o, t, m, extent)
      PROVE  [Log!Next]_<<Logged, Acknowledged>>
  <2> DEFINE F == Owners \X Sessions
             e == <<o, t>>
  <2>1. e \in F /\ \A f \in F : f = <<f[1], f[2]>> /\ f[1] \in Owners /\ f[2] \in Sessions
    OBVIOUS
  <2>2. \A f \in F : f # e => f[1] # o \/ f[2] # t
    BY <2>1
  <2>3. /\ files[o][t] \in File /\ acked[o][t] \in Seq(Messages)
        /\ OnDisk(o, t) = files[o][t].lines /\ ~files[o][t].open /\ Contents(files[o][t].lines) \subseteq sent
        /\ OnDisk(o, t)' = files'[o][t].lines
        /\ files'[o][t] = Write(files[o][t], m, extent)
    BY <1>1, <1>3, ReadWhole, FileTypes DEF FilesRead, Appends
  <2>4. \A f \in F : f # e =>
           OnDisk(f[1], f[2])' = OnDisk(f[1], f[2]) /\ acked'[f[1]][f[2]] = acked[f[1]][f[2]]
    <3> SUFFICES ASSUME NEW f \in F, f # e
                 PROVE  OnDisk(f[1], f[2])' = OnDisk(f[1], f[2]) /\ acked'[f[1]][f[2]] = acked[f[1]][f[2]]
      OBVIOUS
    <3>1. /\ f[1] \in Owners /\ f[2] \in Sessions
          /\ files'[f[1]][f[2]] = files[f[1]][f[2]] /\ acked'[f[1]][f[2]] = acked[f[1]][f[2]]
      BY <1>3, <2>1, <2>2 DEF Appends
    <3> QED
      BY <3>1, ReadWhole DEF FilesRead
  <2>5. Contents(Append(acked[o][t], m)) = Contents(acked[o][t]) \cup {m}
    BY <2>3, ContentsOf
  <2>6. e[1] = o /\ e[2] = t
    OBVIOUS
  <2> HIDE DEF e, F
  <2>7. ASSUME acked'[o][t] = acked[o][t] PROVE Acknowledged' = Acknowledged
    <3>1. \A f \in F : Contents(acked'[f[1]][f[2]]) = Contents(acked[f[1]][f[2]])
      BY <2>4, <2>6, <2>7
    <3> QED
      BY <3>1 DEF Acknowledged, F
  <2>8. ASSUME acked'[o][t] = Append(acked[o][t], m) PROVE Acknowledged' = [Acknowledged EXCEPT ![e] = @ \cup {m}]
    <3>1. \A f \in F : Contents(acked'[f[1]][f[2]]) =
              IF f = e THEN Contents(acked[f[1]][f[2]]) \cup {m} ELSE Contents(acked[f[1]][f[2]])
      BY <2>4, <2>5, <2>6, <2>8
    <3> QED
      BY <2>1, <3>1 DEF Acknowledged, F
  <2>9. CASE extent = "whole"
    <3>1. OnDisk(o, t)' = Append(OnDisk(o, t), m)
      BY <2>3, <2>9 DEF Write
    <3>2. \A f \in F : OnDisk(f[1], f[2])' = IF f = e THEN Append(OnDisk(f[1], f[2]), m) ELSE OnDisk(f[1], f[2])
      BY <2>4, <2>6, <3>1
    <3>3. Logged' = [Logged EXCEPT ![e] = Append(@, m)]
      BY <2>1, <3>2 DEF Logged, F
    <3>4. Logged[e] = files[o][t].lines
      BY <2>1, <2>3, <2>6 DEF Logged, F
    <3>5. \A i \in 1..Len(Logged[e]) : Logged[e][i] # m
      BY <2>3, <3>4 DEF Contents
    <3>6. Acknowledged' \in {Acknowledged, [Acknowledged EXCEPT ![e] = @ \cup {m}]}
      BY <1>3, <2>7, <2>8 DEF Appends
    <3>7. Log!AppendMessage(e, m)
      BY <3>3, <3>5, <3>6 DEF Log!AppendMessage, Logged, Acknowledged
    <3> QED
      BY <2>1, <3>7 DEF Log!Next, F
  <2>10. CASE extent # "whole"
    <3>2. CASE extent = "nothing"
      <4>1. OnDisk(o, t)' = OnDisk(o, t)
        BY <2>3, <3>2 DEF Write, File
      <4>2. \A f \in F : OnDisk(f[1], f[2])' = OnDisk(f[1], f[2])
        BY <2>4, <2>6, <4>1
      <4>3. Logged' = Logged
        BY <4>2 DEF Logged, F
      <4> QED
        BY <1>3, <2>7, <2>10, <4>3 DEF Appends
    <3>3. CASE extent # "nothing"
      <4>1. ~Whole'
        <5>1. torn'[o][t] = torn[o][t] + 1 /\ torn[o][t] \in Nat
          BY <1>1, <1>3, <2>10, <3>3, FileTypes DEF Appends, Extent
        <5> QED
          BY <5>1 DEF Whole
      <4> QED
        BY <4>1
    <3> QED
      BY <3>2, <3>3
  <2> QED
    BY <2>9, <2>10
<1> QED
  BY <1>1, <1>2, <1>3, FileTurn

\* The session files implement the log AddMessage promises its callers: what can be read
\* from a file only grows at its end, by messages it did not hold, and a message that was
\* acknowledged under its owner is in it (manager.go:370, persistence.go:253).
THEOREM FilesImplementTheLog ==
    ASSUME Persistence, Extents \subseteq {"whole", "nothing"}
    PROVE  Spec => ImplementsLog
<1>1. Spec => []WholeInv
  BY DurableHolds, NothingTorn, PTL DEF WholeInv
<1>2. Init => Log!Init
  <2> SUFFICES ASSUME Init PROVE Log!Init
    OBVIOUS
  <2>1. WholeInv
    BY DurableInit DEF Init, Whole, WholeInv
  <2>2. \A o \in Owners, s \in Sessions : OnDisk(o, s) = << >> /\ Contents(acked[o][s]) = {}
    BY <2>1, ReadWhole DEF Init, NoFile, Contents
  <2> QED
    BY <2>2 DEF Log!Init
<1>3. WholeInv => FilesRead /\ Whole
  BY ReadWhole DEF FilesRead, WholeInv
<1>4. WholeInv /\ FilesRead' /\ Whole' /\ [Next]_vars
        => [Log!Next]_<<[f \in Owners \X Sessions |-> OnDisk(f[1], f[2])],
                        [f \in Owners \X Sessions |-> Contents(acked[f[1]][f[2]])]>>
  BY LogStep DEF Logged, Acknowledged
<1> QED
  BY <1>1, <1>2, <1>3, <1>4, PTL DEF Spec, ImplementsLog, Log!Spec

-----------------------------------------------------------------------------
(* The credential store.                                                   *)

\* Every acknowledged credential is answered from cs with the key k.
Readable(cs, k) == \A i \in CredIds : credAcked[i] # "unknown" => Answer(cs, k, i) = credAcked[i]

\* A rotation runs in an open store and writes the key before the file; while
\* none was cut short, the key in memory is the one on disk.
KeysAgree ==
    /\ keyFile = Missing => storeUp = "down" /\ \A i \in CredIds : storeFile[i] = None
    /\ rotating # "no" => storeUp = "open"
    /\ rotating = "save" => keyFile = gcm
    /\ bootedAfter => interrupted
    /\ storeUp = "open" /\ rotating = "no" /\ ~interrupted => keyFile = gcm

CrMemory == storeUp = "open" /\ ~bootedAfter => Readable(credentials, gcm)
CrDisk == ~interrupted /\ rotating = "no" => Readable(storeFile, keyFile)

\* The inductive invariant of the credential store.
CrIInv == CredTypeOK /\ KeysAgree /\ CrMemory /\ CrDisk /\ ClosedIsSaved

\* The answer for what is missing, and for what a key opens.
LEMMA AnswerIs ==
    /\ \A cs, k, i : cs[i] = None => Answer(cs, k, i) = "none"
    /\ \A cs, k, i : cs[i] # None /\ cs[i].key = k => Answer(cs, k, i) = cs[i].value
    /\ \A cs, k, i : cs[i] # None /\ cs[i].key # k => Answer(cs, k, i) = "error"
    /\ \A cs, ds, k, i : cs[i] = ds[i] => Answer(cs, k, i) = Answer(ds, k, i)
BY DEF Answer, Decrypts

\* Ciphertexts by their fields.
LEMMA CipherShape ==
    /\ \A v \in Secrets, k \in 1..MaxKeys : LET c == [key |-> k, value |-> v]
                                           IN c \in Ciphertexts /\ c # None /\ c.key = k /\ c.value = v
    /\ \A c \in Ciphertexts : c # None => c.key \in 1..MaxKeys /\ c.value \in Secrets
    /\ \A c \in Ciphertexts : c # None =>
           \A k \in 1..MaxKeys : LET d == [c EXCEPT !.key = k]
                                 IN d \in Ciphertexts /\ d # None /\ d.key = k /\ d.value = c.value
BY CredAssumption DEF Ciphertexts, None

\* The first start.
LEMMA CrInit == CredInit => CrIInv
<1> SUFFICES ASSUME CredInit PROVE CrIInv
  OBVIOUS
<1>1. None \in Ciphertexts /\ MaxKeys \in Nat /\ MaxRestarts \in Nat
  BY CredAssumption DEF Ciphertexts
<1>2. CredTypeOK
  <2>1. credentials \in [CredIds -> Ciphertexts] /\ storeFile \in [CredIds -> Ciphertexts]
    BY <1>1 DEF CredInit
  <2>2. /\ gcm = 0 /\ keys = 0 /\ restarts = 0 /\ keyFile = Missing /\ storeUp = "down" /\ rotating = "no"
        /\ expired = {} /\ interrupted = FALSE /\ bootedAfter = FALSE
    BY DEF CredInit
  <2>3. credAcked \in [CredIds -> Secrets \cup {"none", "unknown"}]
    BY DEF CredInit
  <2>4. gcm \in 0..keys /\ keys \in 0..MaxKeys /\ restarts \in 0..MaxRestarts
    BY <1>1, <2>2
  <2>5. interrupted \in BOOLEAN /\ bootedAfter \in BOOLEAN
    BY <2>2
  <2>6. expired \subseteq CredIds /\ keyFile \in {Missing, Torn} \cup 1..keys
    BY <2>2
  <2>7. storeUp # "open" /\ storeUp \in {"down", "open", "closed"} /\ rotating \in {"no", "key", "save"}
    BY <2>2
  <2> QED
    BY <2>1, <2>3, <2>4, <2>5, <2>6, <2>7 DEF CredTypeOK
<1>3. \A i \in CredIds : credentials[i] = None /\ storeFile[i] = None /\ credAcked[i] = "none"
  BY DEF CredInit
<1>4. Readable(storeFile, keyFile)
  BY <1>3, AnswerIs DEF Readable
<1>5. KeysAgree
  BY <1>3 DEF CredInit, KeysAgree
<1>6. storeUp = "down"
  BY DEF CredInit
<1> QED
  BY <1>2, <1>4, <1>5, <1>6 DEF CrIInv, CrMemory, CrDisk, ClosedIsSaved

\* The numbers of the state.
LEMMA CrNumbers ==
    ASSUME CredTypeOK
    PROVE  /\ keys \in Nat /\ keys <= MaxKeys /\ gcm \in Nat /\ gcm <= keys /\ MaxKeys \in Nat
           /\ keyFile \in Int /\ keyFile <= keys
           /\ storeUp = "open" => gcm \in 1..MaxKeys /\ gcm \in 1..keys
BY CredAssumption DEF CredTypeOK, Missing, Torn

\* A change of the credentials ids that was saved, or not.
LEMMA CrSaved ==
    ASSUME CrIInv, Idle, NEW ids \in SUBSET CredIds, NEW promise \in Secrets \cup {"none"},
           credentials' \in [CredIds -> Ciphertexts], expired' \subseteq CredIds,
           Saved(credentials', ids, promise),
           \A i \in CredIds \ ids : credentials'[i] = credentials[i],
           \A i \in ids : Answer(credentials', gcm, i) = promise,
           UNCHANGED <<gcm, keyFile, rotating, keys, interrupted, bootedAfter>>
    PROVE  CrIInv'
<1> USE DEF CrIInv
<1>1. /\ storeUp = "open" /\ rotating = "no" /\ rotating' = "no" /\ gcm' = gcm /\ keyFile' = keyFile /\ keys' = keys
      /\ interrupted' = interrupted /\ bootedAfter' = bootedAfter
  BY DEF Idle
<1>2. /\ storeFile' \in {credentials', storeFile}
      /\ storeUp' = "open" \/ storeUp' = "down"
      /\ restarts' = restarts \/ (restarts' = restarts + 1 /\ restarts < MaxRestarts)
      /\ \/ storeFile' = credentials' /\ credAcked' = [i \in CredIds |-> IF i \in ids THEN promise ELSE credAcked[i]]
         \/ credAcked' = [i \in CredIds |-> IF i \in ids THEN "unknown" ELSE credAcked[i]]
  BY <1>1 DEF Saved
<1>3. CredTypeOK'
  <2>1. credAcked' \in [CredIds -> Secrets \cup {"none", "unknown"}]
    BY <1>2 DEF CredTypeOK
  <2>2. restarts' \in 0..MaxRestarts
    BY <1>2, CredAssumption DEF CredTypeOK
  <2>3. storeFile' \in [CredIds -> Ciphertexts]
    BY <1>2 DEF CredTypeOK
  <2>4. gcm' \in 0..keys' /\ (storeUp' = "open" => gcm' # 0)
    BY <1>1 DEF CredTypeOK
  <2> QED
    BY <1>1, <1>2, <2>1, <2>2, <2>3, <2>4 DEF CredTypeOK
<1>4. KeysAgree'
  <2>1. keyFile # Missing
    BY <1>1 DEF KeysAgree
  <2> QED
    BY <1>1, <1>2, <2>1 DEF KeysAgree
<1>5. \A i \in ids : credAcked'[i] = promise \/ credAcked'[i] = "unknown"
  BY <1>2
<1>6. \A i \in CredIds \ ids : credAcked'[i] = credAcked[i]
  BY <1>2
<1>7. ~bootedAfter => \A i \in CredIds : credAcked'[i] # "unknown" => Answer(credentials', gcm, i) = credAcked'[i]
  <2> SUFFICES ASSUME ~bootedAfter, NEW i \in CredIds, credAcked'[i] # "unknown"
               PROVE  Answer(credentials', gcm, i) = credAcked'[i]
    OBVIOUS
  <2>1. CASE i \in ids
    BY <1>5, <2>1
  <2>2. CASE i \notin ids
    <3>1. Answer(credentials', gcm, i) = Answer(credentials, gcm, i)
      BY <2>2, AnswerIs
    <3> QED
      BY <1>1, <1>6, <2>2, <3>1 DEF CrMemory, Readable
  <2> QED
    BY <2>1, <2>2
<1>8. CrMemory'
  BY <1>1, <1>7 DEF CrMemory, Readable, Answer, Decrypts
<1>9. CrDisk'
  <2> SUFFICES ASSUME ~interrupted, NEW i \in CredIds, credAcked'[i] # "unknown"
               PROVE  Answer(storeFile', keyFile, i) = credAcked'[i]
    BY <1>1 DEF CrDisk, Readable, Answer, Decrypts
  <2>1. keyFile = gcm /\ ~bootedAfter
    BY <1>1 DEF KeysAgree
  <2>2. CASE storeFile' = credentials'
    BY <1>7, <2>1, <2>2
  <2>3. CASE storeFile' = storeFile /\ credAcked' = [j \in CredIds |-> IF j \in ids THEN "unknown" ELSE credAcked[j]]
    <3>1. i \notin ids /\ credAcked'[i] = credAcked[i]
      BY <2>3
    <3> QED
      BY <1>1, <2>3, <3>1 DEF CrDisk, Readable
  <2> QED
    BY <1>2, <2>2, <2>3
<1>10. ClosedIsSaved'
  BY <1>2 DEF ClosedIsSaved
<1> QED
  BY <1>3, <1>4, <1>8, <1>9, <1>10

\* What was deleted is in no file, so that no key and no loss brings it back.
LEMMA CrForgotten ==
    ASSUME CrIInv, rotating = "no", ~interrupted, NEW i \in CredIds, credAcked[i] = "none"
    PROVE  storeFile[i] = None
<1>1. Answer(storeFile, keyFile, i) = "none" /\ storeFile[i] \in Ciphertexts
  BY DEF CrIInv, CrDisk, Readable, CredTypeOK
<1>2. ASSUME storeFile[i] # None PROVE FALSE
  <2>1. storeFile[i].value \in Secrets
    BY <1>1, <1>2, CipherShape
  <2>2. Answer(storeFile, keyFile, i) \in {storeFile[i].value, "error"}
    BY <1>2, AnswerIs
  <2> QED
    BY <1>1, <2>1, <2>2, CredAssumption
<1> QED
  BY <1>2

\* A start, with the key of the file or a new one, and with the credentials or without.
LEMMA CrNewStore == CrIInv /\ NewStore => CrIInv'
<1> SUFFICES ASSUME CrIInv, NewStore PROVE CrIInv'
  OBVIOUS
<1> USE DEF CrIInv
<1>1. /\ storeUp = "down" /\ storeUp' = "open" /\ storeFile' = storeFile
      /\ credentials' \in {storeFile, [i \in CredIds |-> None]}
      /\ bootedAfter' = interrupted /\ interrupted' = interrupted /\ rotating' = rotating /\ restarts' = restarts
      /\ credAcked' = IF credentials' = storeFile /\ keyFile' = keyFile THEN credAcked ELSE Forgotten
      /\ expired' \subseteq expired
  BY DEF NewStore
<1>2. \/ keyFile > 0 /\ gcm' = keyFile /\ keys' = keys /\ keyFile' = keyFile
      \/ keys < MaxKeys /\ keys' = keys + 1 /\ gcm' = keys' /\ keyFile' = keys'
  BY DEF NewStore, LoadsKey
<1>3. rotating = "no"
  BY <1>1 DEF KeysAgree
<1>4. /\ gcm' \in 1..keys' /\ keyFile' = gcm' /\ keys' \in 0..MaxKeys /\ keyFile' # Missing
  BY <1>2, CrNumbers, CredAssumption DEF Missing
<1>5. CredTypeOK'
  <2>1. gcm' \in 0..keys' /\ gcm' # 0 /\ keyFile' \in {Missing, Torn} \cup 1..keys'
    BY <1>4
  <2>2. Forgotten \in [CredIds -> Secrets \cup {"none", "unknown"}]
    BY DEF Forgotten
  <2>3. credAcked' \in [CredIds -> Secrets \cup {"none", "unknown"}]
    BY <1>1, <2>2 DEF CredTypeOK
  <2>4. credentials' \in [CredIds -> Ciphertexts]
    <3>1. [i \in CredIds |-> None] \in [CredIds -> Ciphertexts]
      BY DEF Ciphertexts
    <3> QED
      BY <1>1, <3>1 DEF CredTypeOK
  <2> QED
    BY <1>1, <1>4, <2>1, <2>3, <2>4 DEF CredTypeOK
<1>6. KeysAgree'
  BY <1>1, <1>3, <1>4 DEF KeysAgree
<1>7. ASSUME ~interrupted, NEW i \in CredIds, credAcked'[i] # "unknown"
      PROVE  Answer(storeFile, gcm', i) = credAcked'[i] /\ Answer(credentials', gcm', i) = credAcked'[i]
  <2>1. CASE credAcked' = credAcked /\ credentials' = storeFile /\ keyFile' = keyFile
    <3>1. gcm' = keyFile
      BY <1>4, <2>1
    <3> QED
      BY <1>3, <1>7, <2>1, <3>1 DEF CrDisk, Readable
  <2>2. CASE credAcked' = Forgotten
    <3>1. credAcked[i] = "none" /\ credAcked'[i] = "none"
      BY <1>7, <2>2 DEF Forgotten
    <3>2. storeFile[i] = None /\ credentials'[i] = None
      BY <1>1, <1>3, <1>7, <3>1, CrForgotten
    <3> QED
      BY <3>1, <3>2, AnswerIs
  <2> QED
    BY <1>1, <2>1, <2>2
<1>8. CrMemory' /\ CrDisk'
  BY <1>1, <1>4, <1>7 DEF CrMemory, CrDisk, Readable, Answer, Decrypts
<1>9. ClosedIsSaved'
  BY <1>1 DEF ClosedIsSaved
<1> QED
  BY <1>5, <1>6, <1>8, <1>9

\* A rotation encrypts everything again.
LEMMA CrRotateBegins == CrIInv /\ RotateBegins => CrIInv'
<1> SUFFICES ASSUME CrIInv, RotateBegins PROVE CrIInv'
  OBVIOUS
<1> USE DEF CrIInv
<1>1. /\ storeUp = "open" /\ rotating = "no" /\ rotating' = "key" /\ keys < MaxKeys /\ keys' = keys + 1 /\ gcm' = keys'
      /\ \A i \in CredIds : credentials[i] # None => credentials[i].key = gcm
      /\ credentials' = [i \in CredIds |-> IF credentials[i] # None THEN [credentials[i] EXCEPT !.key = keys'] ELSE credentials[i]]
      /\ UNCHANGED <<expired, storeFile, keyFile, storeUp, restarts, credAcked, interrupted, bootedAfter>>
  BY DEF RotateBegins, Idle, Reencrypt, Decrypts
<1>2. keys' \in 1..MaxKeys /\ keyFile \in {Missing, Torn} \cup 1..keys'
  <2>1. keys \in Nat /\ MaxKeys \in Nat
    BY CrNumbers
  <2> QED
    BY <1>1, <2>1 DEF CredTypeOK
<1>3. credentials \in [CredIds -> Ciphertexts]
  BY DEF CredTypeOK
<1>4. ASSUME NEW i \in CredIds
      PROVE  credentials'[i] \in Ciphertexts /\ Answer(credentials', gcm', i) = Answer(credentials, gcm, i)
  <2>1. CASE credentials[i] = None
    <3>1. credentials'[i] = None
      BY <1>1, <2>1
    <3> QED
      BY <1>3, <2>1, <3>1, AnswerIs
  <2>2. CASE credentials[i] # None
    <3>1. credentials'[i] = [credentials[i] EXCEPT !.key = keys']
      BY <1>1, <2>2
    <3>2. /\ credentials'[i] \in Ciphertexts /\ credentials'[i] # None
          /\ credentials'[i].key = keys' /\ credentials'[i].value = credentials[i].value
      BY <1>2, <1>3, <2>2, <3>1, CipherShape
    <3> QED
      BY <1>1, <2>2, <3>2, AnswerIs
  <2> QED
    BY <2>1, <2>2
<1>5. credentials' \in [CredIds -> Ciphertexts]
  <2>1. credentials' = [i \in CredIds |-> credentials'[i]]
    BY <1>1
  <2> QED
    BY <1>4, <2>1
<1>6. CredTypeOK'
  <2>1. gcm' \in 0..keys' /\ gcm' # 0 /\ keys' \in 0..MaxKeys
    BY <1>1, <1>2
  <2> QED
    BY <1>1, <1>2, <1>5, <2>1 DEF CredTypeOK
<1>7. KeysAgree'
  BY <1>1 DEF KeysAgree
<1>8. CrMemory'
  <2> SUFFICES ASSUME ~bootedAfter, NEW i \in CredIds, credAcked[i] # "unknown"
               PROVE  Answer(credentials', gcm', i) = credAcked[i]
    BY <1>1 DEF CrMemory, Readable, Answer, Decrypts
  <2> QED
    BY <1>1, <1>4 DEF CrMemory, Readable
<1>9. CrDisk' /\ ClosedIsSaved'
  BY <1>1 DEF CrDisk, ClosedIsSaved
<1> QED
  BY <1>6, <1>7, <1>8, <1>9

\* A rotation that fails goes back to the old key.
LEMMA CrRotateFails == CrIInv /\ RotateFails => CrIInv'
<1> SUFFICES ASSUME CrIInv, RotateFails PROVE CrIInv'
  OBVIOUS
<1> USE DEF CrIInv
<1>1. PICK done \in SUBSET {i \in CredIds : Decrypts(credentials[i], gcm)} :
          /\ credentials' = Reencrypt(done, keys')
          /\ credAcked' = [i \in CredIds |-> IF i \in done THEN "unknown" ELSE credAcked[i]]
  BY DEF RotateFails
<1>2. /\ storeUp = "open" /\ rotating = "no" /\ keys < MaxKeys /\ keys' = keys + 1
      /\ UNCHANGED <<expired, gcm, storeFile, keyFile, rotating, storeUp, restarts, interrupted, bootedAfter>>
  BY DEF RotateFails, Idle
<1>3. keys' \in 1..MaxKeys /\ keyFile \in {Missing, Torn} \cup 1..keys' /\ gcm \in 0..keys'
  <2>1. keys \in Nat /\ MaxKeys \in Nat /\ gcm \in Nat /\ gcm <= keys
    BY CrNumbers
  <2> QED
    BY <1>2, <2>1 DEF CredTypeOK
<1>4. credentials' \in [CredIds -> Ciphertexts]
  <2>1. ASSUME NEW i \in CredIds
        PROVE  (IF i \in done THEN [credentials[i] EXCEPT !.key = keys'] ELSE credentials[i]) \in Ciphertexts
    <3>1. credentials[i] \in Ciphertexts /\ (i \in done => credentials[i] # None)
      BY DEF CredTypeOK, Decrypts
    <3> QED
      BY <1>3, <3>1, CipherShape
  <2> QED
    BY <1>1, <2>1 DEF Reencrypt
<1>5. credAcked' \in [CredIds -> Secrets \cup {"none", "unknown"}]
  BY <1>1 DEF CredTypeOK
<1>6. CredTypeOK'
  <2>1. keys' \in 0..MaxKeys
    BY <1>3
  <2> QED
    BY <1>2, <1>3, <1>4, <1>5, <2>1 DEF CredTypeOK
<1>7. \A i \in CredIds : credAcked'[i] # "unknown" => credAcked'[i] = credAcked[i] /\ credentials'[i] = credentials[i]
  BY <1>1 DEF Reencrypt
<1>8. CrMemory'
  <2> SUFFICES ASSUME ~bootedAfter, NEW i \in CredIds, credAcked'[i] # "unknown"
               PROVE  Answer(credentials', gcm, i) = credAcked'[i]
    BY <1>2 DEF CrMemory, Readable, Answer, Decrypts
  <2>1. Answer(credentials', gcm, i) = Answer(credentials, gcm, i)
    BY <1>7, AnswerIs
  <2> QED
    BY <1>2, <1>7, <2>1 DEF CrMemory, Readable
<1>9. CrDisk'
  BY <1>2, <1>7 DEF CrDisk, Readable, Answer, Decrypts
<1>10. KeysAgree' /\ ClosedIsSaved'
  BY <1>2 DEF KeysAgree, ClosedIsSaved
<1> QED
  BY <1>6, <1>8, <1>9, <1>10

\* The key file is written.
LEMMA CrRotateWritesKey == CrIInv /\ RotateWritesKey => CrIInv'
<1> SUFFICES ASSUME CrIInv, RotateWritesKey PROVE CrIInv'
  OBVIOUS
<1> USE DEF CrIInv
<1>1. /\ rotating = "key" /\ storeUp = "open" /\ gcm' = gcm /\ keyFile # Missing
      /\ UNCHANGED <<credentials, expired, storeFile, keys, credAcked, bootedAfter>>
  BY DEF RotateWritesKey, KeyWriteFails, KeysAgree
<1>2. gcm \in 1..keys
  BY <1>1, CrNumbers
<1>3. \/ rotating' = "save" /\ keyFile' = gcm /\ storeUp' = storeUp /\ restarts' = restarts /\ interrupted' = interrupted
      \/ /\ rotating' = "no" /\ interrupted' = TRUE /\ keyFile' \in {keyFile, Torn}
         /\ \/ storeUp' = storeUp /\ restarts' = restarts
            \/ restarts < MaxRestarts /\ restarts' = restarts + 1 /\ storeUp' = "down"
  BY DEF RotateWritesKey, KeyWriteFails
<1>4. keyFile' # Missing /\ keyFile' \in {Missing, Torn} \cup 1..keys
  BY <1>1, <1>2, <1>3, CrNumbers DEF CredTypeOK, Missing, Torn
<1>5. CredTypeOK'
  <2>1. restarts' \in 0..MaxRestarts
    BY <1>3, CredAssumption DEF CredTypeOK
  <2> QED
    BY <1>1, <1>3, <1>4, <2>1 DEF CredTypeOK
<1>6. KeysAgree'
  BY <1>1, <1>3, <1>4 DEF KeysAgree
<1>7. CrMemory'
  BY <1>1, <1>3 DEF CrMemory, Readable, Answer, Decrypts
<1>8. CrDisk' /\ ClosedIsSaved'
  BY <1>1, <1>3 DEF CrDisk, ClosedIsSaved
<1> QED
  BY <1>5, <1>6, <1>7, <1>8

\* The file is written after the key.
LEMMA CrRotateSaves == CrIInv /\ RotateSaves => CrIInv'
<1> SUFFICES ASSUME CrIInv, RotateSaves PROVE CrIInv'
  OBVIOUS
<1> USE DEF CrIInv
<1>1. /\ rotating = "save" /\ rotating' = "no" /\ storeUp = "open" /\ keyFile = gcm /\ keyFile # Missing
      /\ UNCHANGED <<credentials, expired, gcm, keyFile, keys, credAcked, bootedAfter>>
  BY DEF RotateSaves, KeysAgree
<1>2. \/ storeFile' = credentials /\ storeUp' = storeUp /\ restarts' = restarts /\ interrupted' = interrupted
      \/ /\ interrupted' = TRUE /\ storeFile' = storeFile
         /\ \/ storeUp' = storeUp /\ restarts' = restarts
            \/ restarts < MaxRestarts /\ restarts' = restarts + 1 /\ storeUp' = "down"
  BY DEF RotateSaves
<1>3. CredTypeOK'
  <2>1. restarts' \in 0..MaxRestarts
    BY <1>2, CredAssumption DEF CredTypeOK
  <2>2. storeFile' \in [CredIds -> Ciphertexts]
    BY <1>2 DEF CredTypeOK
  <2> QED
    BY <1>1, <1>2, <2>1, <2>2 DEF CredTypeOK
<1>4. KeysAgree'
  BY <1>1, <1>2 DEF KeysAgree
<1>5. CrMemory'
  BY <1>1, <1>2 DEF CrMemory, Readable, Answer, Decrypts
<1>6. CrDisk'
  <2> SUFFICES ASSUME ~interrupted', NEW i \in CredIds, credAcked[i] # "unknown"
               PROVE  Answer(storeFile', keyFile, i) = credAcked[i]
    BY <1>1 DEF CrDisk, Readable, Answer, Decrypts
  <2>1. storeFile' = credentials /\ ~interrupted /\ ~bootedAfter
    BY <1>2 DEF KeysAgree
  <2> QED
    BY <1>1, <2>1 DEF CrMemory, Readable
<1>7. ClosedIsSaved'
  BY <1>1, <1>2 DEF ClosedIsSaved
<1> QED
  BY <1>3, <1>4, <1>5, <1>6, <1>7

\* The other operations, and all together.
LEMMA CrNext == CrIInv /\ [CredNext]_credVars => CrIInv'
<1> SUFFICES ASSUME CrIInv, [CredNext]_credVars PROVE CrIInv'
  OBVIOUS
<1> USE DEF CrIInv
<1>1. CASE NewStoreCrashes
  <2>1. /\ storeUp = "down" /\ keyFile' = Torn /\ credAcked' = Forgotten
        /\ restarts < MaxRestarts /\ restarts' = restarts + 1
        /\ UNCHANGED <<credentials, expired, gcm, storeFile, rotating, storeUp, keys, interrupted, bootedAfter>>
    BY <1>1 DEF NewStoreCrashes
  <2>2. CredTypeOK'
    <3>1. restarts' \in 0..MaxRestarts
      BY <2>1, CredAssumption DEF CredTypeOK
    <3>2. Forgotten \in [CredIds -> Secrets \cup {"none", "unknown"}]
      BY DEF Forgotten
    <3> QED
      BY <2>1, <3>1, <3>2 DEF CredTypeOK
  <2>3. Torn # Missing
    BY DEF Torn, Missing
  <2>4. KeysAgree'
    BY <2>1, <2>3 DEF KeysAgree
  <2>5. ASSUME ~interrupted, NEW i \in CredIds, Forgotten[i] # "unknown"
        PROVE  Answer(storeFile, keyFile', i) = Forgotten[i]
    <3>1. credAcked[i] = "none" /\ Forgotten[i] = "none"
      BY <2>5 DEF Forgotten
    <3>2. storeFile[i] = None
      BY <2>1, <2>5, <3>1, CrForgotten DEF KeysAgree
    <3> QED
      BY <3>1, <3>2, AnswerIs
  <2>6. CrDisk'
    BY <2>1, <2>5 DEF CrDisk, Readable, Answer, Decrypts
  <2> QED
    BY <2>1, <2>2, <2>4, <2>6 DEF CrMemory, ClosedIsSaved
<1>2. CASE StoreStops
  <2>1. /\ storeUp' = "down" /\ rotating = "no" /\ restarts < MaxRestarts /\ restarts' = restarts + 1
        /\ UNCHANGED <<credentials, expired, gcm, storeFile, keyFile, rotating, keys, credAcked, interrupted, bootedAfter>>
    BY <1>2 DEF StoreStops
  <2>2. CredTypeOK'
    <3>1. restarts' \in 0..MaxRestarts
      BY <2>1, CredAssumption DEF CredTypeOK
    <3> QED
      BY <2>1, <3>1 DEF CredTypeOK
  <2>3. KeysAgree' /\ CrMemory' /\ ClosedIsSaved'
    BY <2>1 DEF KeysAgree, CrMemory, ClosedIsSaved
  <2>4. CrDisk'
    BY <2>1 DEF CrDisk, Readable, Answer, Decrypts
  <2> QED
    BY <2>2, <2>3, <2>4
<1>3. CASE CloseStore
  <2>1. /\ storeUp = "open" /\ rotating = "no" /\ storeUp' = "closed" /\ storeFile' = credentials
        /\ UNCHANGED <<credentials, expired, gcm, keyFile, rotating, keys, restarts, credAcked, interrupted, bootedAfter>>
    BY <1>3 DEF CloseStore, Idle
  <2>2. CredTypeOK' /\ KeysAgree' /\ CrMemory' /\ ClosedIsSaved'
    BY <2>1 DEF CredTypeOK, KeysAgree, CrMemory, ClosedIsSaved
  <2>3. ~interrupted => keyFile = gcm /\ ~bootedAfter
    BY <2>1 DEF KeysAgree
  <2>4. CrDisk'
    BY <2>1, <2>3 DEF CrMemory, CrDisk, Readable, Answer, Decrypts
  <2> QED
    BY <2>2, <2>4
<1>4. ASSUME NEW i \in CredIds, NEW v \in Secrets, StoreCredential(i, v)
      PROVE  CrIInv'
  <2> DEFINE c == [key |-> gcm, value |-> v]
  <2>1. /\ Idle /\ credentials' = [credentials EXCEPT ![i] = c]
        /\ expired' \in {expired, expired \ {i}} /\ Saved(credentials', {i}, v)
        /\ UNCHANGED <<gcm, keyFile, rotating, keys, interrupted, bootedAfter>>
    BY <1>4 DEF StoreCredential, encrypt
  <2>2. c \in Ciphertexts /\ c # None /\ c.key = gcm /\ c.value = v
    BY <2>1, CrNumbers, CipherShape DEF Idle
  <2> HIDE DEF c
  <2>3. /\ credentials' \in [CredIds -> Ciphertexts] /\ credentials'[i] = c
        /\ \A j \in CredIds \ {i} : credentials'[j] = credentials[j]
    BY <2>1, <2>2 DEF CredTypeOK
  <2>4. Answer(credentials', gcm, i) = v
    BY <2>2, <2>3, AnswerIs
  <2>5. expired' \subseteq CredIds
    BY <2>1 DEF CredTypeOK
  <2>6. {i} \in SUBSET CredIds /\ v \in Secrets \cup {"none"} /\ \A j \in {i} : Answer(credentials', gcm, j) = v
    BY <2>4
  <2> HIDE DEF CrIInv
  <2> QED
    BY <2>1, <2>3, <2>5, <2>6, CrSaved
<1>5. ASSUME NEW i \in CredIds, DeleteCredential(i)
      PROVE  CrIInv'
  <2>1. /\ Idle /\ credentials' = [credentials EXCEPT ![i] = None]
        /\ expired' = expired \ {i} /\ Saved(credentials', {i}, "none")
        /\ UNCHANGED <<gcm, keyFile, rotating, keys, interrupted, bootedAfter>>
    BY <1>5 DEF DeleteCredential
  <2>2. /\ credentials' \in [CredIds -> Ciphertexts] /\ credentials'[i] = None
        /\ \A j \in CredIds \ {i} : credentials'[j] = credentials[j]
    BY <2>1 DEF CredTypeOK, Ciphertexts
  <2>3. Answer(credentials', gcm, i) = "none"
    BY <2>2, AnswerIs
  <2>4. expired' \subseteq CredIds
    BY <2>1 DEF CredTypeOK
  <2>5. {i} \in SUBSET CredIds /\ "none" \in Secrets \cup {"none"} /\ \A j \in {i} : Answer(credentials', gcm, j) = "none"
    BY <2>3
  <2> HIDE DEF CrIInv
  <2> QED
    BY <2>1, <2>2, <2>4, <2>5, CrSaved
<1>6. CASE CleanupExpired
  <2> DEFINE gone == {i \in expired : credentials[i] # None}
  <2>1. /\ Idle
        /\ credentials' = [i \in CredIds |-> IF i \in gone THEN None ELSE credentials[i]]
        /\ expired' = expired \ gone /\ Saved(credentials', gone, "none")
        /\ UNCHANGED <<gcm, keyFile, rotating, keys, interrupted, bootedAfter>>
    BY <1>6 DEF CleanupExpired
  <2>2. gone \in SUBSET CredIds /\ expired' \subseteq CredIds
    BY <2>1 DEF CredTypeOK
  <2> HIDE DEF gone
  <2>3. /\ credentials' \in [CredIds -> Ciphertexts]
        /\ \A j \in CredIds \ gone : credentials'[j] = credentials[j]
        /\ \A j \in gone : credentials'[j] = None
    BY <2>1, <2>2 DEF CredTypeOK, Ciphertexts
  <2>4. \A i \in gone : Answer(credentials', gcm, i) = "none"
    BY <2>3, AnswerIs
  <2> HIDE DEF CrIInv
  <2> QED
    BY <2>1, <2>2, <2>3, <2>4, CrSaved
<1>7. ASSUME NEW i \in CredIds, Expires(i) PROVE CrIInv'
  <2>1. /\ expired' = expired \cup {i}
        /\ UNCHANGED <<credentials, gcm, storeFile, keyFile, rotating, storeUp, keys, restarts, credAcked, interrupted, bootedAfter>>
    BY <1>7 DEF Expires
  <2>2. CredTypeOK' /\ KeysAgree' /\ ClosedIsSaved'
    BY <2>1 DEF CredTypeOK, KeysAgree, ClosedIsSaved
  <2>3. CrMemory' /\ CrDisk'
    BY <2>1 DEF CrMemory, CrDisk, Readable, Answer, Decrypts
  <2> QED
    BY <2>2, <2>3
<1>8. CASE UNCHANGED credVars
  <2>1. CredTypeOK' /\ KeysAgree' /\ ClosedIsSaved'
    BY <1>8 DEF credVars, CredTypeOK, KeysAgree, ClosedIsSaved
  <2>2. CrMemory' /\ CrDisk'
    BY <1>8 DEF credVars, CrMemory, CrDisk, Readable, Answer, Decrypts
  <2> QED
    BY <2>1, <2>2
<1> HIDE DEF CrIInv
<1> QED
  BY <1>1, <1>2, <1>3, <1>4, <1>5, <1>6, <1>7, <1>8,
     CrNewStore, CrRotateBegins, CrRotateFails, CrRotateWritesKey, CrRotateSaves DEF CredNext

\* The invariant implies what is promised.
LEMMA CrSafe == CrIInv => CredTypeOK /\ MemoryReadable /\ DiskReadable /\ ClosedIsSaved
BY DEF CrIInv, CrMemory, CrDisk, Readable, MemoryReadable, DiskReadable

\* However a rotation ended, the process that ran it opens every acknowledged
\* credential; unless one was cut short between its two files, the files do
\* too (store.go, RotateKey, saveToDisk, Close).
THEOREM CredentialsStayReadable == CredSpec => [](CredTypeOK /\ MemoryReadable /\ DiskReadable /\ ClosedIsSaved)
<1>1. CredSpec => []CrIInv
  BY CrInit, CrNext, PTL DEF CredSpec
<1> QED
  BY <1>1, CrSafe, PTL


-----------------------------------------------------------------------------
(* The skill store and its loader.                                         *)

KeptIn(f) == {i \in SkillIds : f[i] # NoSkill}

\* An acknowledged skill is in memory and on disk, where it is counted.
AckedIsKept == \A i \in SkillIds : ackedSkills[i] # NoSkill => skills[i] # NoSkill /\ stored[i] # NoSkill

\* The inductive invariant of the skills: the finitely many in memory and on
\* disk include those acknowledged.
SkIInv ==
    /\ SkillTypeOK /\ AckedIsKept /\ SkillsWithinLimit /\ SkillFileMatches
    /\ IsFiniteSet(KeptIn(skills)) /\ IsFiniteSet(KeptIn(stored))

\* Nothing is stored at first.
LEMMA SkInit == SkillInit => SkIInv
<1> SUFFICES ASSUME SkillInit PROVE SkIInv
  OBVIOUS
<1>1. \A i \in SkillIds : skills[i] = NoSkill /\ stored[i] = NoSkill /\ ackedSkills[i] = NoSkill
  BY DEF SkillInit
<1>2. KeptIn(skills) = {} /\ KeptIn(stored) = {} /\ {i \in SkillIds : ackedSkills[i] # NoSkill} = {}
  BY <1>1 DEF KeptIn
<1>3. IsFiniteSet(KeptIn(skills)) /\ IsFiniteSet(KeptIn(stored))
  BY <1>2, FS_EmptySet
<1>4. SkillsWithinLimit
  <2>1. Cardinality({i \in SkillIds : ackedSkills[i] # NoSkill}) = 0
    BY <1>2, FS_EmptySet
  <2> QED
    BY <2>1, SkillAssumption DEF SkillsWithinLimit
<1>5. SkillTypeOK
  BY SkillAssumption DEF SkillInit, SkillTypeOK
<1>6. AckedIsKept /\ SkillFileMatches
  BY <1>1 DEF AckedIsKept, SkillFileMatches
<1> QED
  BY <1>3, <1>4, <1>5, <1>6 DEF SkIInv

\* Skills by their fields.
LEMMA SkillShape ==
    /\ NoSkill \notin Skills
    /\ \A s \in Skills : s.loads \in 0..MaxLoads /\ \A f \in {"unset", "source", "stored"} : [s EXCEPT !.file = f] \in Skills
    /\ \A s \in Skills : [s EXCEPT !.state = "unloaded"] \in Skills
    /\ \A s \in Skills : s.loads < MaxLoads => [s EXCEPT !.state = "loaded", !.loads = s.loads + 1] \in Skills
    /\ \A f \in {"unset", "source", "stored"} : [state |-> "unloaded", loads |-> 0, file |-> f] \in Skills
<1>1. MaxLoads \in Nat
  BY SkillAssumption
<1>2. \A s \in Skills : s.loads \in 0..MaxLoads /\ \A f \in {"unset", "source", "stored"} : [s EXCEPT !.file = f] \in Skills
  BY DEF Skills
<1>3. \A s \in Skills : [s EXCEPT !.state = "unloaded"] \in Skills
  BY DEF Skills
<1>4. ASSUME NEW s \in Skills, s.loads < MaxLoads
      PROVE  [s EXCEPT !.state = "loaded", !.loads = s.loads + 1] \in Skills
  <2>1. s.loads + 1 \in 0..MaxLoads
    <3>1. s.loads \in 0..MaxLoads
      BY <1>2
    <3> QED
      BY <1>1, <1>4, <3>1
  <2> QED
    BY <2>1 DEF Skills
<1>5. \A f \in {"unset", "source", "stored"} : [state |-> "unloaded", loads |-> 0, file |-> f] \in Skills
  BY <1>1 DEF Skills
<1>6. NoSkill \notin Skills
  BY DEF NoSkill, Skills
<1> QED
  BY <1>2, <1>3, <1>4, <1>5, <1>6

\* One call of Store, whatever it was called with.
LEMMA SkStore ==
    ASSUME SkIInv, NEW i \in SkillIds, NEW s \in Skills, StoreSkill(i, s),
           reading' \in [Callers -> [id : SkillIds, skill : Skills] \cup {NoRead}]
    PROVE  SkIInv'
<1> USE DEF SkIInv
<1>1. /\ skillOps < MaxSkillOps /\ skillOps' = skillOps + 1 /\ skills' = [skills EXCEPT ![i] = s]
      /\ sources' = sources /\ skillUp' = skillUp /\ leftover' = leftover
  BY DEF StoreSkill
<1>2. \/ /\ doubtful' = doubtful \cup {i} /\ stored' = stored /\ ackedSkills' = ackedSkills
      \/ /\ ~OverLimit(i)
         /\ stored' = [stored EXCEPT ![i] = s]
         /\ ackedSkills' = [ackedSkills EXCEPT ![i] = s] /\ doubtful' = doubtful \ {i}
  BY DEF StoreSkill, SaveSkill
<1>3. s # NoSkill
  BY SkillShape
<1>4. /\ skills \in [SkillIds -> Skills \cup {NoSkill}] /\ stored \in [SkillIds -> Skills \cup {NoSkill}]
      /\ ackedSkills \in [SkillIds -> Skills \cup {NoSkill}]
  BY DEF SkillTypeOK
<1>5. skills'[i] = s /\ \A j \in SkillIds \ {i} : skills'[j] = skills[j]
  BY <1>1, <1>4
<1>6. SkillTypeOK'
  <2>1. skillOps' \in 0..MaxSkillOps
    BY <1>1, SkillAssumption DEF SkillTypeOK
  <2>2. skills' \in [SkillIds -> Skills \cup {NoSkill}]
    BY <1>1, <1>4
  <2>3. stored' \in [SkillIds -> Skills \cup {NoSkill}] /\ ackedSkills' \in [SkillIds -> Skills \cup {NoSkill}]
    BY <1>2, <1>4
  <2>4. doubtful' \subseteq SkillIds
    BY <1>2 DEF SkillTypeOK
  <2> QED
    BY <1>1, <2>1, <2>2, <2>3, <2>4 DEF SkillTypeOK
<1>7. IsFiniteSet(KeptIn(skills)')
  <2>1. KeptIn(skills)' = KeptIn(skills) \cup {i}
    BY <1>3, <1>5 DEF KeptIn
  <2> QED
    BY <2>1, FS_AddElement
<1>8. ASSUME doubtful' = doubtful \cup {i}, stored' = stored, ackedSkills' = ackedSkills
      PROVE  SkIInv'
  <2>1. AckedIsKept' /\ SkillFileMatches' /\ SkillsWithinLimit'
    BY <1>1, <1>3, <1>5, <1>8 DEF AckedIsKept, SkillFileMatches, SkillsWithinLimit
  <2>2. KeptIn(stored)' = KeptIn(stored)
    BY <1>8 DEF KeptIn
  <2> QED
    BY <1>6, <1>7, <2>1, <2>2
<1>9. ASSUME ~OverLimit(i), stored' = [stored EXCEPT ![i] = s],
             ackedSkills' = [ackedSkills EXCEPT ![i] = s], doubtful' = doubtful \ {i}
      PROVE  SkIInv'
  <2>1. /\ stored'[i] = s /\ ackedSkills'[i] = s
        /\ \A j \in SkillIds \ {i} : stored'[j] = stored[j] /\ ackedSkills'[j] = ackedSkills[j]
    BY <1>4, <1>9
  <2>2. AckedIsKept' /\ SkillFileMatches'
    BY <1>1, <1>3, <1>5, <1>9, <2>1 DEF AckedIsKept, SkillFileMatches
  <2>3. IsFiniteSet(KeptIn(stored)')
    <3>1. KeptIn(stored)' = KeptIn(stored) \cup {i}
      BY <1>3, <2>1 DEF KeptIn
    <3> QED
      BY <3>1, FS_AddElement
  <2>4. SkillsWithinLimit'
    <3> SUFFICES ASSUME MaxSkillsPerOwner > 0
                 PROVE  Cardinality(KeptIn(ackedSkills)') <= MaxSkillsPerOwner
      BY DEF SkillsWithinLimit, KeptIn
    <3>1. KeptIn(ackedSkills)' \subseteq Others(i) \cup {i}
      BY <2>1 DEF KeptIn, Others, AckedIsKept
    <3>2. Others(i) \subseteq KeptIn(skills) /\ i \notin Others(i)
      BY DEF Others, KeptIn
    <3>3. IsFiniteSet(Others(i)) /\ Cardinality(Others(i)) \in Nat
      BY <3>2, FS_Subset, FS_CardinalityType
    <3>4. IsFiniteSet(Others(i) \cup {i}) /\ Cardinality(Others(i) \cup {i}) = Cardinality(Others(i)) + 1
      BY <3>2, <3>3, FS_AddElement
    <3>5. /\ IsFiniteSet(KeptIn(ackedSkills)')
          /\ Cardinality(KeptIn(ackedSkills)') <= Cardinality(Others(i) \cup {i})
      BY <3>1, <3>4, FS_Subset
    <3>6. Cardinality(KeptIn(ackedSkills)') \in Nat
      BY <3>5, FS_CardinalityType
    <3>7. Cardinality(Others(i)) < MaxSkillsPerOwner /\ MaxSkillsPerOwner \in Nat
      BY <1>9, <3>3, SkillAssumption DEF OverLimit
    <3> QED
      BY <3>3, <3>4, <3>5, <3>6, <3>7
  <2> QED
    BY <1>6, <1>7, <2>2, <2>3, <2>4
<1> QED
  BY <1>2, <1>8, <1>9

\* Fewer acknowledged skills are within the limit too.
LEMMA FewerAcked ==
    ASSUME SkIInv, NEW f, KeptIn(f) \subseteq KeptIn(ackedSkills)
    PROVE  MaxSkillsPerOwner > 0 => Cardinality(KeptIn(f)) <= MaxSkillsPerOwner
<1> SUFFICES ASSUME MaxSkillsPerOwner > 0 PROVE Cardinality(KeptIn(f)) <= MaxSkillsPerOwner
  OBVIOUS
<1>1. KeptIn(ackedSkills) \subseteq KeptIn(skills) /\ IsFiniteSet(KeptIn(skills))
  BY DEF SkIInv, AckedIsKept, KeptIn
<1>2. IsFiniteSet(KeptIn(ackedSkills))
  BY <1>1, FS_Subset
<1>3. IsFiniteSet(KeptIn(f)) /\ Cardinality(KeptIn(f)) <= Cardinality(KeptIn(ackedSkills))
  BY <1>2, FS_Subset
<1>4. Cardinality(KeptIn(f)) \in Nat /\ Cardinality(KeptIn(ackedSkills)) \in Nat
  BY <1>2, <1>3, FS_CardinalityType
<1>5. Cardinality(KeptIn(ackedSkills)) <= MaxSkillsPerOwner
  BY DEF SkIInv, SkillsWithinLimit, KeptIn
<1> QED
  BY <1>3, <1>4, <1>5, SkillAssumption

\* A skill is deleted, or its deletion fails.
LEMMA SkDelete == ASSUME SkIInv, NEW i \in SkillIds, DeleteSkill(i) PROVE SkIInv'
<1> USE DEF SkIInv
<1>1. /\ skills' = [skills EXCEPT ![i] = NoSkill] /\ ackedSkills' = [ackedSkills EXCEPT ![i] = NoSkill]
      /\ doubtful' = doubtful \ {i} /\ reading' = reading /\ skillUp' = skillUp /\ skillOps' = skillOps
  BY DEF DeleteSkill
<1>2. \/ sources' = sources \ {i} /\ leftover' = leftover \cup {i} /\ stored' = stored
      \/ stored' = [stored EXCEPT ![i] = NoSkill] /\ leftover' = leftover \ {i} /\ sources' = sources
  BY DEF DeleteSkill
<1>3. /\ skills \in [SkillIds -> Skills \cup {NoSkill}] /\ stored \in [SkillIds -> Skills \cup {NoSkill}]
      /\ ackedSkills \in [SkillIds -> Skills \cup {NoSkill}]
  BY DEF SkillTypeOK
<1>4. /\ skills'[i] = NoSkill /\ ackedSkills'[i] = NoSkill
      /\ \A j \in SkillIds \ {i} : skills'[j] = skills[j] /\ ackedSkills'[j] = ackedSkills[j] /\ stored'[j] = stored[j]
      /\ stored'[i] = stored[i] \/ stored'[i] = NoSkill
  BY <1>1, <1>2, <1>3
<1>5. SkillTypeOK'
  <2>1. skills' \in [SkillIds -> Skills \cup {NoSkill}] /\ ackedSkills' \in [SkillIds -> Skills \cup {NoSkill}]
    BY <1>1, <1>3
  <2>2. stored' \in [SkillIds -> Skills \cup {NoSkill}]
    BY <1>2, <1>3
  <2>3. sources' \subseteq SkillIds /\ leftover' \subseteq SkillIds
    BY <1>2 DEF SkillTypeOK
  <2> QED
    BY <1>1, <2>1, <2>2, <2>3 DEF SkillTypeOK
<1>6. AckedIsKept'
  BY <1>4 DEF AckedIsKept
<1>7. SkillFileMatches'
  <2>1. CASE leftover' = leftover \cup {i}
    BY <1>1, <1>4, <2>1 DEF SkillFileMatches
  <2>2. CASE stored' = [stored EXCEPT ![i] = NoSkill] /\ leftover' = leftover \ {i}
    <3>1. stored'[i] = NoSkill
      BY <1>3, <2>2
    <3> QED
      BY <1>1, <1>4, <2>2, <3>1 DEF SkillFileMatches
  <2> QED
    BY <1>2, <2>1, <2>2
<1>8. IsFiniteSet(KeptIn(skills)') /\ IsFiniteSet(KeptIn(stored)')
  <2>1. KeptIn(skills)' \subseteq KeptIn(skills) /\ KeptIn(stored)' \subseteq KeptIn(stored)
    BY <1>4 DEF KeptIn
  <2> QED
    BY <2>1, FS_Subset
<1>9. SkillsWithinLimit'
  <2>1. KeptIn(ackedSkills') \subseteq KeptIn(ackedSkills)
    BY <1>4 DEF KeptIn
  <2>2. MaxSkillsPerOwner > 0 => Cardinality(KeptIn(ackedSkills')) <= MaxSkillsPerOwner
    BY <2>1, FewerAcked
  <2> QED
    BY <2>2 DEF SkillsWithinLimit, KeptIn
<1> QED
  BY <1>5, <1>6, <1>7, <1>8, <1>9

\* The other operations, and all together.
LEMMA SkNext == SkIInv /\ [SkillNext]_skillVars => SkIInv'
<1> SUFFICES ASSUME SkIInv, [SkillNext]_skillVars PROVE SkIInv'
  OBVIOUS
<1>t. SkillTypeOK
  BY DEF SkIInv
<1>1. ASSUME NEW i \in SkillIds, StoreNew(i) \/ LoadSkill(i) PROVE SkIInv'
  <2>1. /\ \E f \in {"unset", "source", "stored"} : StoreSkill(i, [state |-> "unloaded", loads |-> 0, file |-> f])
        /\ reading' = reading
    BY <1>1 DEF StoreNew, LoadSkill
  <2>2. reading' \in [Callers -> [id : SkillIds, skill : Skills] \cup {NoRead}]
    BY <1>t, <2>1 DEF SkillTypeOK
  <2> QED
    BY <2>1, <2>2, SkillShape, SkStore
<1>2. ASSUME NEW i \in SkillIds, DeleteSkill(i) PROVE SkIInv'
  BY <1>2, SkDelete
<1>3. ASSUME NEW c \in Callers, LoaderStores(c) PROVE SkIInv'
  <2> DEFINE r == reading[c]
  <2>1. r \in [id : SkillIds, skill : Skills]
    BY <1>3, <1>t DEF LoaderStores, SkillTypeOK
  <2>2. /\ \/ r.skill.loads < MaxLoads /\ StoreSkill(r.id, [r.skill EXCEPT !.state = "loaded", !.loads = r.skill.loads + 1])
           \/ StoreSkill(r.id, [r.skill EXCEPT !.state = "unloaded"])
        /\ reading' = [reading EXCEPT ![c] = NoRead]
    BY <1>3 DEF LoaderStores
  <2>3. reading' \in [Callers -> [id : SkillIds, skill : Skills] \cup {NoRead}]
    BY <1>t, <2>2 DEF SkillTypeOK
  <2>4. r.id \in SkillIds /\ r.skill \in Skills
    BY <2>1
  <2> HIDE DEF r
  <2>5. CASE r.skill.loads < MaxLoads /\ StoreSkill(r.id, [r.skill EXCEPT !.state = "loaded", !.loads = r.skill.loads + 1])
    <3>1. [r.skill EXCEPT !.state = "loaded", !.loads = r.skill.loads + 1] \in Skills
      BY <2>4, <2>5, SkillShape
    <3> QED
      BY <2>3, <2>4, <2>5, <3>1, SkStore
  <2>6. CASE StoreSkill(r.id, [r.skill EXCEPT !.state = "unloaded"])
    <3>1. [r.skill EXCEPT !.state = "unloaded"] \in Skills
      BY <2>4, SkillShape
    <3> QED
      BY <2>3, <2>4, <2>6, <3>1, SkStore
  <2> QED
    BY <2>2, <2>5, <2>6
<1>4. ASSUME NEW c \in Callers, NEW i \in SkillIds, LoaderReads(c, i) PROVE SkIInv'
  <2>1. /\ skills[i] # NoSkill /\ reading' = [reading EXCEPT ![c] = [id |-> i, skill |-> skills[i]]]
        /\ UNCHANGED <<skills, stored, sources, skillUp, skillOps, ackedSkills, doubtful, leftover>>
    BY <1>4 DEF LoaderReads
  <2>2. [id |-> i, skill |-> skills[i]] \in [id : SkillIds, skill : Skills]
    BY <1>t, <2>1 DEF SkillTypeOK
  <2>3. reading' \in [Callers -> [id : SkillIds, skill : Skills] \cup {NoRead}]
    BY <1>t, <2>1, <2>2 DEF SkillTypeOK
  <2> QED
    BY <2>1, <2>3 DEF SkIInv, SkillTypeOK, AckedIsKept, SkillsWithinLimit, SkillFileMatches, KeptIn
<1>5. CASE CloseSkills
  BY <1>5 DEF CloseSkills, SkIInv, SkillTypeOK, AckedIsKept, SkillsWithinLimit, SkillFileMatches, KeptIn
<1>6. CASE NewSkillStore
  <2>1. /\ skillOps < MaxSkillOps /\ skillOps' = skillOps + 1 /\ skillUp' = "open"
        /\ skills' = [i \in SkillIds |-> Reload(stored[i])] /\ reading' = [c \in Callers |-> NoRead]
        /\ UNCHANGED <<stored, sources, ackedSkills, doubtful, leftover>>
    BY <1>6 DEF NewSkillStore
  <2>2. \A i \in SkillIds : /\ Reload(stored[i]) \in Skills \cup {NoSkill}
                            /\ Reload(stored[i]) = NoSkill <=> stored[i] = NoSkill
    <3> SUFFICES ASSUME NEW i \in SkillIds
                 PROVE  /\ Reload(stored[i]) \in Skills \cup {NoSkill}
                        /\ Reload(stored[i]) = NoSkill <=> stored[i] = NoSkill
      OBVIOUS
    <3>1. stored[i] \in Skills \/ stored[i] = NoSkill
      BY <1>t DEF SkillTypeOK
    <3>2. CASE stored[i] = NoSkill
      BY <3>2 DEF Reload
    <3>3. CASE stored[i] \in Skills
      <4>1. stored[i] # NoSkill /\ [stored[i] EXCEPT !.file = "stored"] \in Skills
        BY <3>3, SkillShape
      <4>2. Reload(stored[i]) = [stored[i] EXCEPT !.file = "stored"]
        BY <4>1 DEF Reload
      <4> QED
        BY <4>1, <4>2, SkillShape
    <3> QED
      BY <3>1, <3>2, <3>3
  <2>3. SkillTypeOK'
    <3>1. skills' \in [SkillIds -> Skills \cup {NoSkill}]
      BY <2>1, <2>2
    <3>2. reading' \in [Callers -> [id : SkillIds, skill : Skills] \cup {NoRead}]
      BY <2>1
    <3>3. skillOps' \in 0..MaxSkillOps
      BY <1>t, <2>1, SkillAssumption DEF SkillTypeOK
    <3> QED
      BY <1>t, <2>1, <3>1, <3>2, <3>3 DEF SkillTypeOK
  <2>4. \A i \in SkillIds : skills'[i] = NoSkill <=> stored[i] = NoSkill
    BY <2>1, <2>2
  <2>5. KeptIn(skills)' = KeptIn(stored) /\ KeptIn(stored)' = KeptIn(stored)
    BY <2>1, <2>4 DEF KeptIn
  <2>6. AckedIsKept'
    BY <2>1, <2>4 DEF SkIInv, AckedIsKept
  <2> QED
    BY <2>1, <2>3, <2>5, <2>6 DEF SkIInv, SkillsWithinLimit, SkillFileMatches
<1>7. CASE UNCHANGED skillVars
  BY <1>7 DEF skillVars, SkIInv, SkillTypeOK, AckedIsKept, SkillsWithinLimit, SkillFileMatches, KeptIn
<1> QED
  BY <1>1, <1>2, <1>3, <1>4, <1>5, <1>6, <1>7 DEF SkillNext

\* However loader calls overlap, the acknowledged skills are within the limit
\* and their files are what was stored last (pkg/skills, saveToDisk).
LEMMA SkillsStaySafe == SkillSpec => [](SkillTypeOK /\ SkillsWithinLimit /\ SkillFileMatches)
<1>1. SkillSpec => []SkIInv
  BY SkInit, SkNext, PTL DEF SkillSpec
<1>2. SkIInv => SkillTypeOK /\ SkillsWithinLimit /\ SkillFileMatches
  BY DEF SkIInv
<1> QED
  BY <1>1, <1>2, PTL
-----------------------------------------------------------------------------
(* The memory store and its organizer.                                     *)

MemFileSet == [mem : Memories, dir : MemTopics \cup {Owner}, tmp : BOOLEAN]

MmTypes ==
    /\ memories \subseteq Memories /\ memFiles \subseteq MemFileSet /\ dirs \subseteq MemTopics
    /\ memUp \in {"open", "closed", "down"}
    /\ stores \in 0..MaxStores /\ reboots \in 0..MaxReboots
    /\ promised \subseteq Memories /\ unsure \subseteq MemIds /\ scattered \subseteq MemIds

\* One memory per identifier, one file per name, and every file in a directory.
MmOne ==
    /\ \A m, n \in memories : m.id = n.id => m = n
    /\ \A m, n \in promised : m.id = n.id => m = n
    /\ \A f, g \in memFiles : SameName(f, g) => f = g
    /\ \A f \in memFiles : f.dir = Owner \/ f.dir \in dirs

\* The file in the owner's directory is newer than those that were moved from there.
MmNewest ==
    \A n \in promised, f \in memFiles :
        n.id \notin unsure /\ SameName(f, FileOf(n, Owner, FALSE)) => f.mem = n

\* What the organizer and Delete found is still so when they act, or the memory
\* counts as scattered.
MmLocks ==
    /\ organizing = {} \/ \E m \in Memories : organizing = {m}
    /\ \A m \in organizing : topicDir(m) \in dirs
    /\ deleting = {} \/ \E m \in memories, d \in MemTopics \cup {Owner} : deleting = {<<m, d>>}
    /\ \A md \in deleting : \A f \in memFiles :
           f.mem.id = md[1].id /\ f.mem.id \notin scattered => f.dir = md[2]
    /\ memUp = "down" => organizing = {} /\ deleting = {}

\* A memory that is not scattered has one file, where the store looks for it.
MmTidy ==
    \A f \in memFiles : f.mem.id \notin scattered =>
        /\ ~f.tmp /\ f.dir \in {Owner, f.mem.topic}
        /\ \A g \in memFiles : g.mem.id = f.mem.id => g = f
        /\ \A n \in memories : n.id = f.mem.id => n.title = f.mem.title /\ f.dir \in {Owner, n.topic}

MmClean(i) == i \notin scattered /\ i \notin unsure /\ \A md \in deleting : md[1].id # i

MmRemembers == memUp = "open" => \A m \in Memories : MmClean(m.id) => (m \in memories <=> m \in promised)

\* The inductive invariant of the memories.
MmIInv ==
    /\ MmTypes /\ MmOne /\ MmNewest /\ MmLocks /\ MmTidy
    /\ AcknowledgedOnDisk /\ DeletedLeavesNoFile /\ MmRemembers

\* Memories and files by their fields.
LEMMA MemShape ==
    /\ \A m \in Memories : /\ m.id \in MemIds /\ m.title \in Titles /\ m.topic \in MemTopics \cup {NoTopic}
                            /\ topicDir(m) \in MemTopics
    /\ \A m \in Memories, d \in MemTopics \cup {Owner}, t \in BOOLEAN :
           LET f == FileOf(m, d, t) IN f \in MemFileSet /\ f.mem = m /\ f.dir = d /\ f.tmp = t
    /\ \A f \in MemFileSet : /\ f.mem \in Memories /\ f.dir \in MemTopics \cup {Owner} /\ f.tmp \in BOOLEAN
                             /\ f = FileOf(f.mem, f.dir, f.tmp)
                             /\ \A d : [f EXCEPT !.dir = d] = FileOf(f.mem, d, f.tmp)
BY MemAssumption DEF Memories, MemFileSet, FileOf, topicDir

\* The name of a file.
LEMMA NameIs ==
    \A f, m, d, t : SameName(f, FileOf(m, d, t)) <=> f.mem.id = m.id /\ f.mem.title = m.title /\ f.dir = d /\ f.tmp = t
BY DEF SameName, FileOf

\* Files of one name are equal when they hold the same.
LEMMA NameAndMem ==
    \A f, g \in MemFileSet : SameName(f, g) /\ f.mem = g.mem => f = g
BY MemShape DEF SameName

\* Nothing is stored at first.
LEMMA MmInit == MemInit => MmIInv
<1> SUFFICES ASSUME MemInit PROVE MmIInv
  OBVIOUS
<1>1. MmTypes
  BY MemAssumption DEF MemInit, MmTypes
<1> QED
  BY <1>1 DEF MemInit, MmIInv, MmOne, MmNewest, MmLocks, MmTidy, AcknowledgedOnDisk, DeletedLeavesNoFile, MmRemembers

\* A call of Store.
LEMMA MmStore == ASSUME MmIInv, NEW m \in Memories, StoreMemory(m) PROVE MmIInv'
<1> USE DEF MmIInv
<1> DEFINE i == m.id
           old(t) == {f \in memFiles : SameName(f, FileOf(m, Owner, t))}
<1>1. /\ memUp = "open" /\ deleting = {} /\ stores < MaxStores /\ stores' = stores + 1
      /\ memories' = {n \in memories : n.id # i} \cup {m} /\ dirs' = dirs /\ reboots' = reboots
      /\ scattered' = scattered \cup {f.mem.id : f \in {g \in memFiles' : g.mem.id = i /\ ~SameName(g, FileOf(m, Owner, FALSE))}}
      /\ Saves(m) \/ SaveFails(m)
  BY DEF StoreMemory, Unlocked
<1>2. /\ deleting' = {}
      /\ \/ memUp' = "open" /\ organizing' = organizing
         \/ memUp' = "down" /\ organizing' = {}
  BY <1>1 DEF Saves, SaveFails, NoCrash, MemDown
<1>3. \/ /\ promised' = {n \in promised : n.id # i} \cup {m} /\ unsure' = unsure \ {i}
         /\ FileOf(m, Owner, FALSE) \in memFiles'
      \/ promised' = promised /\ unsure' = unsure \cup {i}
  <2>1. ASSUME Saves(m) PROVE FileOf(m, Owner, FALSE) \in memFiles'
    <3>1. ~SameName(FileOf(m, Owner, FALSE), FileOf(m, Owner, TRUE))
      <4>1. FileOf(m, Owner, FALSE).tmp = FALSE
        BY DEF FileOf
      <4> QED
        BY <4>1, NameIs
    <3> QED
      BY <2>1, <3>1 DEF Saves, WriteMemory
  <2> QED
    BY <1>1, <2>1 DEF Saves, SaveFails, Promise
<1>4. \A f \in memFiles' : f \in memFiles \/ f = FileOf(m, Owner, FALSE) \/ f = FileOf(m, Owner, TRUE)
  BY <1>1 DEF Saves, SaveFails, WriteMemory
<1>5. \A f \in memFiles : f.mem.id # i => f \in memFiles'
  BY <1>1, NameIs DEF Saves, SaveFails, WriteMemory
<1>6. \A f, g \in memFiles' : SameName(f, g) => f = g
  <2>1. \A t \in BOOLEAN : \A f, g \in WriteMemory(m, Owner, t) : SameName(f, g) => f = g
    <3> SUFFICES ASSUME NEW t \in BOOLEAN, NEW f \in WriteMemory(m, Owner, t), NEW g \in WriteMemory(m, Owner, t),
                        SameName(f, g)
                 PROVE  f = g
      OBVIOUS
    <3>1. SameName(FileOf(m, Owner, t), FileOf(m, Owner, t)) /\ SameName(g, f)
      BY DEF SameName
    <3> QED
      BY <3>1 DEF WriteMemory, MmOne
  <2>2. memFiles' \subseteq memFiles \/ \E t \in BOOLEAN : memFiles' \subseteq WriteMemory(m, Owner, t)
    BY <1>1 DEF Saves, SaveFails
  <2> QED
    BY <2>1, <2>2 DEF MmOne
<1>7. m.id \in MemIds
  BY MemShape
<1>8. /\ \A t \in BOOLEAN : LET f == FileOf(m, Owner, t) IN f \in MemFileSet /\ f.mem = m /\ f.dir = Owner /\ f.tmp = t
      /\ MaxStores \in Nat /\ Owner \notin MemTopics
  BY MemShape, MemAssumption
<1>9. /\ \A f \in memFiles' : f.mem.id \notin scattered' /\ f.mem.id = i => SameName(f, FileOf(m, Owner, FALSE))
      /\ \A j : j \notin scattered' => j \notin scattered
      /\ \A j \in scattered' : j \in scattered \/ j = i
  BY <1>1
<1>10. memFiles' \subseteq MemFileSet
  BY <1>4, <1>8 DEF MmTypes
<1>11. MmTypes'
  <2>1. stores' \in 0..MaxStores
    BY <1>1, <1>8 DEF MmTypes
  <2>2. unsure' \subseteq MemIds /\ promised' \subseteq Memories
    BY <1>3, <1>7 DEF MmTypes
  <2>3. scattered' \subseteq MemIds
    BY <1>7, <1>9 DEF MmTypes
  <2> QED
    BY <1>1, <1>2, <1>10, <2>1, <2>2, <2>3 DEF MmTypes
<1>12. MmOne'
  <2>1. \A n, k \in memories' : n.id = k.id => n = k
    BY <1>1 DEF MmOne
  <2>2. \A n, k \in promised' : n.id = k.id => n = k
    BY <1>3 DEF MmOne
  <2>3. \A f \in memFiles' : f.dir = Owner \/ f.dir \in dirs'
    BY <1>1, <1>4, <1>8 DEF MmOne
  <2> QED
    BY <1>6, <2>1, <2>2, <2>3 DEF MmOne
<1>13. MmLocks'
  <2>1. \A n \in organizing' : n \in organizing /\ n \in Memories
    BY <1>2 DEF MmLocks
  <2>3. \A n \in organizing' : topicDir(n) \in dirs'
    BY <1>1, <2>1 DEF MmLocks
  <2>4. organizing' = {} \/ \E n \in Memories : organizing' = {n}
    BY <1>2 DEF MmLocks
  <2> QED
    BY <1>2, <2>3, <2>4 DEF MmLocks
<1>18. MmNewest'
  <2> SUFFICES ASSUME NEW n \in promised', NEW f \in memFiles', n.id \notin unsure',
                      SameName(f, FileOf(n, Owner, FALSE))
               PROVE  f.mem = n
    BY DEF MmNewest
  <2>1. f.mem.id = n.id /\ f.mem.title = n.title /\ f.dir = Owner /\ f.tmp = FALSE
    BY NameIs
  <2>2. CASE n.id = i
    <3>1. n = m /\ FileOf(m, Owner, FALSE) \in memFiles'
      BY <1>3, <2>2
    <3>2. SameName(f, FileOf(m, Owner, FALSE))
      BY <3>1
    <3> QED
      BY <1>6, <1>8, <3>1, <3>2
  <2>3. CASE n.id # i
    <3>1. n \in promised /\ n.id \notin unsure
      BY <1>3, <2>3
    <3>2. f \in memFiles
      BY <1>4, <1>8, <2>1, <2>3
    <3> QED
      BY <3>1, <3>2 DEF MmNewest
  <2> QED
    BY <2>2, <2>3
<1>14. MmTidy'
  <2> SUFFICES ASSUME NEW f \in memFiles', f.mem.id \notin scattered'
               PROVE  /\ ~f.tmp /\ f.dir \in {Owner, f.mem.topic}
                      /\ \A g \in memFiles' : g.mem.id = f.mem.id => g = f
                      /\ \A n \in memories' : n.id = f.mem.id => n.title = f.mem.title /\ f.dir \in {Owner, n.topic}
    BY DEF MmTidy
  <2>1. CASE f.mem.id = i
    <3>1. \A g \in memFiles' : g.mem.id = i => g.mem.title = m.title /\ g.dir = Owner /\ g.tmp = FALSE
      <4> SUFFICES ASSUME NEW g \in memFiles', g.mem.id = i
                   PROVE  g.mem.title = m.title /\ g.dir = Owner /\ g.tmp = FALSE
        OBVIOUS
      <4>1. g.mem.id \notin scattered'
        BY <2>1
      <4>2. SameName(g, FileOf(m, Owner, FALSE))
        BY <1>9, <4>1
      <4> QED
        BY <4>2, NameIs
    <3>2. \A g \in memFiles' : g.mem.id = i => SameName(g, f)
      BY <2>1, <3>1 DEF SameName
    <3>3. \A n \in memories' : n.id = i => n = m
      BY <1>1
    <3> QED
      BY <1>6, <2>1, <3>1, <3>2, <3>3
  <2>2. CASE f.mem.id # i
    <3>1. f \in memFiles /\ f.mem.id \notin scattered
      BY <1>4, <1>8, <1>9, <2>2
    <3>2. \A g \in memFiles' : g.mem.id = f.mem.id => g \in memFiles
      BY <1>4, <1>8, <2>2
    <3>3. \A n \in memories' : n.id = f.mem.id => n \in memories
      BY <1>1, <2>2
    <3> QED
      BY <3>1, <3>2, <3>3 DEF MmTidy
  <2> QED
    BY <2>1, <2>2
<1>15. AcknowledgedOnDisk'
  <2> SUFFICES ASSUME NEW n \in promised', n.id \notin unsure' PROVE \E f \in memFiles' : f.mem = n
    BY DEF AcknowledgedOnDisk
  <2>1. CASE n.id = i
    <3>1. n = m /\ FileOf(m, Owner, FALSE) \in memFiles'
      BY <1>3, <2>1
    <3> QED
      BY <1>8, <3>1
  <2>2. CASE n.id # i
    <3>1. n \in promised /\ n.id \notin unsure
      BY <1>3, <2>2
    <3> QED
      BY <1>5, <2>2, <3>1 DEF AcknowledgedOnDisk
  <2> QED
    BY <2>1, <2>2
<1>16. DeletedLeavesNoFile'
  <2> SUFFICES ASSUME NEW f \in memFiles', f.mem.id \notin scattered', f.mem.id \notin unsure'
               PROVE  \E n \in promised' : n.id = f.mem.id
    BY DEF DeletedLeavesNoFile
  <2>1. CASE f.mem.id = i
    BY <1>3, <2>1
  <2>2. CASE f.mem.id # i
    <3>1. f \in memFiles /\ f.mem.id \notin scattered /\ f.mem.id \notin unsure
      BY <1>3, <1>4, <1>8, <1>9, <2>2
    <3>2. PICK n \in promised : n.id = f.mem.id
      BY <3>1 DEF DeletedLeavesNoFile
    <3> QED
      BY <1>3, <2>2, <3>2
  <2> QED
    BY <2>1, <2>2
<1>17. MmRemembers'
  <2> SUFFICES ASSUME memUp' = "open", NEW n \in Memories, n.id \notin scattered', n.id \notin unsure'
               PROVE  n \in memories' <=> n \in promised'
    BY DEF MmRemembers, MmClean
  <2>1. CASE n.id = i
    <3>1. promised' = {k \in promised : k.id # i} \cup {m}
      BY <1>3, <2>1
    <3> QED
      BY <1>1, <2>1, <3>1
  <2>2. CASE n.id # i
    <3>1. MmClean(n.id)
      BY <1>1, <1>3, <1>9, <2>2 DEF MmClean
    <3>2. n \in memories <=> n \in promised
      BY <1>1, <3>1 DEF MmRemembers
    <3>3. n \in memories' <=> n \in memories
      BY <1>1, <2>2
    <3>4. n \in promised' <=> n \in promised
      BY <1>3, <2>2
    <3> QED
      BY <3>2, <3>3, <3>4
  <2> QED
    BY <2>1, <2>2
<1> QED
  BY <1>11, <1>12, <1>13, <1>14, <1>15, <1>16, <1>17, <1>18

\* Delete finds the file it is going to remove.
LEMMA MmDeleteBegins == ASSUME MmIInv, NEW m \in memories, DeleteBegins(m) PROVE MmIInv'
<1> USE DEF MmIInv
<1> DEFINE d == getFilePath(m)
<1>1. /\ memUp = "open" /\ deleting = {} /\ deleting' = {<<m, d>>}
      /\ UNCHANGED <<memories, memFiles, dirs, memUp, organizing, stores, reboots, promised, unsure, scattered>>
  BY DEF DeleteBegins, Unlocked
<1>2. m \in Memories /\ m.topic \in MemTopics \cup {NoTopic} /\ Owner \notin MemTopics /\ NoTopic \notin MemTopics \cup {Owner}
  BY MemShape, MemAssumption DEF MmTypes
<1>3. d \in MemTopics \cup {Owner}
  BY <1>2 DEF getFilePath
<1>4. ASSUME NEW f \in memFiles, f.mem.id = m.id, f.mem.id \notin scattered
      PROVE  f.dir = d
  <2>1. /\ ~f.tmp /\ f.mem.title = m.title /\ f.dir \in {Owner, m.topic}
        /\ \A g \in memFiles : g.mem.id = f.mem.id => g = f
    BY <1>4 DEF MmTidy
  <2>2. f.tmp = FALSE
    BY <2>1, MemShape DEF MmTypes
  <2>3. CASE f.dir = m.topic
    <3>2. m.topic # NoTopic
      BY <1>2, <2>3, MemShape DEF MmTypes
    <3>1. SameName(f, FileOf(m, m.topic, FALSE))
      BY <1>4, <2>1, <2>2, <2>3, NameIs
    <3> QED
      BY <2>3, <3>1, <3>2 DEF getFilePath
  <2>4. CASE f.dir = Owner
    <3>1. ASSUME NEW g \in memFiles, SameName(g, FileOf(m, m.topic, FALSE)) PROVE FALSE
      <4>1. g.mem.id = m.id /\ g.dir = m.topic
        BY <3>1, NameIs
      <4> QED
        BY <1>2, <1>4, <2>1, <2>4, <4>1
    <3> QED
      BY <2>4, <3>1 DEF getFilePath
  <2> QED
    BY <2>1, <2>3, <2>4
<1> HIDE DEF d
<1>5. \A md \in deleting' : md = <<m, d>> /\ md[1] = m /\ md[2] = d
  BY <1>1
<1>6. MmLocks'
  BY <1>1, <1>3, <1>4, <1>5 DEF MmLocks
<1>7. MmTypes' /\ MmOne' /\ MmNewest' /\ MmTidy' /\ AcknowledgedOnDisk' /\ DeletedLeavesNoFile'
  BY <1>1 DEF MmTypes, MmOne, MmNewest, MmTidy, AcknowledgedOnDisk, DeletedLeavesNoFile
<1>8. \A i : MmClean(i)' => MmClean(i)
  BY <1>1 DEF MmClean
<1>9. MmRemembers'
  BY <1>1, <1>8 DEF MmRemembers
<1> QED
  BY <1>6, <1>7, <1>9

\* Delete removes it.
LEMMA MmDeleteEnds == ASSUME MmIInv, DeleteEnds PROVE MmIInv'
<1> USE DEF MmIInv
<1>1. PICK m \in memories, d \in MemTopics \cup {Owner} : deleting = {<<m, d>>}
  BY DEF DeleteEnds, MmLocks
<1>2. <<m, d>>[1] = m /\ <<m, d>>[2] = d
  OBVIOUS
<1>3. /\ deleting' = {}
      /\ memFiles' = {f \in memFiles : ~SameName(f, FileOf(m, d, FALSE))}
      /\ memories' = memories \ {m}
      /\ promised' = {n \in promised : n.id # m.id} /\ unsure' = unsure \ {m.id}
      /\ UNCHANGED <<dirs, memUp, organizing, stores, reboots, scattered>>
  <2>1. PICK md \in deleting :
          /\ deleting' = {}
          /\ memFiles' = {f \in memFiles : ~SameName(f, FileOf(md[1], md[2], FALSE))}
          /\ memories' = memories \ {md[1]}
          /\ promised' = {n \in promised : n.id # md[1].id} /\ unsure' = unsure \ {md[1].id}
          /\ UNCHANGED <<dirs, memUp, organizing, stores, reboots, scattered>>
    BY DEF DeleteEnds
  <2>2. md[1] = m /\ md[2] = d
    BY <1>1, <1>2, <2>1
  <2> QED
    BY <2>1, <2>2
<1>4. \A f \in memFiles : f \in memFiles' <=> ~(f.mem.id = m.id /\ f.mem.title = m.title /\ f.dir = d /\ f.tmp = FALSE)
  BY <1>3, NameIs
<1>5. ASSUME NEW f \in memFiles, f.mem.id = m.id, f.mem.id \notin scattered
      PROVE  f \notin memFiles'
  <2>1. f.dir = d
    BY <1>1, <1>2, <1>5 DEF MmLocks
  <2>2. f.mem.title = m.title /\ ~f.tmp
    BY <1>5 DEF MmTidy
  <2>3. f \in MemFileSet
    BY DEF MmTypes
  <2>4. f.tmp \in BOOLEAN
    BY <2>3, MemShape
  <2>5. f.tmp = FALSE
    BY <2>2, <2>4
  <2> QED
    BY <1>4, <1>5, <2>1, <2>2, <2>5
<1>6. MmTypes' /\ MmOne' /\ MmTidy'
  BY <1>3 DEF MmTypes, MmOne, MmTidy
<1>11. MmNewest'
  BY <1>3 DEF MmNewest
<1>7. MmLocks'
  BY <1>3 DEF MmLocks
<1>8. AcknowledgedOnDisk'
  <2> SUFFICES ASSUME NEW n \in promised, n.id # m.id, n.id \notin unsure PROVE \E f \in memFiles' : f.mem = n
    BY <1>3 DEF AcknowledgedOnDisk
  <2>1. PICK f \in memFiles : f.mem = n
    BY DEF AcknowledgedOnDisk
  <2> QED
    BY <1>4, <2>1
<1>9. DeletedLeavesNoFile'
  <2> SUFFICES ASSUME NEW f \in memFiles', f.mem.id \notin scattered, f.mem.id \notin unsure'
               PROVE  \E n \in promised' : n.id = f.mem.id
    BY <1>3 DEF DeletedLeavesNoFile
  <2>1. f \in memFiles /\ f.mem.id # m.id
    BY <1>3, <1>5
  <2>2. PICK n \in promised : n.id = f.mem.id
    BY <1>3, <2>1 DEF DeletedLeavesNoFile
  <2> QED
    BY <1>3, <2>1, <2>2
<1>10. MmRemembers'
  <2> SUFFICES ASSUME memUp = "open", NEW n \in Memories, n.id \notin scattered, n.id \notin unsure'
               PROVE  n \in memories' <=> n \in promised'
    BY <1>3 DEF MmRemembers, MmClean
  <2>1. CASE n.id = m.id
    BY <1>3, <2>1 DEF MmOne
  <2>2. CASE n.id # m.id
    <3>1. MmClean(n.id)
      BY <1>1, <1>2, <1>3, <2>2 DEF MmClean
    <3> QED
      BY <1>3, <2>2, <3>1 DEF MmRemembers
  <2> QED
    BY <2>1, <2>2
<1> QED
  BY <1>6, <1>7, <1>8, <1>9, <1>10, <1>11

\* The organizer finds the file it is going to move.
LEMMA MmOrganizeBegins == ASSUME MmIInv, NEW m \in memories, OrganizeBegins(m) PROVE MmIInv'
<1> USE DEF MmIInv
<1>1. /\ memUp = "open" /\ deleting = {} /\ dirs' = dirs \cup {topicDir(m)} /\ organizing' = {m}
      /\ UNCHANGED <<memories, memFiles, memUp, deleting, stores, reboots, promised, unsure, scattered>>
  BY DEF OrganizeBegins, Unlocked
<1>2. m \in Memories /\ topicDir(m) \in MemTopics
  BY MemShape DEF MmTypes
<1>4. MmLocks'
  BY <1>1, <1>2 DEF MmLocks, topicDir
<1>5. MmTypes' /\ MmOne' /\ MmNewest' /\ MmTidy'
  BY <1>1, <1>2 DEF MmTypes, MmOne, MmNewest, MmTidy
<1>6. AcknowledgedOnDisk' /\ DeletedLeavesNoFile' /\ MmRemembers'
  BY <1>1 DEF AcknowledgedOnDisk, DeletedLeavesNoFile, MmRemembers, MmClean
<1> QED
  BY <1>4, <1>5, <1>6
\* The organizer moves the file, or copies it and fails to remove the old one.
LEMMA MmMove == ASSUME MmIInv, NEW m \in organizing, organizing' = {}, Move(m),
                       UNCHANGED <<memories, dirs, memUp, deleting, stores, reboots, promised, unsure>>
                PROVE  MmIInv'
<1> USE DEF MmIInv
<1> DEFINE d == topicDir(m)
           to(f) == FileOf(f.mem, d, FALSE)
<1>1. PICK f \in memFiles :
          /\ SameName(f, FileOf(m, Owner, FALSE))
          /\ \/ /\ memFiles' = WriteMemory(f.mem, d, FALSE) \ {f}
                /\ scattered' = IF \/ \E n \in memories \cup {f.mem} : n.id = m.id /\ n.topic # d
                                   \/ \E md \in deleting : md[1].id = m.id
                                THEN scattered \cup {m.id} ELSE scattered
             \/ memFiles' = WriteMemory(f.mem, d, FALSE) /\ scattered' = scattered \cup {m.id}
  BY DEF Move
<1>2. m \in Memories /\ m.id \in MemIds /\ d \in MemTopics /\ d \in dirs /\ Owner \notin MemTopics
  <2>1. m \in Memories
    BY DEF MmLocks
  <2>2. d \in dirs
    BY DEF MmLocks
  <2> QED
    BY <2>1, <2>2, MemShape, MemAssumption
<1> HIDE DEF d
<1>3. f.mem.id = m.id /\ f.mem.title = m.title /\ f.dir = Owner /\ f.mem \in Memories /\ f \in MemFileSet
  <2>1. f.mem.id = m.id /\ f.mem.title = m.title /\ f.dir = Owner
    BY <1>1 DEF SameName, FileOf
  <2>2. f \in MemFileSet
    BY <1>1 DEF MmTypes
  <2> QED
    BY <2>1, <2>2, MemShape
<1>4. to(f) \in MemFileSet /\ to(f).mem = f.mem /\ to(f).dir = d /\ to(f).tmp = FALSE
  BY <1>2, <1>3, MemShape
<1>15. to(f) # f
  BY <1>2, <1>3, <1>4
<1>5. /\ \A g \in memFiles' : (g \in memFiles /\ ~SameName(g, to(f))) \/ g = to(f)
      /\ \A g \in memFiles : g = f \/ SameName(g, to(f)) \/ g \in memFiles'
      /\ to(f) \in memFiles'
  BY <1>1, <1>15 DEF WriteMemory
<1>6. /\ \A i : i \notin scattered' => i \notin scattered
      /\ scattered' \subseteq scattered \cup {m.id}
      /\ m.id \notin scattered' =>
            /\ f \notin memFiles'
            /\ \A n \in memories \cup {f.mem} : n.id = m.id => n.topic = d
            /\ \A md \in deleting : md[1].id # m.id
  BY <1>1
<1> HIDE DEF to
<1>7. \A g, h : SameName(g, h) => SameName(h, g)
  BY DEF SameName
<1>8. MmTypes'
  BY <1>2, <1>4, <1>5, <1>6 DEF MmTypes
<1>9. MmOne'
  <2>1. \A g, h \in memFiles' : SameName(g, h) => g = h
    BY <1>5, <1>7 DEF MmOne
  <2>2. \A g \in memFiles' : g.dir = Owner \/ g.dir \in dirs
    BY <1>2, <1>4, <1>5 DEF MmOne
  <2> QED
    BY <2>1, <2>2 DEF MmOne
<1>10. MmLocks'
  <2> SUFFICES ASSUME NEW md \in deleting, NEW g \in memFiles', g.mem.id = md[1].id, g.mem.id \notin scattered'
               PROVE  g.dir = md[2]
    BY DEF MmLocks
  <2>1. g.mem.id # m.id
    BY <1>6
  <2>2. g \in memFiles /\ g.mem.id \notin scattered
    BY <1>3, <1>4, <1>5, <1>6, <2>1
  <2> QED
    BY <2>2 DEF MmLocks
<1>11. MmTidy'
  <2> SUFFICES ASSUME NEW g \in memFiles', g.mem.id \notin scattered'
               PROVE  /\ ~g.tmp /\ g.dir \in {Owner, g.mem.topic}
                      /\ \A h \in memFiles' : h.mem.id = g.mem.id => h = g
                      /\ \A n \in memories : n.id = g.mem.id => n.title = g.mem.title /\ g.dir \in {Owner, n.topic}
    BY DEF MmTidy
  <2>1. CASE g.mem.id = m.id
    <3>1. \A h \in memFiles : h.mem.id = m.id => h = f
      BY <1>3, <1>6, <2>1 DEF MmTidy
    <3>2. \A h \in memFiles' : h.mem.id = m.id => h = to(f)
      BY <1>5, <1>6, <2>1, <3>1
    <3>3. g = to(f) /\ f.mem.topic = d /\ \A n \in memories : n.id = m.id => n.topic = d
      BY <1>3, <1>6, <2>1, <3>2
    <3>4. \A n \in memories : n.id = m.id => n.title = f.mem.title
      BY <1>3, <1>6, <2>1 DEF MmTidy
    <3> QED
      BY <1>4, <2>1, <3>2, <3>3, <3>4
  <2>2. CASE g.mem.id # m.id
    <3>1. g \in memFiles /\ g.mem.id \notin scattered
      BY <1>3, <1>4, <1>5, <1>6, <2>2
    <3>2. \A h \in memFiles' : h.mem.id = g.mem.id => h \in memFiles
      BY <1>3, <1>4, <1>5, <2>2
    <3> QED
      BY <3>1, <3>2 DEF MmTidy
  <2> QED
    BY <2>1, <2>2
<1>12. AcknowledgedOnDisk'
  <2> SUFFICES ASSUME NEW n \in promised, n.id \notin unsure PROVE \E g \in memFiles' : g.mem = n
    BY DEF AcknowledgedOnDisk
  <2>1. PICK g \in memFiles : g.mem = n
    BY DEF AcknowledgedOnDisk
  <2>2. CASE SameName(g, to(f))
    <3>1. n.id = f.mem.id /\ n.title = f.mem.title
      BY <1>4, <2>1, <2>2 DEF SameName
    <3>2. SameName(f, FileOf(n, Owner, FALSE))
      BY <1>1, <1>3, <3>1, NameIs
    <3>3. f.mem = n
      BY <3>2 DEF MmNewest
    <3> QED
      BY <1>4, <1>5, <3>3
  <2>3. CASE ~SameName(g, to(f))
    BY <1>4, <1>5, <2>1, <2>3
  <2> QED
    BY <2>2, <2>3
<1>16. MmNewest'
  <2>1. ASSUME NEW n \in promised, NEW g \in memFiles', SameName(g, FileOf(n, Owner, FALSE)) PROVE g \in memFiles
    <3>1. g.dir = Owner
      BY <2>1, NameIs
    <3> QED
      BY <1>2, <1>4, <1>5, <3>1
  <2> QED
    BY <2>1 DEF MmNewest
<1>13. DeletedLeavesNoFile'
  <2> SUFFICES ASSUME NEW g \in memFiles', g.mem.id \notin scattered', g.mem.id \notin unsure
               PROVE  \E n \in promised : n.id = g.mem.id
    BY DEF DeletedLeavesNoFile
  <2>1. PICK h \in memFiles : h.mem.id = g.mem.id
    BY <1>4, <1>5
  <2> QED
    BY <1>6, <2>1 DEF DeletedLeavesNoFile
<1>14. MmRemembers'
  BY <1>6 DEF MmRemembers, MmClean
<1> QED
  BY <1>8, <1>9, <1>10, <1>11, <1>12, <1>13, <1>14, <1>16

\* It moves the file, or fails before it has.
LEMMA MmOrganizeEnds == ASSUME MmIInv, OrganizeEnds PROVE MmIInv'
<1>1. PICK m \in organizing : /\ organizing' = {}
                              /\ Move(m) \/ UNCHANGED <<memFiles, scattered>>
                              /\ UNCHANGED <<memories, dirs, memUp, deleting, stores, reboots, promised, unsure>>
  BY DEF OrganizeEnds
<1>2. CASE Move(m)
  BY <1>1, <1>2, MmMove
<1>3. CASE UNCHANGED <<memFiles, scattered>>
  BY <1>1, <1>3 DEF MmIInv, MmTypes, MmOne, MmNewest, MmLocks, MmTidy, AcknowledgedOnDisk, DeletedLeavesNoFile,
                    MmRemembers, MmClean
<1> QED
  BY <1>1, <1>2, <1>3

\* A topic directory moves with the files in it.
LEMMA MmRename == ASSUME MmIInv, NEW a \in MemTopics, NEW b \in MemTopics, RenameTopic(a, b) PROVE MmIInv'
<1> USE DEF MmIInv
<1> DEFINE moved == {f \in memFiles : f.dir = a}
           to(f) == [f EXCEPT !.dir = b]
<1>1. /\ memUp = "open" /\ organizing = {} /\ a \in dirs /\ b \notin dirs
      /\ memFiles' = (memFiles \ moved) \cup {to(f) : f \in moved}
      /\ dirs' = (dirs \ {a}) \cup {b}
      /\ scattered' = scattered \cup {f.mem.id : f \in moved}
      /\ UNCHANGED <<memories, memUp, deleting, organizing, stores, reboots, promised, unsure>>
  BY DEF RenameTopic
<1>2. \A f \in memFiles : /\ to(f) \in MemFileSet /\ to(f).mem = f.mem /\ to(f).dir = b /\ to(f).tmp = f.tmp
                          /\ f.mem \in Memories /\ f.mem.id \in MemIds /\ f \in MemFileSet
  <2> SUFFICES ASSUME NEW f \in memFiles
               PROVE  /\ to(f) \in MemFileSet /\ to(f).mem = f.mem /\ to(f).dir = b /\ to(f).tmp = f.tmp
                      /\ f.mem \in Memories /\ f.mem.id \in MemIds /\ f \in MemFileSet
    OBVIOUS
  <2>1. f \in MemFileSet
    BY DEF MmTypes
  <2>2. f \in [mem : Memories, dir : MemTopics \cup {Owner}, tmp : BOOLEAN]
    BY <2>1, MemShape DEF MemFileSet
  <2>3. to(f) \in MemFileSet /\ to(f).mem = f.mem /\ to(f).dir = b /\ to(f).tmp = f.tmp
    BY <2>2 DEF MemFileSet
  <2> QED
    BY <2>1, <2>3, MemShape
<1>3. /\ \A g \in memFiles' : \/ g \in memFiles /\ g.dir # a
                              \/ \E f \in memFiles : f.dir = a /\ g = to(f)
      /\ \A f \in memFiles : IF f.dir = a THEN to(f) \in memFiles' ELSE f \in memFiles'
      /\ \A i : i \in scattered' <=> i \in scattered \/ \E f \in memFiles : f.dir = a /\ f.mem.id = i
  BY <1>1
<1>4. \A f \in memFiles : f.dir # b
  BY <1>1, MemAssumption DEF MmOne
<1> HIDE DEF moved, to
<1>5. \A g \in memFiles' : g.mem.id \notin scattered' => g \in memFiles /\ g.mem.id \notin scattered
  BY <1>2, <1>3
<1>6. MmTypes'
  <2>1. scattered' \subseteq MemIds
    BY <1>2, <1>3 DEF MmTypes
  <2>2. memFiles' \subseteq MemFileSet /\ dirs' \subseteq MemTopics
    BY <1>1, <1>2, <1>3 DEF MmTypes
  <2> QED
    BY <1>1, <2>1, <2>2 DEF MmTypes
<1>7. MmOne'
  <2>1. ASSUME NEW g \in memFiles', NEW h \in memFiles', SameName(g, h) PROVE g = h
    <3>1. g.dir = h.dir
      BY <2>1 DEF SameName
    <3>2. CASE g \in memFiles /\ h \in memFiles
      BY <2>1, <3>2 DEF MmOne
    <3>3. ASSUME NEW f \in memFiles, f.dir = a, g = to(f), NEW k \in memFiles, k.dir = a, h = to(k)
          PROVE  g = h
      <4>1. SameName(f, k)
        BY <1>2, <2>1, <3>3 DEF SameName
      <4> QED
        BY <3>3, <4>1 DEF MmOne
    <3> QED
      BY <1>2, <1>3, <1>4, <3>1, <3>2, <3>3
  <2>2. \A g \in memFiles' : g.dir = Owner \/ g.dir \in dirs'
    BY <1>1, <1>2, <1>3 DEF MmOne
  <2> QED
    BY <1>1, <2>1, <2>2 DEF MmOne
<1>8. MmLocks'
  BY <1>1, <1>5 DEF MmLocks
<1>9. MmTidy'
  <2> SUFFICES ASSUME NEW g \in memFiles', g.mem.id \notin scattered'
               PROVE  /\ ~g.tmp /\ g.dir \in {Owner, g.mem.topic}
                      /\ \A h \in memFiles' : h.mem.id = g.mem.id => h = g
                      /\ \A n \in memories : n.id = g.mem.id => n.title = g.mem.title /\ g.dir \in {Owner, n.topic}
    BY <1>1 DEF MmTidy
  <2>1. \A h \in memFiles' : h.mem.id = g.mem.id => h \in memFiles
    BY <1>5
  <2> QED
    BY <1>5, <2>1 DEF MmTidy
<1>10. AcknowledgedOnDisk'
  <2> SUFFICES ASSUME NEW n \in promised, n.id \notin unsure PROVE \E g \in memFiles' : g.mem = n
    BY <1>1 DEF AcknowledgedOnDisk
  <2>1. PICK g \in memFiles : g.mem = n
    BY DEF AcknowledgedOnDisk
  <2> QED
    BY <1>2, <1>3, <2>1
<1>11. DeletedLeavesNoFile'
  BY <1>1, <1>5 DEF DeletedLeavesNoFile
<1>12. MmRemembers'
  BY <1>1, <1>3 DEF MmRemembers, MmClean
<1>13. MmNewest'
  <2>1. ASSUME NEW n \in promised, NEW g \in memFiles', SameName(g, FileOf(n, Owner, FALSE)) PROVE g \in memFiles
    <3>1. g.dir = Owner /\ b # Owner
      BY <2>1, NameIs, MemAssumption
    <3> QED
      BY <1>2, <1>3, <3>1
  <2> QED
    BY <1>1, <2>1 DEF MmNewest
<1> QED
  BY <1>6, <1>7, <1>8, <1>9, <1>10, <1>11, <1>12, <1>13

\* A topic directory goes with the files in it.
LEMMA MmDeleteTopic == ASSUME MmIInv, NEW a \in MemTopics, DeleteTopic(a) PROVE MmIInv'
<1> USE DEF MmIInv
<1>1. /\ memUp = "open" /\ organizing = {}
      /\ memFiles' = memFiles \ {f \in memFiles : f.dir = a} /\ dirs' = dirs \ {a}
      /\ unsure' = unsure \cup {f.mem.id : f \in {g \in memFiles : g.dir = a}}
      /\ UNCHANGED <<memories, memUp, deleting, organizing, stores, reboots, promised, scattered>>
  BY DEF DeleteTopic
<1>2. /\ \A f : f \in memFiles' <=> f \in memFiles /\ f.dir # a
      /\ \A f \in memFiles : f.dir = a => f.mem.id \in unsure'
      /\ \A i : i \notin unsure' => i \notin unsure
  BY <1>1
<1>3. MmTypes'
  <2>1. unsure' \subseteq MemIds
    BY <1>1, MemShape DEF MmTypes
  <2> QED
    BY <1>1, <1>2, <2>1 DEF MmTypes
<1>4. MmOne' /\ MmNewest' /\ MmLocks' /\ MmTidy'
  BY <1>1, <1>2 DEF MmOne, MmNewest, MmLocks, MmTidy
<1>5. AcknowledgedOnDisk'
  <2> SUFFICES ASSUME NEW n \in promised, n.id \notin unsure' PROVE \E g \in memFiles' : g.mem = n
    BY <1>1 DEF AcknowledgedOnDisk
  <2>1. PICK g \in memFiles : g.mem = n
    BY <1>2 DEF AcknowledgedOnDisk
  <2> QED
    BY <1>2, <2>1
<1>6. DeletedLeavesNoFile' /\ MmRemembers'
  BY <1>1, <1>2 DEF DeletedLeavesNoFile, MmRemembers, MmClean
<1> QED
  BY <1>3, <1>4, <1>5, <1>6

\* A crash keeps the files.
LEMMA MmCrash == ASSUME MmIInv, MemCrash PROVE MmIInv'
<1> USE DEF MmIInv
<1>1. /\ memUp' = "down" /\ organizing' = {} /\ deleting' = {}
      /\ unsure' = unsure \cup {md[1].id : md \in deleting}
      /\ UNCHANGED <<memories, memFiles, dirs, stores, reboots, promised, scattered>>
  BY DEF MemCrash, MemDown
<1>2. unsure' \subseteq MemIds
  <2>1. \A md \in deleting : md[1] \in Memories
    BY DEF MmLocks, MmTypes
  <2> QED
    BY <1>1, <2>1, MemShape DEF MmTypes
<1>3. MmTypes'
  BY <1>1, <1>2 DEF MmTypes
<1>4. MmOne' /\ MmNewest' /\ MmLocks' /\ MmTidy' /\ AcknowledgedOnDisk' /\ DeletedLeavesNoFile' /\ MmRemembers'
  BY <1>1 DEF MmOne, MmNewest, MmLocks, MmTidy, AcknowledgedOnDisk, DeletedLeavesNoFile, MmRemembers
<1> QED
  BY <1>3, <1>4

\* A restart reads one of the files of each memory.
LEMMA MmNewStore == ASSUME MmIInv, NewMemoryStore PROVE MmIInv'
<1> USE DEF MmIInv
<1>1. /\ memUp = "down" /\ reboots < MaxReboots /\ reboots' = reboots + 1 /\ memUp' = "open"
      /\ UNCHANGED <<memFiles, dirs, deleting, organizing, stores, promised, unsure, scattered>>
      /\ \A m, n \in memories' : m.id = n.id => m = n
      /\ \A f \in memFiles : \E m \in memories' : m.id = f.mem.id
      /\ \A m \in memories' : \E f \in memFiles : f.mem = m
  BY DEF NewMemoryStore, Loaded
<1>2. memories' \subseteq Memories
  BY <1>1, MemShape DEF MmTypes
<1>3. organizing = {} /\ deleting = {}
  BY <1>1 DEF MmLocks
<1>4. MmTypes'
  BY <1>1, <1>2, MemAssumption DEF MmTypes
<1>5. MmOne' /\ MmNewest' /\ MmLocks' /\ AcknowledgedOnDisk' /\ DeletedLeavesNoFile'
  BY <1>1, <1>3 DEF MmOne, MmNewest, MmLocks, AcknowledgedOnDisk, DeletedLeavesNoFile
<1>6. ASSUME NEW n \in memories', NEW f \in memFiles, n.id = f.mem.id, f.mem.id \notin scattered
      PROVE  n = f.mem
  <2>1. PICK g \in memFiles : g.mem = n
    BY <1>1
  <2> QED
    BY <1>6, <2>1 DEF MmTidy
<1>7. MmTidy'
  BY <1>1, <1>6 DEF MmTidy
<1>8. MmRemembers'
  <2> SUFFICES ASSUME NEW m \in Memories, m.id \notin scattered, m.id \notin unsure
               PROVE  m \in memories' <=> m \in promised
    BY <1>1 DEF MmRemembers, MmClean
  <2>1. ASSUME m \in promised PROVE m \in memories'
    <3>1. PICK f \in memFiles : f.mem = m
      BY <2>1 DEF AcknowledgedOnDisk
    <3>2. PICK n \in memories' : n.id = m.id
      BY <1>1, <3>1
    <3> QED
      BY <1>6, <3>1, <3>2
  <2>2. ASSUME m \in memories' PROVE m \in promised
    <3>1. PICK f \in memFiles : f.mem = m
      BY <1>1, <2>2
    <3>2. PICK n \in promised : n.id = m.id
      BY <3>1 DEF DeletedLeavesNoFile
    <3>3. PICK g \in memFiles : g.mem = n
      BY <3>2 DEF AcknowledgedOnDisk
    <3> QED
      BY <3>1, <3>2, <3>3 DEF MmTidy
  <2> QED
    BY <2>1, <2>2
<1> QED
  BY <1>4, <1>5, <1>7, <1>8

\* All operations together.
LEMMA MmNext == MmIInv /\ [MemNext]_memVars => MmIInv'
<1> SUFFICES ASSUME MmIInv, [MemNext]_memVars PROVE MmIInv'
  OBVIOUS
<1>1. CASE CloseMemory
  <2>1. MmTypes'
    BY <1>1 DEF CloseMemory, MmIInv, MmTypes
  <2>2. MmOne' /\ MmNewest' /\ MmLocks' /\ MmTidy'
    BY <1>1 DEF CloseMemory, MmIInv, MmOne, MmNewest, MmLocks, MmTidy
  <2>3. AcknowledgedOnDisk' /\ DeletedLeavesNoFile' /\ MmRemembers'
    BY <1>1 DEF CloseMemory, MmIInv, AcknowledgedOnDisk, DeletedLeavesNoFile, MmRemembers, MmClean
  <2> QED
    BY <2>1, <2>2, <2>3 DEF MmIInv
<1>2. CASE UNCHANGED memVars
  <2>1. MmTypes'
    BY <1>2 DEF memVars, MmIInv, MmTypes
  <2>2. MmOne' /\ MmNewest' /\ MmLocks' /\ MmTidy'
    BY <1>2 DEF memVars, MmIInv, MmOne, MmNewest, MmLocks, MmTidy
  <2>3. AcknowledgedOnDisk' /\ DeletedLeavesNoFile' /\ MmRemembers'
    BY <1>2 DEF memVars, MmIInv, AcknowledgedOnDisk, DeletedLeavesNoFile, MmRemembers, MmClean
  <2> QED
    BY <2>1, <2>2, <2>3 DEF MmIInv
<1> QED
  BY <1>1, <1>2, MmStore, MmDeleteBegins, MmDeleteEnds, MmOrganizeBegins, MmOrganizeEnds, MmRename,
     MmDeleteTopic, MmCrash, MmNewStore DEF MemNext

\* The invariant implies what is promised.
LEMMA MmSafe == MmIInv => MemTypeOK /\ AcknowledgedOnDisk /\ DeletedLeavesNoFile /\ RemembersPromises
<1> SUFFICES ASSUME MmIInv PROVE MemTypeOK /\ AcknowledgedOnDisk /\ DeletedLeavesNoFile /\ RemembersPromises
  OBVIOUS
<1>1. MemTypeOK
  <2>1. organizing \subseteq Memories /\ Cardinality(organizing) <= 1
    <3>1. CASE organizing = {}
      BY <3>1, FS_EmptySet
    <3>2. ASSUME NEW m \in Memories, organizing = {m} PROVE organizing \subseteq Memories /\ Cardinality(organizing) <= 1
      <4>1. Cardinality(organizing) = 1
        BY <3>2, FS_Singleton
      <4> QED
        BY <3>2, <4>1
    <3> QED
      BY <3>1, <3>2 DEF MmIInv, MmLocks
  <2>2. deleting \subseteq Memories \X (MemTopics \cup {Owner}) /\ Cardinality(deleting) <= 1
    <3>1. CASE deleting = {}
      BY <3>1, FS_EmptySet
    <3>2. ASSUME NEW m \in memories, NEW d \in MemTopics \cup {Owner}, deleting = {<<m, d>>}
          PROVE  deleting \subseteq Memories \X (MemTopics \cup {Owner}) /\ Cardinality(deleting) <= 1
      <4>1. Cardinality(deleting) = 1
        BY <3>2, FS_Singleton
      <4> QED
        BY <3>2, <4>1 DEF MmIInv, MmTypes
    <3> QED
      BY <3>1, <3>2 DEF MmIInv, MmLocks
  <2> QED
    BY <2>1, <2>2 DEF MmIInv, MmTypes, MmOne, MemTypeOK, MemFileSet
<1>2. RemembersPromises
  <2> DEFINE excepted == scattered \cup unsure \cup {md[1].id : md \in deleting}
  <2>1. \A m : m.id \notin excepted <=> MmClean(m.id)
    BY DEF MmClean
  <2>2. memories \subseteq Memories /\ promised \subseteq Memories
    BY DEF MmIInv, MmTypes
  <2> HIDE DEF excepted
  <2>3. memUp = "open" => {m \in memories : m.id \notin excepted} = {m \in promised : m.id \notin excepted}
    BY <2>1, <2>2 DEF MmIInv, MmRemembers
  <2> QED
    BY <2>3 DEF RemembersPromises, excepted
<1> QED
  BY <1>1, <1>2 DEF MmIInv

\* Acknowledged memories keep their file through moves, renames, failures and
\* restarts, and deleted ones have none (pkg/memory).
LEMMA MemoriesStaySafe == MemSpec => [](MemTypeOK /\ AcknowledgedOnDisk /\ DeletedLeavesNoFile /\ RemembersPromises)
<1>1. MemSpec => []MmIInv
  BY MmInit, MmNext, PTL DEF MemSpec
<1> QED
  BY <1>1, MmSafe, PTL

\* The files of memories and skills are those of the entries last acknowledged,
\* however many entries, topics, callers and restarts (pkg/memory, pkg/skills).
THEOREM OwnerFilesStayMatched == MemSpec /\ SkillSpec => []OwnerFilesMatch
BY MemoriesStaySafe, SkillsStaySafe, PTL DEF OwnerFilesMatch

\* After crashes in the middle of a write, sessions lose one message per crash at
\* most and every acknowledged credential is readable (persistence.go, store.go).
THEOREM FilesStayRecoverable ==
    ASSUME Persistence
    PROVE  Spec /\ CredSpec => []FilesRecover
BY SessionsStayTyped, LossStaysBounded, CredentialsStayReadable, PTL DEF FilesRecover

-----------------------------------------------------------------------------
(* The configuration.                                                      *)

\* The process runs what its sources say, and they were accepted.
RunsWhatWasLoaded ==
    IF reloaded
    THEN /\ ReloadAccepts(section, loadedFrom, environ)
         /\ running = FromFile(section, loadedFrom, environ)
    ELSE /\ \E path \in BOOLEAN : Loads(section, loadedFrom, environ, path)
         /\ running = ApplyOverrides(section, LoadedConfig(section, loadedFrom, environ), flags)

\* The inductive invariant.
CfIInv ==
    /\ section \in CfSections /\ reloaded \in BOOLEAN
    /\ written \in {NoConfigFile, Unreadable} \cup FileValues(section)
    /\ ProcessRuns => /\ environ \in EnvValues(section) /\ flags \in FlagValues(section)
                      /\ loadedFrom \in {NoConfigFile, Unreadable} \cup FileValues(section)
                      /\ RunsWhatWasLoaded

\* The invariant holds of a process that is not there, and every step preserves it.
LEMMA CfStep == (CfInit => CfIInv) /\ (CfIInv /\ [CfNext]_cfVars => CfIInv')
<1>1. ASSUME CfInit PROVE CfIInv
  BY <1>1 DEF CfInit, CfIInv, ProcessRuns
<1>2. ASSUME CfIInv, UNCHANGED cfVars PROVE CfIInv'
  BY <1>2 DEF CfIInv, cfVars, ProcessRuns, RunsWhatWasLoaded
<1>3. ASSUME CfIInv, EditConfig PROVE CfIInv'
  BY <1>3 DEF CfIInv, EditConfig, ProcessRuns, RunsWhatWasLoaded
<1>4. ASSUME CfIInv, StartProcess PROVE CfIInv'
  BY <1>4 DEF CfIInv, StartProcess, ProcessRuns, RunsWhatWasLoaded
<1>5. ASSUME CfIInv, ReloadConfig PROVE CfIInv'
  BY <1>5 DEF CfIInv, ReloadConfig, ProcessRuns, RunsWhatWasLoaded
<1>6. ASSUME CfIInv, ProcessEnds PROVE CfIInv'
  BY <1>6 DEF CfIInv, ProcessEnds, ProcessRuns
<1> QED
  BY <1>1, <1>2, <1>3, <1>4, <1>5, <1>6 DEF CfNext

\* What was accepted before the flags: the defaults under the environment when there is
\* no file, or a file that was valid before the environment and is so under it.
Accepted ==
    LET v == LoadedConfig(section, loadedFrom, environ)
    IN  /\ Validate(section, v, environ)
        /\ loadedFrom = NoConfigFile \/ (loadedFrom \in FileValues(section) /\ FileLoads(section, loadedFrom, environ))
        /\ running = IF reloaded THEN v ELSE ApplyOverrides(section, v, flags)
        /\ reloaded => loadedFrom # NoConfigFile

\* That is what the invariant says of a process that runs.
LEMMA CfAccepted ==
    ASSUME CfIInv, ProcessRuns
    PROVE  Accepted /\ environ \in EnvValues(section) /\ flags \in FlagValues(section) /\ reloaded \in BOOLEAN
BY DEF CfIInv, RunsWhatWasLoaded, Accepted, ReloadAccepts, Loads, LoadedConfig, FileLoads

\* A path is under what it begins with.
LEMMA UnderConcat ==
    ASSUME NEW S, NEW a \in Seq(S), NEW b \in Seq(S)
    PROVE  Under(a, a \o b)
<1>1. Len(a \o b) = Len(a) + Len(b) /\ Len(a) \in Nat /\ Len(b) \in Nat /\ a \o b \in Seq(S)
      /\ \A i \in 1..Len(a) : (a \o b)[i] = a[i]
  BY ConcatProperties, LenProperties
<1>2. SubSeq(a \o b, 1, Len(a)) = a
  <2> DEFINE c == a \o b
  <2>1. c \in Seq(S) /\ Len(a) <= Len(c) /\ Len(a) \in Nat /\ \A i \in 1..Len(a) : c[i] = a[i]
    BY <1>1
  <2> HIDE DEF c
  <2>2. \A i \in 1..Len(a) : c[i] \in S
    BY <2>1
  <2>3. SubSeq(c, 1, Len(a)) \in Seq(S) /\ Len(SubSeq(c, 1, Len(a))) = Len(a)
        /\ \A i \in 1..Len(a) : SubSeq(c, 1, Len(a))[i] = c[i]
    BY <2>1, <2>2
  <2>4. SubSeq(c, 1, Len(a)) = a
    BY <2>1, <2>3, SeqEqual
  <2> QED
    BY <2>4 DEF c
<1> QED
  BY <1>1, <1>2 DEF Under

\* A path that moves is under the new base, and is a path.
LEMMA MovedIsUnder ==
    ASSUME NEW S, NEW new \in Seq(S), NEW old \in Seq(S), NEW p \in Seq(S)
    PROVE  /\ Under(old, p) => Under(new, Moved(new, old, p))
           /\ new # << >> /\ p # << >> => Moved(new, old, p) # << >>
<1> DEFINE r == SubSeq(p, Len(old) + 1, Len(p))
<1>1. Len(old) \in Nat /\ Len(p) \in Nat /\ \A i \in Len(old) + 1..Len(p) : p[i] \in S
  BY LenProperties
<1>2. r \in Seq(S)
  BY <1>1, SubSeqProperties
<1> HIDE DEF r
<1>3. Under(new, new \o r)
  BY <1>2, UnderConcat
<1>4. new # << >> => new \o r # << >>
  BY <1>2, ConcatProperties, EmptySeq
<1> QED
  BY <1>3, <1>4 DEF Moved, r

\* The memory section before the environment.
MemoryBefore == IF loadedFrom = NoConfigFile THEN DefaultMemoryConfig ELSE DefaultMemory(loadedFrom)

\* Its type.
MemoryRecords == [storage : Seq(STRING), on : BOOLEAN, size : Int, users : Seq(STRING)]

\* It has its paths: the users' one is that of the file or lies under the storage.
LEMMA CfMemory ==
    ASSUME CfIInv, ProcessRuns, section = "memory"
    PROVE  /\ running = EnvMemory(MemoryBefore, environ) /\ environ.on \in EnvSwitches
           /\ environ.storage \in {NotSet} \cup EnvStorages
           /\ MemoryBefore \in MemoryRecords
           /\ MemoryBefore.storage # << >> /\ MemoryBefore.users # << >>
           /\ LET said == IF loadedFrom = NoConfigFile THEN << >> ELSE loadedFrom.users
              IN  said = << >> \/ (loadedFrom.storage # << >> /\ Under(loadedFrom.storage, said)) =>
                      Under(MemoryBefore.storage, MemoryBefore.users)
           /\ MemoryBefore.on <=> \/ loadedFrom = NoConfigFile \/ loadedFrom.on
                                  \/ loadedFrom = [storage |-> << >>, users |-> << >>, on |-> FALSE, size |-> 0]
<1> DEFINE b == MemoryBefore
<1> DEFINE silent == [storage |-> << >>, users |-> << >>, on |-> FALSE, size |-> 0]
<1>1. Accepted /\ environ \in [storage : {NotSet} \cup EnvStorages, on : EnvSwitches] /\ flags = NotSet
  BY CfAccepted DEF EnvValues, FlagValues
<1>2. /\ running = LoadedConfig(section, loadedFrom, environ)
      /\ loadedFrom = NoConfigFile \/ (loadedFrom \in FileValues(section) /\ FileLoads(section, loadedFrom, environ))
  BY <1>1 DEF Accepted, ApplyOverrides
<1>3. running = EnvMemory(b, environ)
  BY <1>2 DEF LoadedConfig, FromFile, ApplyEnvOverrides, ApplyDefaults, Interpolate, DefaultConfig, MemoryBefore
<1>4. DefaultPath \in Seq(STRING) \ {<< >>} /\ <<"/users">> \in Seq(STRING) /\ << >> \in Seq(STRING)
  <2>1. \A x \in STRING : <<x>> \in Seq(STRING) /\ <<x>> # << >>
    OBVIOUS
  <2>2. << >> \in Seq(STRING) /\ "std" \in STRING /\ "/users" \in STRING
    BY CfAssumption
  <2>3. <<"std">> \in Seq(STRING) /\ <<"std">> # << >> /\ <<"/users">> \in Seq(STRING)
    BY <2>1, <2>2
  <2> QED
    BY <2>2, <2>3 DEF DefaultPath
<1>5. ASSUME NEW p \in Seq(STRING) \ {<< >>}
      PROVE  Users(p) \in Seq(STRING) \ {<< >>} /\ Under(p, Users(p))
  <2>1. p \o <<"/users">> \in Seq(STRING) /\ Len(p \o <<"/users">>) = Len(p) + Len(<<"/users">>)
        /\ Under(p, p \o <<"/users">>)
    BY <1>4, <1>5, UnderConcat, ConcatProperties
  <2>2. Len(p) \in Nat \ {0} /\ Len(<<"/users">>) \in Nat /\ Len(<< >>) = 0
    BY <1>4, <1>5, EmptySeq, LenProperties
  <2> QED
    BY <2>1, <2>2 DEF Users
<1>6. ASSUME loadedFrom = NoConfigFile \/ loadedFrom = silent
      PROVE  b.storage = DefaultPath /\ b.users = Users(DefaultPath) /\ b.on /\ b \in MemoryRecords
  <2>1. b = DefaultMemoryConfig
    BY <1>6 DEF MemoryBefore, DefaultMemory
  <2>2. DefaultPath \in Seq(STRING) /\ Users(DefaultPath) \in Seq(STRING)
    BY <1>4, <1>5
  <2> QED
    BY <2>1, <2>2 DEF DefaultMemoryConfig, MemoryRecords
<1>7. ASSUME loadedFrom # NoConfigFile, loadedFrom # silent
      PROVE  /\ loadedFrom \in [storage : Storages, on : BOOLEAN, size : Sizes, users : Homes]
             /\ b.storage = Or(loadedFrom.storage, << >>, DefaultPath)
             /\ b.users = Or(loadedFrom.users, << >>, Users(b.storage)) /\ b.on = loadedFrom.on
             /\ b \in MemoryRecords
  <2>1. loadedFrom \in [storage : Storages, on : BOOLEAN, size : Sizes, users : Homes]
    BY <1>2, <1>7 DEF FileValues
  <2> DEFINE s == Or(loadedFrom.storage, << >>, DefaultPath)
  <2>2. b = [loadedFrom EXCEPT !.storage = s, !.size = Or(@, 0, 100), !.users = Or(@, << >>, Users(s))]
    BY <1>7 DEF MemoryBefore, DefaultMemory
  <2>3. loadedFrom.storage \in Seq(STRING) /\ loadedFrom.users \in Seq(STRING) /\ loadedFrom.size \in Int /\ loadedFrom.on \in BOOLEAN
    BY <2>1, CfAssumption
  <2>4. s \in Seq(STRING) \ {<< >>}
    BY <1>4, <2>3 DEF Or
  <2>5. Or(loadedFrom.users, << >>, Users(s)) \in Seq(STRING) /\ Or(loadedFrom.size, 0, 100) \in Int
    BY <1>5, <2>3, <2>4 DEF Or
  <2> HIDE DEF b, s
  <2>6. b.storage = s /\ b.users = Or(loadedFrom.users, << >>, Users(s)) /\ b.on = loadedFrom.on
    BY <2>1, <2>2
  <2>7. b = [storage |-> s, on |-> loadedFrom.on, size |-> Or(loadedFrom.size, 0, 100), users |-> Or(loadedFrom.users, << >>, Users(s))]
    BY <2>1, <2>2
  <2>8. b \in MemoryRecords
    BY <2>3, <2>4, <2>5, <2>7 DEF MemoryRecords
  <2> QED
    BY <2>1, <2>6, <2>8 DEF s
<1> HIDE DEF b, silent
<1>8. /\ b \in MemoryRecords /\ b.storage # << >> /\ b.users # << >>
      /\ LET said == IF loadedFrom = NoConfigFile THEN << >> ELSE loadedFrom.users
         IN  said = << >> \/ (loadedFrom.storage # << >> /\ Under(loadedFrom.storage, said)) => Under(b.storage, b.users)
  <2>1. CASE loadedFrom = NoConfigFile \/ loadedFrom = silent
    BY <1>4, <1>5, <1>6, <2>1
  <2>2. CASE loadedFrom # NoConfigFile /\ loadedFrom # silent
    <3>1. loadedFrom.storage \in Seq(STRING) /\ loadedFrom.users \in Seq(STRING)
      BY <1>7, <2>2, CfAssumption
    <3>2. b.storage \in Seq(STRING) \ {<< >>} /\ (loadedFrom.storage # << >> => b.storage = loadedFrom.storage)
      BY <1>4, <1>7, <2>2, <3>1 DEF Or
    <3>3. Users(b.storage) \in Seq(STRING) \ {<< >>} /\ Under(b.storage, Users(b.storage))
      BY <1>5, <3>2
    <3>4. b.users = IF loadedFrom.users = << >> THEN Users(b.storage) ELSE loadedFrom.users
      BY <1>7, <2>2 DEF Or
    <3>5. b \in MemoryRecords
      BY <1>7, <2>2
    <3> QED
      BY <2>2, <3>1, <3>2, <3>3, <3>4, <3>5
  <2> QED
    BY <2>1, <2>2
<1>9. b.on <=> loadedFrom = NoConfigFile \/ loadedFrom.on \/ loadedFrom = silent
  <2>1. CASE loadedFrom = NoConfigFile \/ loadedFrom = silent
    BY <1>6, <2>1
  <2>2. CASE loadedFrom # NoConfigFile /\ loadedFrom # silent
    BY <1>7, <2>2
  <2> QED
    BY <2>1, <2>2
<1> QED
  BY <1>1, <1>3, <1>8, <1>9 DEF b, silent

\* The environment moves it, with the users' path if that lies under it.
LEMMA CfMemoryMoves ==
    ASSUME CfIInv, ProcessRuns, section = "memory"
    PROVE  /\ running.users # << >>
           /\ Under(MemoryBefore.storage, MemoryBefore.users) => Under(running.storage, running.users)
           /\ running.on = EnvFlag(MemoryBefore.on, environ.on)
<1> DEFINE b == MemoryBefore
<1> DEFINE s == Or(environ.storage, NotSet, b.storage)
<1>1. running = EnvMemory(b, environ) /\ environ.storage \in {NotSet} \cup EnvStorages
      /\ b \in MemoryRecords /\ b.storage # << >> /\ b.users # << >>
  BY CfMemory
<1>2. b.storage \in Seq(STRING) /\ b.users \in Seq(STRING)
  BY <1>1 DEF MemoryRecords
<1>3. s \in Seq(STRING) \ {<< >>}
  BY <1>1, <1>2, CfAssumption DEF Or
<1>4. running.storage = s /\ running.users = Moved(s, b.storage, b.users) /\ running.on = EnvFlag(b.on, environ.on)
  <2>1. running = [b EXCEPT !.storage = s, !.users = Moved(s, b.storage, @), !.on = EnvFlag(@, environ.on)]
    BY <1>1 DEF EnvMemory
  <2> HIDE DEF b, s
  <2> QED
    BY <1>1, <2>1 DEF MemoryRecords
<1> HIDE DEF b, s
<1> QED
  BY <1>1, <1>2, <1>3, <1>4, MovedIsUnder DEF b

\* The model section before the environment.
LLMBefore == IF loadedFrom = NoConfigFile THEN DefaultLLMConfig ELSE DefaultLLM(loadedFrom)

\* Its keys and the default are those of the environment where that has any.
LEMMA CfModels ==
    ASSUME CfIInv, ProcessRuns, section = "llm"
    PROVE  /\ Validate("llm", running, environ)
           /\ running.default # ""
           /\ DOMAIN running.providers = DOMAIN LLMBefore.providers
           /\ \A p \in DOMAIN running.providers :
                running.providers[p] = IF p \in environ.keys /\ LLMBefore.providers[p] # "off" THEN "key" ELSE LLMBefore.providers[p]
<1> DEFINE b == LLMBefore
<1> DEFINE E == [on : EnvSwitches, default : {NotSet} \cup (DefaultNames \ {""}), keys : SUBSET {"anthropic", "openai"}]
<1>1. Accepted /\ environ \in E /\ flags = NotSet
  BY CfAccepted DEF EnvValues, FlagValues
<1>2. /\ running = LoadedConfig(section, loadedFrom, environ) /\ Validate("llm", running, environ)
      /\ loadedFrom = NoConfigFile \/ (loadedFrom \in FileValues(section) /\ FileLoads(section, loadedFrom, environ))
  BY <1>1 DEF Accepted, ApplyOverrides
<1>3. running = EnvLLM(b, environ)
  BY <1>2 DEF LoadedConfig, FromFile, ApplyEnvOverrides, ApplyDefaults, Interpolate, DefaultConfig, LLMBefore
<1>4. \E ds, ps : b \in [on : BOOLEAN, default : ds, providers : ps] /\ b.default # ""
  <2>1. CASE loadedFrom = NoConfigFile
    BY <2>1 DEF LLMBefore, DefaultLLMConfig
  <2>2. CASE loadedFrom # NoConfigFile
    <3>1. loadedFrom \in [on : BOOLEAN, default : DefaultNames, providers : ProvidersWritten]
      BY <1>2, <2>2 DEF FileValues
    <3> DEFINE m == Or(loadedFrom.default, "", "anthropic")
    <3> DEFINE k == Or(loadedFrom.providers, NotSet, DefaultLLMConfig.providers)
    <3>2. b = [loadedFrom EXCEPT !.default = m, !.providers = k] /\ m # ""
      BY <2>2 DEF LLMBefore, DefaultLLM, Or
    <3> HIDE DEF b, m, k
    <3>3. b \in [on : BOOLEAN, default : {m}, providers : {k}] /\ b.default = m
      BY <3>1, <3>2
    <3> QED
      BY <3>2, <3>3
  <2> QED
    BY <2>1, <2>2
<1> DEFINE m == Or(environ.default, NotSet, b.default)
<1> DEFINE k == [p \in DOMAIN b.providers |-> IF p \in environ.keys /\ b.providers[p] # "off" THEN "key" ELSE b.providers[p]]
<1>5. running = [b EXCEPT !.on = EnvFlag(@, environ.on), !.default = m, !.providers = k]
  BY <1>3 DEF EnvLLM
<1>6. m # ""
  BY <1>1, <1>4 DEF Or
<1> HIDE DEF b, m
<1>7. running.default = m /\ running.providers = k
  <2> HIDE DEF k
  <2> QED
    BY <1>4, <1>5
<1> QED
  BY <1>2, <1>6, <1>7 DEF b

\* What runs has the shape of its section.
LEMMA CfTyped == CfIInv => CfTypeOK
<1> SUFFICES ASSUME CfIInv PROVE CfTypeOK
  OBVIOUS
<1>1. section \in CfSections /\ written \in {NoConfigFile, Unreadable} \cup FileValues(section)
  BY DEF CfIInv
<1>2. ASSUME ProcessRuns, section = "port" PROVE running \in Int \ {0}
  <2>1. Accepted /\ environ \in {NotSet, Unparsable} \cup Numbers /\ flags \in Numbers
    BY <1>2, CfAccepted DEF EnvValues, FlagValues
  <2> DEFINE v == LoadedConfig(section, loadedFrom, environ)
  <2>2. v \in Int
    BY <1>2, <2>1, CfAssumption DEF Accepted, LoadedConfig, FromFile, ApplyEnvOverrides, ApplyDefaults, EnvText, Or, Interpolate, DefaultConfig, FileValues
  <2>3. v # 0
    BY <1>2, <2>1, <2>2 DEF Accepted, Validate
  <2>4. running = IF reloaded THEN v ELSE IF flags > 0 THEN flags ELSE v
    BY <1>2, <2>1 DEF Accepted, ApplyOverrides
  <2>5. flags \in Int
    BY <2>1, CfAssumption
  <2> HIDE DEF v
  <2> QED
    BY <2>2, <2>3, <2>4, <2>5
<1>3. ASSUME ProcessRuns, section = "level" PROVE running # ""
  <2>1. Accepted
    BY <1>3, CfAccepted
  <2>2. LoadedConfig(section, loadedFrom, environ) # ""
    BY <1>3, <2>1 DEF Accepted, Validate
  <2> QED
    BY <1>3, <2>1, <2>2 DEF Accepted, ApplyOverrides, Or
<1> QED
  BY <1>1, <1>2, <1>3, CfAccepted, CfMemoryMoves, CfModels DEF CfTypeOK

\* The first of four that says something.
LEMMA StrongestOfFour ==
    ASSUME NEW a, NEW b, NEW c, NEW d, d # NotSet
    PROVE  Strongest(<<a, b, c, d>>) =
               IF a # NotSet THEN a ELSE IF b # NotSet THEN b ELSE IF c # NotSet THEN c ELSE d
<1> DEFINE s == <<a, b, c, d>>
<1> DEFINE P(i) == s[i] # NotSet /\ \A j \in 1..i-1 : s[j] = NotSet
<1> DEFINE n == IF a # NotSet THEN 1 ELSE IF b # NotSet THEN 2 ELSE IF c # NotSet THEN 3 ELSE 4
<1>1. DOMAIN s = 1..4 /\ s[1] = a /\ s[2] = b /\ s[3] = c /\ s[4] = d
  OBVIOUS
<1> HIDE DEF s
<1>2. n \in 1..4 /\ s[n] # NotSet /\ \A j \in 1..n-1 : s[j] = NotSet
  BY <1>1
<1>3. \A i \in 1..4 : P(i) => i = n
  <2> SUFFICES ASSUME NEW i \in 1..4, P(i) PROVE i = n
    OBVIOUS
  <2>1. n \in 1..i-1 \/ i \in 1..n-1 \/ i = n
    BY <1>2
  <2> QED
    BY <1>2, <2>1
<1> HIDE DEF n
<1>4. (CHOOSE i \in DOMAIN s : P(i)) = n
  BY <1>1, <1>2, <1>3
<1>5. Strongest(s) = s[n]
  BY <1>4 DEF Strongest
<1> QED
  BY <1>1, <1>5 DEF s, n

\* Who is asked last has the last word.
LEMMA CfStrongest == CfIInv => StrongestWins
<1> SUFFICES ASSUME CfIInv, ProcessRuns, section \in {"level", "port"}
             PROVE  LET zero == IF section = "level" THEN "" ELSE 0
                        none == IF section = "level" THEN flags = "" ELSE flags <= 0
                        flag == IF none THEN NotSet ELSE flags
                        env  == IF environ = Unparsable THEN NotSet ELSE environ
                        said == IF loadedFrom \in {NoConfigFile, zero} THEN NotSet ELSE Interpolate(section, loadedFrom, environ)
                    IN  none \/ ~reloaded => running = Strongest(<<flag, env, said, DefaultConfig(section)>>)
  BY DEF StrongestWins
<1> DEFINE zero == IF section = "level" THEN "" ELSE 0
<1> DEFINE none == IF section = "level" THEN flags = "" ELSE flags <= 0
<1> DEFINE flag == IF none THEN NotSet ELSE flags
<1> DEFINE env  == IF environ = Unparsable THEN NotSet ELSE environ
<1> DEFINE said == IF loadedFrom \in {NoConfigFile, zero} THEN NotSet ELSE Interpolate(section, loadedFrom, environ)
<1> DEFINE v == LoadedConfig(section, loadedFrom, environ)
<1>1. Accepted /\ environ \in EnvValues(section) /\ flags \in FlagValues(section) /\ reloaded \in BOOLEAN
  BY CfAccepted
<1>2. none \/ ~reloaded => running = IF flag # NotSet THEN flag ELSE v
  <2>1. CASE section = "level"
    <3>1. flags # NotSet
      BY <1>1, <2>1, CfAssumption DEF FlagValues
    <3> QED
      BY <1>1, <2>1, <3>1 DEF Accepted, ApplyOverrides, Or
  <2>2. CASE section = "port"
    <3>1. flags \in Int /\ flags # NotSet
      BY <1>1, <2>2, CfAssumption DEF FlagValues
    <3>2. running = IF reloaded THEN v ELSE IF flags > 0 THEN flags ELSE v
      BY <1>1, <2>2 DEF Accepted, ApplyOverrides
    <3> HIDE DEF v
    <3> QED
      BY <2>2, <3>1, <3>2
  <2> QED
    BY <2>1, <2>2
<1>3. v = IF env # NotSet THEN env ELSE IF said # NotSet THEN said ELSE DefaultConfig(section)
  <2>1. CASE section = "level"
    <3>1. environ \in {NotSet} \cup (Texts \ {""}) /\ Unparsable \notin Texts /\ NotSet \notin Texts /\ NotSet # Unparsable
      BY <1>1, <2>1, CfAssumption DEF EnvValues
    <3>2. loadedFrom = NoConfigFile \/ loadedFrom \in Texts
      BY <1>1, <2>1 DEF Accepted, FileValues
    <3> DEFINE i == Interpolate("level", loadedFrom, environ)
    <3> DEFINE w == IF loadedFrom = NoConfigFile THEN "info" ELSE Or(i, "", "info")
    <3>3. v = EnvText(w, environ)
      <4>1. \A x, e : ApplyEnvOverrides("level", x, e) = EnvText(x, e)
        BY DEF ApplyEnvOverrides
      <4>2. \A x : ApplyDefaults("level", x) = Or(x, "", "info") /\ DefaultConfig("level") = "info"
        BY DEF ApplyDefaults, DefaultConfig
      <4>3. CASE loadedFrom = NoConfigFile
        BY <2>1, <4>1, <4>2, <4>3 DEF LoadedConfig
      <4>4. CASE loadedFrom # NoConfigFile
        BY <2>1, <4>1, <4>2, <4>4 DEF LoadedConfig, FromFile
      <4> QED
        BY <4>3, <4>4
    <3>4. ASSUME loadedFrom # NoConfigFile, loadedFrom # ""
          PROVE  i # "" /\ i # NotSet
      <4>1. CASE loadedFrom = "reference"
        <5>1. i = IF environ = NotSet THEN "debug" ELSE environ
          BY <4>1 DEF Interpolate, Referred, Or
        <5>2. environ # NotSet => environ # ""
          BY <3>1
        <5>3. "debug" # NotSet
          BY CfAssumption
        <5> QED
          BY <5>1, <5>2, <5>3
      <4>2. CASE loadedFrom # "reference"
        <5>1. i = loadedFrom
          BY <4>2 DEF Interpolate
        <5> QED
          BY <3>1, <3>2, <3>4, <5>1
      <4> QED
        BY <4>1, <4>2
    <3>5. loadedFrom = "" => i = ""
      BY DEF Interpolate
    <3>6. said = IF loadedFrom \in {NoConfigFile, ""} THEN NotSet ELSE i
      BY <2>1
    <3>7. DefaultConfig(section) = "info"
      BY <2>1 DEF DefaultConfig
    <3> HIDE DEF v, said, i
    <3>8. w = IF said # NotSet THEN said ELSE "info"
      BY <3>4, <3>5, <3>6 DEF Or
    <3>9. v = IF environ \in {NotSet, Unparsable} THEN w ELSE environ
      BY <3>3 DEF EnvText
    <3>10. env = environ /\ environ # Unparsable
      BY <3>1
    <3> HIDE DEF w, env
    <3> QED
      BY <3>7, <3>8, <3>9, <3>10
  <2>2. CASE section = "port"
    <3>1. environ \in {NotSet, Unparsable} \cup Numbers /\ Unparsable \notin Numbers /\ NotSet \notin Numbers
      BY <1>1, <2>2, CfAssumption DEF EnvValues
    <3>2. loadedFrom = NoConfigFile \/ loadedFrom \in Numbers
      BY <1>1, <2>2 DEF Accepted, FileValues
    <3>3. v = EnvText(IF loadedFrom = NoConfigFile THEN 8080 ELSE Or(loadedFrom, 0, 8080), environ)
      BY <2>2 DEF LoadedConfig, FromFile, ApplyEnvOverrides, ApplyDefaults, DefaultConfig, Interpolate
    <3>4. said = IF loadedFrom \in {NoConfigFile, 0} THEN NotSet ELSE loadedFrom
      BY <2>2 DEF Interpolate
    <3>5. DefaultConfig(section) = 8080
      BY <2>2 DEF DefaultConfig
    <3> HIDE DEF v, said
    <3> QED
      BY <3>1, <3>2, <3>3, <3>4, <3>5 DEF EnvText, Or
  <2> QED
    BY <2>1, <2>2
<1>4. DefaultConfig(section) # NotSet
  <2>1. \A x \in STRING : x # NotSet
    BY CfAssumption
  <2>2. \A x \in Int : x # NotSet
    BY CfAssumption
  <2>3. DefaultConfig("level") = "info" /\ DefaultConfig("port") = 8080
    BY DEF DefaultConfig
  <2>4. "info" \in STRING /\ 8080 \in Int
    BY CfAssumption
  <2> QED
    BY <2>1, <2>2, <2>3, <2>4
<1> HIDE DEF none, flag, env, said, v
<1>5. none \/ ~reloaded => running = Strongest(<<flag, env, said, DefaultConfig(section)>>)
  BY <1>2, <1>3, <1>4, StrongestOfFour
<1> QED
  BY <1>5 DEF none, flag, env, said

\* The invariant says what the run checks of every state.
LEMMA CfAllSafe == CfIInv => ConfigSafe
<1> SUFFICES ASSUME CfIInv PROVE ConfigSafe
  OBVIOUS
<1>1. CfTypeOK /\ StrongestWins
  BY CfTyped, CfStrongest
<1>2. RunsValid
  <2> SUFFICES ASSUME ProcessRuns PROVE Validate(section, running, environ) \/ (~reloaded /\ running = flags)
    BY DEF RunsValid
  <2> QED
    BY CfAccepted DEF Accepted, ApplyOverrides, Or
<1>3. ASSUME ProcessRuns, section = "tls", environ # NotSet PROVE running = environ
  <2>1. running = Or(environ, NotSet, "")
    BY <1>3, CfAccepted DEF Accepted, ApplyOverrides, LoadedConfig, FromFile, ApplyEnvOverrides, EnvTLS
  <2> QED
    BY <1>3, <2>1 DEF Or
<1>4. MemoryUnmixed
  BY CfMemory, CfMemoryMoves DEF MemoryUnmixed
<1>5. ASSUME ProcessRuns, section = "memory"
      PROVE  /\ environ.on # NotSet => (running.on <=> environ.on = "true")
             /\ environ.on = NotSet /\ (loadedFrom = NoConfigFile \/ loadedFrom.on) => running.on
  <2>1. running.on = EnvFlag(MemoryBefore.on, environ.on)
    BY <1>5, CfMemoryMoves
  <2>3. environ.on \in EnvSwitches
    BY <1>5, CfMemory
  <2>4. NotSet # "true"
    BY CfAssumption
  <2>2. MemoryBefore.on <=> \/ loadedFrom = NoConfigFile \/ loadedFrom.on
                            \/ loadedFrom = [storage |-> << >>, users |-> << >>, on |-> FALSE, size |-> 0]
    BY <1>5, CfMemory
  <2> QED
    BY <2>1, <2>2, <2>3, <2>4 DEF EnvFlag, EnvSwitches
<1>6. ProvidersHaveKeys
  <2> SUFFICES ASSUME ProcessRuns, section = "llm", running.on
               PROVE  /\ running.default \in DOMAIN running.providers
                      /\ \A p \in DOMAIN running.providers : running.providers[p] # "none"
    BY DEF ProvidersHaveKeys
  <2> QED
    BY CfModels DEF Validate, ValidLLM, HasKey
<1>7. SwitchesObey
  <2>1. ASSUME ProcessRuns, section = "persistence"
        PROVE  running <=> IF environ # NotSet THEN environ = "true" ELSE loadedFrom \in {NoConfigFile, TRUE}
    <3>1. Accepted /\ environ \in EnvSwitches
      BY <2>1, CfAccepted DEF EnvValues
    <3>2. running = LoadedConfig("persistence", loadedFrom, environ)
          /\ (loadedFrom = NoConfigFile \/ loadedFrom \in BOOLEAN)
      BY <2>1, <3>1 DEF Accepted, ApplyOverrides, FileValues
    <3>3. \A x, e : ApplyEnvOverrides("persistence", x, e) = EnvFlag(x, e)
      BY DEF ApplyEnvOverrides
    <3>4. \A x, e : ApplyDefaults("persistence", Interpolate("persistence", x, e)) = x
      BY DEF ApplyDefaults, Interpolate
    <3>5. DefaultConfig("persistence") = TRUE
      <4>1. DefaultConfig("persistence") \in {TRUE}
        BY DEF DefaultConfig
      <4> QED
        BY <4>1
    <3>6. CASE loadedFrom = NoConfigFile
      <4>1. running = EnvFlag(TRUE, environ)
        BY <3>2, <3>3, <3>5, <3>6 DEF LoadedConfig
      <4> QED
        BY <3>6, <4>1, Zenon DEF EnvFlag
    <3>7. CASE loadedFrom # NoConfigFile
      <4>1. running = EnvFlag(loadedFrom, environ)
        BY <3>2, <3>3, <3>4, <3>7 DEF LoadedConfig, FromFile
      <4>2. loadedFrom \in BOOLEAN
        BY <3>2, <3>7
      <4> QED
        BY <3>7, <4>1, <4>2, Zenon DEF EnvFlag
    <3> QED
      BY <3>6, <3>7
  <2>2. ASSUME ProcessRuns, section = "audit"
        PROVE  running.compress <=> loadedFrom = NoConfigFile \/ loadedFrom.compress
    <3>1. Accepted
      BY <2>2, CfAccepted
    <3>2. running = IF loadedFrom = NoConfigFile THEN DefaultAuditConfig ELSE DefaultAudit(loadedFrom)
      BY <2>2, <3>1 DEF Accepted, ApplyOverrides, LoadedConfig, FromFile, ApplyEnvOverrides, ApplyDefaults, Interpolate, DefaultConfig
    <3>3. loadedFrom # NoConfigFile => loadedFrom \in [on : BOOLEAN, format : Texts, compress : BOOLEAN]
      BY <2>2, <3>1 DEF Accepted, FileValues
    <3> QED
      BY <3>2, <3>3 DEF DefaultAudit, DefaultAuditConfig
  <2> QED
    BY <1>3, <1>5, <2>1, <2>2 DEF SwitchesObey
<1> QED
  BY <1>1, <1>2, <1>4, <1>6, <1>7 DEF ConfigSafe

\* Whatever a file, the environment and the flags say, and however often the file is
\* edited and read again: the strongest source wins and what runs is valid (config.go,
\* loader.go, reloader.go).
THEOREM ConfigStaysSafe == CfSpec => []ConfigSafe
<1> QED
  BY CfStep, CfAllSafe, PTL DEF CfSpec

-----------------------------------------------------------------------------
(* The policy in force: the enforcer.                                      *)

\* Container configurations on their way through the enforcer.
PeConfigs == [cpu : Int, net : {"none", "bridge"}, mount : {"none", "ro", "rw"}, ro : BOOLEAN]

\* What the code makes of c under p, with the allowlist that it uses.
Conforms(p, c) ==
    Valid(p) => /\ Allowed(p, c)
                /\ p.mode # "disabled" /\ c.mount = "rw" /\ p.entries # << >> =>
                     Resolve(peGlobal.entries) # "readonly"

PeReading == {"validate", "allowed", "refused", "enforced"}
PeWriting == {"set", "session", "remove", "close"}

\* What a call carries.
PeCallOK(c) ==
    /\ c.op \in {"none", "error"} \cup PeWriting \cup PeReading
    /\ c.op = "none" => c = PeIdle
    /\ c.op = "set" => c.policy \in GlobalPolicies
    /\ c.op = "session" => c.policy \in SessionPolicies
    /\ c.op \in PeReading => c \in [op : PeReading, config : PeConfigs]

\* The locks of a caller, and what its steps have established under them.
PeCaller(t) ==
    /\ PeCallOK(peCall[t])
    /\ peReads[t] = IF peCall[t].op \in {"validate", "enforced", "error"} THEN 1
                    ELSE IF peCall[t].op \in {"allowed", "refused"} THEN 2 ELSE 0
    /\ t \in peWaits <=> peCall[t].op \in PeWriting
    /\ peCall[t].op = "allowed" => Allowed(Applicable, peCall[t].config)
    /\ peCall[t].op = "enforced" => Conforms(Applicable, peCall[t].config)

\* The inductive invariant.
PeIInv ==
    /\ peGlobal \in GlobalPolicies /\ peSession \in SessionPolicies \cup {NoPolicy}
    /\ peClosed \in BOOLEAN /\ peWaits \subseteq PeCallers
    /\ DOMAIN peCall = PeCallers /\ DOMAIN peReads = PeCallers
    /\ \A t \in PeCallers : PeCaller(t)

\* The policy that applies is one, also when a session's is merged into it.
LEMMA ApplicableIsPolicy ==
    ASSUME PeIInv PROVE Applicable \in Policies
<1>1. peGlobal \in Policies /\ (peSession # NoPolicy => peSession \in Policies)
  BY PeAssumption DEF PeIInv
<1>2. ASSUME NEW p \in Policies, NEW o \in Policies PROVE Merge(p, o) \in Policies
  BY DEF Merge, Policies
<1> QED
  BY <1>1, <1>2 DEF Applicable

\* Nothing is violated when none of the six rules is.
LEMMA NothingViolated ==
    ASSUME NEW p, NEW c
    PROVE  Violations(p, c) = {} <=>
             /\ ~(c.cpu > 0 /\ p.max # 0 /\ c.cpu > p.max)
             /\ ~(c.cpu > 0 /\ p.min # 0 /\ c.cpu < p.min)
             /\ ~(c.mount # "none" /\ ~p.bind)
             /\ ~(c.mount # "none" /\ p.bind
                    /\ ~(IF p.entries # << >> THEN Resolve(peGlobal.entries) # "denied" ELSE PathAllowed(p)))
             /\ ~(p.ro /\ ~c.ro)
             /\ ~(~p.net /\ c.net # "none")
<1>1. \A P1, P2, P3, P4, P5, P6 \in BOOLEAN :
        (({r \in {"quota.cpu.max"} : P1} \cup {r \in {"quota.cpu.min"} : P2})
           \cup ({r \in {"mount.bind.disabled"} : P3} \cup {r \in {"mount.bind.source_not_allowed"} : P4}
                   \cup {r \in {"mount.readonly_rootfs.required"} : P5})
           \cup {r \in {"network.disabled"} : P6}) = {} <=>
        ~P1 /\ ~P2 /\ ~P3 /\ ~P4 /\ ~P5 /\ ~P6
  OBVIOUS
<1> QED
  BY <1>1 DEF Violations, QuotaViolations, MountViolations, NetworkViolations

\* What was allowed still is once it is constrained, and no mount is left writable that
\* the allowlist makes read-only.
LEMMA ConstrainConforms ==
    ASSUME NEW p \in Policies, NEW c \in PeConfigs, Allowed(p, c)
    PROVE  Constrain(p, c) \in PeConfigs /\ Conforms(p, Constrain(p, c))
<1>1. CASE p.mode = "disabled"
  BY <1>1 DEF Constrain, Conforms
<1>2. CASE p.mode # "disabled"
  <2> DEFINE cpu == IF c.cpu = 0 THEN p.max ELSE c.cpu
  <2> DEFINE mount == IF c.mount = "rw" /\ p.entries # << >> /\ Resolve(peGlobal.entries) = "readonly"
                      THEN "ro" ELSE c.mount
  <2> DEFINE d == [c EXCEPT !.cpu = cpu, !.ro = c.ro \/ p.ro, !.mount = mount]
  <2>1. Constrain(p, c) = d
    BY <1>2 DEF Constrain
  <2>2. /\ c.cpu \in Int /\ c.net \in {"none", "bridge"} /\ c.mount \in {"none", "ro", "rw"} /\ c.ro \in BOOLEAN
        /\ p.max \in Int /\ p.min \in Int /\ p.ro \in BOOLEAN
    BY DEF PeConfigs, Policies
  <2>3. cpu \in Int /\ mount \in {"none", "ro", "rw"} /\ (c.ro \/ p.ro) \in BOOLEAN
    BY <2>2
  <2>4. mount # "none" => c.mount # "none"
    OBVIOUS
  <2>5. mount = "rw" => ~(p.entries # << >> /\ Resolve(peGlobal.entries) = "readonly")
    OBVIOUS
  <2>6. Valid(p) /\ ~(c.cpu > 0 /\ p.max # 0 /\ c.cpu > p.max) /\ ~(c.cpu > 0 /\ p.min # 0 /\ c.cpu < p.min) =>
          ~(cpu > 0 /\ p.max # 0 /\ cpu > p.max) /\ ~(cpu > 0 /\ p.min # 0 /\ cpu < p.min)
    BY <2>2 DEF Valid
  <2> HIDE DEF cpu, mount
  <2>7. d.cpu = cpu /\ d.mount = mount /\ d.net = c.net /\ d.ro = (c.ro \/ p.ro) /\ d \in PeConfigs
    BY <2>2, <2>3 DEF PeConfigs
  <2> HIDE DEF d
  <2>8. ASSUME Valid(p), p.mode = "strict" PROVE Violations(p, d) = {}
    <3>1. Violations(p, c) = {}
      BY <2>8 DEF Allowed
    <3>2. /\ ~(c.cpu > 0 /\ p.max # 0 /\ c.cpu > p.max) /\ ~(c.cpu > 0 /\ p.min # 0 /\ c.cpu < p.min)
          /\ ~(c.mount # "none" /\ ~p.bind)
          /\ ~(c.mount # "none" /\ p.bind
                 /\ ~(IF p.entries # << >> THEN Resolve(peGlobal.entries) # "denied" ELSE PathAllowed(p)))
          /\ ~(~p.net /\ c.net # "none")
      BY <3>1, NothingViolated
    <3>3. ~(d.cpu > 0 /\ p.max # 0 /\ d.cpu > p.max) /\ ~(d.cpu > 0 /\ p.min # 0 /\ d.cpu < p.min)
      BY <2>6, <2>7, <2>8, <3>2
    <3>4. /\ ~(d.mount # "none" /\ ~p.bind)
          /\ ~(d.mount # "none" /\ p.bind
                 /\ ~(IF p.entries # << >> THEN Resolve(peGlobal.entries) # "denied" ELSE PathAllowed(p)))
      BY <2>4, <2>7, <3>2
    <3>5. ~(p.ro /\ ~d.ro) /\ ~(~p.net /\ d.net # "none")
      BY <2>7, <3>2
    <3> QED
      BY <3>3, <3>4, <3>5, NothingViolated
  <2>9. Conforms(p, d)
    BY <2>5, <2>7, <2>8 DEF Conforms, Allowed
  <2> QED
    BY <2>1, <2>7, <2>9
<1> QED
  BY <1>1, <1>2

\* Hardening leaves a configuration.
LEMMA HardenTyped ==
    ASSUME NEW p, NEW c \in PeConfigs PROVE Harden(p, c) \in PeConfigs
BY DEF Harden, PeConfigs

\* A step that leaves the policies alone leaves what the other callers have.
LEMMA OthersKeep ==
    ASSUME PeIInv, NEW u \in PeCallers, UNCHANGED <<peGlobal, peSession>>,
           peCall'[u] = peCall[u], peReads'[u] = peReads[u], u \in peWaits' <=> u \in peWaits
    PROVE  PeCaller(u)'
<1>1. PeCaller(u)
  BY DEF PeIInv
<1>2. Applicable' = Applicable
  BY DEF Applicable
<1>3. \A p, c : (Allowed(p, c)' <=> Allowed(p, c)) /\ (Conforms(p, c)' <=> Conforms(p, c))
  BY DEF Allowed, Conforms, Violations, MountViolations
<1> QED
  BY <1>1, <1>2 DEF PeCaller, Allowed, Conforms, Violations, MountViolations

\* A caller begins to wait for the write lock.
LEMMA PeWriteBegin ==
    ASSUME PeIInv, NEW t \in PeCallers, WriteBegin(t) PROVE PeIInv'
<1>1. PICK op \in {[op |-> "set", policy |-> p] : p \in GlobalPolicies} \cup
                  {[op |-> "session", policy |-> p] : p \in SessionPolicies} \cup
                  {[op |-> "remove"], [op |-> "close"]} : peCall' = [peCall EXCEPT ![t] = op]
  BY DEF WriteBegin
<1>2. op.op \in PeWriting /\ PeCallOK(op)
  BY <1>1 DEF PeWriting, PeReading, PeCallOK
<1>3. PeCaller(t)'
  BY <1>1, <1>2 DEF WriteBegin, PeIInv, PeCaller, PeIdle, PeWriting, PeReading
<1>4. \A u \in PeCallers \ {t} : PeCaller(u)'
  BY <1>1, OthersKeep DEF WriteBegin, PeIInv
<1> QED
  BY <1>1, <1>3, <1>4 DEF PeIInv, WriteBegin

\* It gets it when nobody reads: what readers have established is not touched.
LEMMA PeWritePolicy ==
    ASSUME PeIInv, NEW t \in PeCallers, WritePolicy(t) PROVE PeIInv'
<1>1. peGlobal' \in GlobalPolicies /\ peSession' \in SessionPolicies \cup {NoPolicy} /\ peClosed' \in BOOLEAN
  <2>1. PeCallOK(peCall[t])
    BY DEF PeIInv, PeCaller
  <2> QED
    BY <2>1 DEF WritePolicy, PeIInv, PeCallOK
<1>2. ASSUME NEW u \in PeCallers PROVE PeCaller(u)'
  <2>1. PeCaller(u) /\ peReads[u] = 0
    BY DEF PeIInv, WritePolicy, CanWriteLock
  <2>2. CASE u = t
    BY <2>2, <2>1 DEF WritePolicy, PeIInv, PeCaller, PeCallOK, PeIdle, PeReading, PeWriting
  <2>3. CASE u # t
    <3>1. peCall'[u] = peCall[u] /\ peReads'[u] = peReads[u] /\ (u \in peWaits' <=> u \in peWaits)
      BY <2>3 DEF WritePolicy, PeIInv
    <3>2. peCall[u].op \notin {"allowed", "enforced", "validate", "refused", "error"}
      BY <2>1 DEF PeCaller
    <3> QED
      BY <2>1, <3>1, <3>2 DEF PeCaller
  <2> QED
    BY <2>2, <2>3
<1> QED
  BY <1>1, <1>2 DEF PeIInv, WritePolicy

\* The outer read lock of EnforceContainerConfig.
LEMMA PeEnforceOuter ==
    ASSUME PeIInv, NEW t \in PeCallers, EnforceOuter(t) PROVE PeIInv'
<1> DEFINE call(c) == IF Applicable.mode = "disabled" THEN [op |-> "enforced", config |-> c]
                      ELSE [op |-> "validate", config |-> Harden(Applicable, c)]
<1>1. PICK c \in Configs : peCall' = [peCall EXCEPT ![t] = call(c)]
  BY DEF EnforceOuter
<1>2. c \in PeConfigs /\ Harden(Applicable, c) \in PeConfigs
  BY PeAssumption, HardenTyped DEF PeConfigs
<1>3. PICK x \in [op : {"enforced", "validate"}, config : PeConfigs] :
        peCall' = [peCall EXCEPT ![t] = x] /\ (x.op = "enforced" => Applicable.mode = "disabled")
  <2>1. call(c) \in [op : {"enforced", "validate"}, config : PeConfigs] /\ (call(c).op = "enforced" => Applicable.mode = "disabled")
    BY <1>2
  <2> HIDE DEF call
  <2> QED
    BY <1>1, <2>1
<1>4. UNCHANGED <<peGlobal, peSession, peClosed, peWaits>> /\ peReads' = [peReads EXCEPT ![t] = @ + 1]
      /\ peReads[t] = 0 /\ t \notin peWaits
  BY DEF EnforceOuter, ReadLock, PeIInv, PeCaller, PeIdle, PeWriting
<1>5. PeCaller(t)'
  <2>1. peCall'[t] = x /\ peReads'[t] = 1
    BY <1>3, <1>4 DEF PeIInv
  <2>2. Applicable' = Applicable
    BY <1>4 DEF Applicable
  <2>3. x.op = "enforced" => Conforms(Applicable, peCall[t].config)'
    BY <1>3, <2>2 DEF Conforms, Allowed
  <2>4. PeCallOK(x) /\ x.op \in {"enforced", "validate"}
    BY <1>3 DEF PeCallOK, PeReading, PeWriting
  <2> QED
    BY <1>4, <2>1, <2>3, <2>4 DEF PeCaller, PeCallOK, PeWriting
<1>6. \A u \in PeCallers \ {t} : PeCaller(u)'
  BY <1>3, <1>4, OthersKeep DEF PeIInv
<1> QED
  BY <1>3, <1>4, <1>5, <1>6 DEF PeIInv

\* The inner one, under which the configuration is validated.
LEMMA PeEnforceInner ==
    ASSUME PeIInv, NEW t \in PeCallers, EnforceInner(t) PROVE PeIInv'
<1> DEFINE o == IF Allowed(Applicable, peCall[t].config) THEN "allowed" ELSE "refused"
<1>1. /\ peCall' = [peCall EXCEPT ![t].op = o] /\ peReads' = [peReads EXCEPT ![t] = @ + 1]
      /\ UNCHANGED <<peGlobal, peSession, peClosed, peWaits>> /\ peCall[t].op = "validate"
  BY DEF EnforceInner, ReadLock
<1>2. PeCaller(t)
  BY DEF PeIInv
<1>3. peCall[t] \in [op : PeReading, config : PeConfigs] /\ peReads[t] = 1 /\ t \notin peWaits
  BY <1>1, <1>2 DEF PeCaller, PeCallOK, PeReading, PeWriting
<1>4. o \in {"allowed", "refused"} /\ (o = "allowed" => Allowed(Applicable, peCall[t].config))
  OBVIOUS
<1> HIDE DEF o
<1>5. peCall'[t].op = o /\ peCall'[t].config = peCall[t].config /\ peCall'[t] \in [op : PeReading, config : PeConfigs]
      /\ peReads'[t] = 2
  BY <1>1, <1>3, <1>4 DEF PeIInv, PeReading
<1>6. Applicable' = Applicable
  BY <1>1 DEF Applicable
<1>7. o = "allowed" => Allowed(Applicable, peCall[t].config)'
  <2>1. o = "allowed" => Allowed(Applicable', peCall'[t].config)
    BY <1>4, <1>5, <1>6
  <2> QED
    BY <1>1, <1>4, <1>5, <1>6 DEF Allowed, Violations, MountViolations
<1>8. PeCaller(t)'
  BY <1>1, <1>3, <1>4, <1>5, <1>7 DEF PeCaller, PeCallOK, PeReading, PeWriting
<1>9. \A u \in PeCallers \ {t} : PeCaller(u)'
  BY <1>1, OthersKeep DEF PeIInv
<1> QED
  BY <1>1, <1>8, <1>9 DEF PeIInv

\* The inner lock is given back; an allowed configuration is constrained.
LEMMA PeValidated ==
    ASSUME PeIInv, NEW t \in PeCallers, Validated(t) PROVE PeIInv'
<1>1. /\ peReads' = [peReads EXCEPT ![t] = @ - 1]
      /\ UNCHANGED <<peGlobal, peSession, peClosed, peWaits>> /\ peCall[t].op \in {"allowed", "refused"}
  BY DEF Validated, Unlock
<1>2. PeCaller(t) /\ Applicable \in Policies
  BY ApplicableIsPolicy DEF PeIInv
<1>3. peCall[t] \in [op : PeReading, config : PeConfigs] /\ peReads[t] = 2 /\ t \notin peWaits
  BY <1>1, <1>2 DEF PeCaller, PeCallOK, PeReading, PeWriting
<1>4. PICK d \in PeConfigs : d = Constrain(Applicable, peCall[t].config) /\ (peCall[t].op = "allowed" => Conforms(Applicable, d))
  <2>1. peCall[t].config \in PeConfigs
    BY <1>3
  <2>2. CASE peCall[t].op = "allowed"
    BY <1>2, <2>1, <2>2, ConstrainConforms DEF PeCaller
  <2>3. CASE peCall[t].op # "allowed"
    <3>1. Constrain(Applicable, peCall[t].config) \in PeConfigs
      BY <1>2, <2>1 DEF Constrain, PeConfigs, Policies
    <3> QED
      BY <2>3, <3>1
  <2> QED
    BY <2>2, <2>3
<1>5. PICK x : /\ peCall' = [peCall EXCEPT ![t] = x]
               /\ x = IF peCall[t].op = "allowed" THEN [op |-> "enforced", config |-> d] ELSE [op |-> "error"]
  BY <1>4 DEF Validated
<1>6. PeCallOK(x) /\ x.op \in {"enforced", "error"} /\ (x.op = "enforced" => Conforms(Applicable, x.config))
  BY <1>4, <1>5 DEF PeCallOK, PeReading, PeWriting
<1>7. peCall'[t] = x /\ peReads'[t] = 1
  BY <1>1, <1>3, <1>5 DEF PeIInv
<1>8. Applicable' = Applicable
  BY <1>1 DEF Applicable
<1>9. x.op = "enforced" => Conforms(Applicable, peCall[t].config)'
  <2>1. \A p, c : Conforms(p, c) => Conforms(p, c)'
    BY <1>1 DEF Conforms, Allowed, Violations, MountViolations
  <2>2. x.op = "enforced" => Conforms(Applicable', peCall'[t].config)
    BY <1>6, <1>7, <1>8
  <2> QED
    BY <1>1, <2>2 DEF Conforms, Allowed, Violations, MountViolations
<1>10. PeCaller(t)'
  BY <1>1, <1>3, <1>6, <1>7, <1>9 DEF PeCaller, PeCallOK, PeWriting
<1>11. \A u \in PeCallers \ {t} : PeCaller(u)'
  BY <1>1, <1>5, OthersKeep DEF PeIInv
<1> QED
  BY <1>1, <1>5, <1>10, <1>11 DEF PeIInv

\* The caller has the result.
LEMMA PeEnforceReturn ==
    ASSUME PeIInv, NEW t \in PeCallers, EnforceReturn(t) PROVE PeIInv'
<1>1. /\ peReads' = [peReads EXCEPT ![t] = @ - 1] /\ peCall' = [peCall EXCEPT ![t] = PeIdle]
      /\ UNCHANGED <<peGlobal, peSession, peClosed, peWaits>> /\ peCall[t].op \in {"enforced", "error"}
  BY DEF EnforceReturn, Unlock
<1>2. peReads[t] = 1 /\ t \notin peWaits
  BY <1>1 DEF PeIInv, PeCaller, PeWriting
<1>3. peCall'[t] = PeIdle /\ peReads'[t] = 0
  BY <1>1, <1>2 DEF PeIInv
<1>4. PeCaller(t)'
  BY <1>1, <1>2, <1>3 DEF PeCaller, PeCallOK, PeIdle, PeReading, PeWriting
<1>5. \A u \in PeCallers \ {t} : PeCaller(u)'
  BY <1>1, OthersKeep DEF PeIInv
<1> QED
  BY <1>1, <1>4, <1>5 DEF PeIInv

\* The invariant holds from the start.
LEMMA PeHolds == PeSpec => []PeIInv
<1>1. PeInit => PeIInv
  <2> SUFFICES ASSUME PeInit PROVE PeIInv
    OBVIOUS
  <2>1. \A t \in PeCallers : peCall[t] = PeIdle /\ peReads[t] = 0 /\ t \notin peWaits
    BY DEF PeInit
  <2>2. PeCallOK(PeIdle) /\ PeIdle.op = "none" /\ "none" \notin PeWriting
    BY DEF PeCallOK, PeIdle, PeReading, PeWriting
  <2>3. \A t \in PeCallers : PeCaller(t)
    BY <2>1, <2>2 DEF PeCaller
  <2> QED
    BY <2>3, PeAssumption DEF PeInit, PeIInv
<1>2. ASSUME PeIInv, UNCHANGED peVars PROVE PeIInv'
  <2>1. \A t \in PeCallers : PeCaller(t)'
    BY <1>2, OthersKeep DEF peVars
  <2> QED
    BY <1>2, <2>1 DEF PeIInv, peVars
<1>3. PeIInv /\ [PeNext]_peVars => PeIInv'
  BY <1>2, PeWriteBegin, PeWritePolicy, PeEnforceOuter, PeEnforceInner, PeValidated, PeEnforceReturn DEF PeNext, PeStep
<1> QED
  BY <1>1, <1>3, PTL DEF PeSpec

\* The rank of an entry is read off from whom it is for.
LEMMA RanksDiffer ==
    /\ \A f \in {"user", "group", "all", "other"} : Priority[f] \in 0..3
    /\ \A f, g \in {"user", "group", "all", "other"} : Priority[f] = Priority[g] => f = g
BY DEF Priority

\* An entry of the highest rank decides, if it is the only one of that rank.
LEMMA ResolveIsBest ==
    ASSUME NEW n \in Nat, NEW e, DOMAIN e = 1..n,
           NEW b \in 1..n, Priority[e[b].for] > 0,
           \A j \in 1..n : j # b => Priority[e[b].for] > Priority[e[j].for],
           \A j \in 1..n : Priority[e[j].for] \in 0..3
    PROVE  Resolve(e) = e[b].mode
<1> DEFINE own == {i \in DOMAIN e : Priority[e[i].for] > 0}
<1> DEFINE P(i) == \A j \in own : \/ Priority[e[i].for] > Priority[e[j].for]
                                  \/ Priority[e[i].for] = Priority[e[j].for] /\ i <= j
<1> DEFINE F(i) == Priority[e[i].for]
<1>5. \A j \in 1..n : F(j) \in 0..3 /\ (j # b => F(b) > F(j))
  OBVIOUS
<1>6. own = {i \in 1..n : F(i) > 0} /\ F(b) > 0 /\ b \in Nat
  OBVIOUS
<1>7. \A i : P(i) <=> \A j \in own : F(i) > F(j) \/ (F(i) = F(j) /\ i <= j)
  OBVIOUS
<1> HIDE DEF own, P, F
<1>1. b \in own /\ P(b)
  <2>1. b \in own
    BY <1>6
  <2>2. \A j \in own : F(b) > F(j) \/ (F(b) = F(j) /\ b <= j)
    BY <1>5, <1>6
  <2> QED
    BY <2>1, <2>2, <1>7
<1>2. \A i \in own : P(i) => i = b
  <2> SUFFICES ASSUME NEW i \in own, P(i), i # b PROVE FALSE
    OBVIOUS
  <2>1. F(b) > F(i) /\ F(i) \in Int /\ F(b) \in Int
    BY <1>5, <1>6
  <2>2. F(i) > F(b) \/ F(i) = F(b)
    BY <1>1, <1>7
  <2> QED
    BY <2>1, <2>2
<1>3. (CHOOSE i \in own : P(i)) = b
  BY <1>1, <1>2
<1>4. Resolve(e) = e[CHOOSE i \in own : P(i)].mode
  BY <1>1 DEF Resolve, own, P
<1> QED
  BY <1>3, <1>4

\* Entries of different ranks have the same best one in any order.
LEMMA BestAnyOrder ==
    ASSUME NEW n \in Nat, NEW e, DOMAIN e = 1..n, NEW r, DOMAIN r = 1..n,
           \A i \in 1..n : e[i].for \in {"user", "group", "all", "other"},
           \A i \in 1..n : r[i] = e[n + 1 - i],
           \A i, j \in 1..n : i # j => e[i].for # e[j].for
    PROVE  Resolve(r) = Resolve(e)
<1> DEFINE F(i) == Priority[e[i].for]
<1>1. \A i \in 1..n : F(i) \in 0..3 /\ n + 1 - i \in 1..n
  BY RanksDiffer
<1>2. \A i, j \in 1..n : F(i) = F(j) => i = j
  BY RanksDiffer
<1> HIDE DEF F
<1>3. CASE \A i \in 1..n : F(i) = 0
  <2>1. {i \in DOMAIN e : Priority[e[i].for] > 0} = {}
    BY <1>3 DEF F
  <2>2. {i \in DOMAIN r : Priority[r[i].for] > 0} = {}
    BY <1>1, <1>3 DEF F
  <2> QED
    BY <2>1, <2>2 DEF Resolve
<1>4. CASE \E i \in 1..n : F(i) # 0
  <2>1. PICK b \in 1..n : F(b) > 0 /\ \A j \in 1..n : F(b) >= F(j)
    <3>1. CASE \E i \in 1..n : F(i) = 3
      BY <1>1, <3>1
    <3>2. CASE (\A i \in 1..n : F(i) # 3) /\ \E i \in 1..n : F(i) = 2
      <4>1. PICK b \in 1..n : F(b) = 2
        BY <3>2
      <4>2. \A j \in 1..n : F(j) \in 0..2
        BY <1>1, <3>2
      <4> QED
        BY <4>1, <4>2
    <3>3. CASE \A i \in 1..n : F(i) # 3 /\ F(i) # 2
      BY <1>1, <1>4, <3>3
    <3> QED
      BY <3>1, <3>2, <3>3
  <2>2. \A j \in 1..n : j # b => F(b) > F(j)
    BY <1>1, <1>2, <2>1
  <2>3. Resolve(e) = e[b].mode
    <3>1. \A j \in 1..n : Priority[e[j].for] \in 0..3
      BY <1>1 DEF F
    <3>2. \A j \in 1..n : j # b => Priority[e[b].for] > Priority[e[j].for]
      BY <2>2 DEF F
    <3>3. Priority[e[b].for] > 0
      BY <2>1 DEF F
    <3> QED
      <4>1. DOMAIN e = 1..n /\ b \in 1..n /\ n \in Nat
        OBVIOUS
      <4> HIDE DEF F
      <4> QED
        BY ONLY <3>1, <3>2, <3>3, <4>1, ResolveIsBest
  <2> DEFINE k == n + 1 - b
  <2>4. k \in 1..n /\ n + 1 - k = b /\ r[k] = e[b]
    BY <1>1
  <2>5. \A j \in 1..n : Priority[r[j].for] = F(n + 1 - j)
    BY DEF F
  <2>6. Priority[r[k].for] = F(b)
    BY <2>4, <2>5
  <2>7. \A j \in 1..n : j # k => n + 1 - j \in 1..n /\ n + 1 - j # b
    BY <1>1
  <2> HIDE DEF k
  <2>8. Resolve(r) = r[k].mode
    <3>1. \A j \in 1..n : Priority[r[j].for] \in 0..3
      BY <1>1, <2>5
    <3>2. \A j \in 1..n : j # k => Priority[r[k].for] > Priority[r[j].for]
      BY <2>2, <2>5, <2>6, <2>7
    <3>3. Priority[r[k].for] > 0
      BY <2>1, <2>6
    <3>4. DOMAIN r = 1..n /\ k \in 1..n /\ n \in Nat
      BY <2>4
    <3> QED
      BY ONLY <3>1, <3>2, <3>3, <3>4, ResolveIsBest
  <2> QED
    BY <2>3, <2>4, <2>8
<1> QED
  BY <1>1, <1>3, <1>4

\* What the enforcer promises follows from the invariant.
LEMMA EnforcerSafe ==
    ASSUME PeIInv PROVE PeTypeOK /\ EnforcedConforms /\ OrderIsNoMatter /\ EnforcerStuckOnlySo
<1>1. PeTypeOK
  BY DEF PeIInv, PeTypeOK, PeCaller, PeWriting
<1>2. EnforcedConforms
  <2> DEFINE p == Applicable
  <2> SUFFICES ASSUME NEW t \in PeCallers, peCall[t].op = "enforced", Valid(p)
               PROVE  LET c == peCall[t].config IN
                      /\ p.mode = "strict" =>
                           /\ c.cpu > 0 => (p.max # 0 => c.cpu <= p.max) /\ (p.min # 0 => p.min <= c.cpu)
                           /\ ~p.net => c.net = "none"
                           /\ p.ro => c.ro
                           /\ c.mount # "none" => p.bind /\ (SessionAllowlist \/ MountMode(p) # "denied")
                      /\ p.mode # "disabled" /\ c.mount = "rw" => SessionAllowlist \/ MountMode(p) # "readonly"
    BY DEF EnforcedConforms
  <2> DEFINE c == peCall[t].config
  <2>1. /\ p.mode = "strict" => Violations(p, c) = {}
        /\ p.mode # "disabled" /\ c.mount = "rw" /\ p.entries # << >> => Resolve(peGlobal.entries) # "readonly"
    BY DEF PeIInv, PeCaller, Conforms, Allowed
  <2>2. p \in Policies /\ c \in PeConfigs
    <3>1. peCall[t] \in [op : PeReading, config : PeConfigs]
      BY DEF PeIInv, PeCaller, PeCallOK, PeReading
    <3> QED
      BY <3>1, ApplicableIsPolicy
  <2>3. ~SessionAllowlist => p.entries = peGlobal.entries
    <3>1. CASE peSession = NoPolicy
      BY <3>1 DEF Applicable
    <3>2. CASE peSession # NoPolicy
      <4>1. peSession \in Policies
        BY <3>2, PeAssumption DEF PeIInv
      <4>2. Merge(peGlobal, peSession).entries = IF peSession.entries # << >> THEN peSession.entries ELSE peGlobal.entries
        BY <4>1 DEF Merge, Policies
      <4> QED
        BY <3>2, <4>2 DEF Applicable, SessionAllowlist
    <3> QED
      BY <3>1, <3>2
  <2> HIDE DEF p, c
  <2>4. p.mode # "disabled" /\ c.mount = "rw" => SessionAllowlist \/ MountMode(p) # "readonly"
    BY <2>1, <2>3 DEF MountMode
  <2>5. ASSUME p.mode = "strict"
        PROVE  /\ c.cpu > 0 => (p.max # 0 => c.cpu <= p.max) /\ (p.min # 0 => p.min <= c.cpu)
               /\ ~p.net => c.net = "none"
               /\ p.ro => c.ro
               /\ c.mount # "none" => p.bind /\ (SessionAllowlist \/ MountMode(p) # "denied")
    <3>1. /\ ~(c.cpu > 0 /\ p.max # 0 /\ c.cpu > p.max)
          /\ ~(c.cpu > 0 /\ p.min # 0 /\ c.cpu < p.min)
          /\ ~(c.mount # "none" /\ ~p.bind)
          /\ ~(c.mount # "none" /\ p.bind
                 /\ ~(IF p.entries # << >> THEN Resolve(peGlobal.entries) # "denied" ELSE PathAllowed(p)))
          /\ ~(p.ro /\ ~c.ro)
          /\ ~(~p.net /\ c.net # "none")
      BY <2>1, <2>5, NothingViolated
    <3>2. c.cpu \in Int /\ p.max \in Int /\ p.min \in Int
      BY <2>2 DEF PeConfigs, Policies
    <3>3. c.cpu > 0 => (p.max # 0 => c.cpu <= p.max) /\ (p.min # 0 => p.min <= c.cpu)
      BY <3>1, <3>2
    <3>4. c.mount # "none" => p.bind /\ (SessionAllowlist \/ MountMode(p) # "denied")
      BY <2>3, <3>1 DEF MountMode
    <3> QED
      BY <3>1, <3>3, <3>4
  <2> QED
    BY <2>4, <2>5 DEF c
<1>3. OrderIsNoMatter
  <2> DEFINE e == peGlobal.entries
  <2> SUFFICES ASSUME \A i, j \in DOMAIN e : i # j => e[i].for # e[j].for
               PROVE  Resolve([i \in DOMAIN e |-> e[Len(e) + 1 - i]]) = Resolve(e)
    BY DEF OrderIsNoMatter
  <2> DEFINE S == [for : {"user", "group", "all", "other"}, mode : {"readonly", "readwrite", "denied"}]
  <2>1. e \in Seq(S)
    BY PeAssumption DEF PeIInv, Policies
  <2> HIDE DEF e, S
  <2>2. Len(e) \in Nat /\ DOMAIN e = 1..Len(e) /\ \A i \in 1..Len(e) : e[i] \in S
    BY <2>1, LenProperties, ElementOfSeq
  <2> DEFINE r == [i \in DOMAIN e |-> e[Len(e) + 1 - i]]
  <2>5. DOMAIN r = 1..Len(e) /\ \A i \in 1..Len(e) : r[i] = e[Len(e) + 1 - i]
    BY <2>2
  <2>6. \A i, j \in 1..Len(e) : i # j => e[i].for # e[j].for
    BY <2>2
  <2> HIDE DEF r
  <2>7. Resolve(r) = Resolve(e)
    <3>1. \A i \in 1..Len(e) : e[i].for \in {"user", "group", "all", "other"}
      BY <2>2 DEF S
    <3> QED
      BY <2>2, <2>5, <2>6, <3>1, BestAnyOrder
  <2> QED
    BY <2>7 DEF r
<1>4. EnforcerStuckOnlySo
  <2> DEFINE busy == {t \in PeCallers : peCall[t] # PeIdle}
  <2> SUFFICES ASSUME busy # {}, \A t \in busy : Waits(t)
               PROVE  peWaits # {} /\ \E t \in busy : peCall[t].op = "validate"
    BY DEF EnforcerStuckOnlySo
  <2>1. \A t \in PeCallers : peReads[t] # 0 => t \in busy /\ t \notin peWaits
    BY DEF PeIInv, PeCaller, PeIdle, PeWriting
  <2>2. CASE peWaits = {}
    BY <2>2 DEF Waits, CanReadLock
  <2>3. CASE peWaits # {}
    <3>1. PICK t \in busy : t \in peWaits
      BY <2>3 DEF PeIInv, PeCaller, PeIdle, PeWriting
    <3>2. CASE peCall[t].op = "validate"
      BY <2>3, <3>2
    <3>3. CASE peCall[t].op # "validate"
      <4>1. PICK u \in PeCallers : peReads[u] # 0
        BY <3>1, <3>3 DEF Waits, CanWriteLock
      <4> QED
        BY <2>1, <2>3, <4>1 DEF Waits
    <3> QED
      BY <3>2, <3>3
  <2> QED
    BY <2>2, <2>3
<1> QED
  BY <1>1, <1>2, <1>3, <1>4

-----------------------------------------------------------------------------
(* The policy in force: the reloaders.                                     *)

RlAt == {"none", "begin", "load", "callbacks"}
RlFlying(r) == reload[r].at \in {"load", "callbacks"}

RlTypes ==
    /\ rlState \in ReloadState
    /\ rlStarted \in BOOLEAN /\ rlLive \in BOOLEAN /\ hangup \in BOOLEAN /\ overlapped \in BOOLEAN
    /\ handlers \in 0..2
    /\ file \in [version : Version, ok : BOOLEAN]
    /\ current \in Version /\ applied \in [1..Consumers -> Version]
    /\ reload \in [Reloads -> [at : RlAt, version : Version, next : 1..Consumers + 1]]

\* Until a Stop comes in between, one Reload is in flight at most, and the state says so.
OneFlies ==
    /\ rlState = "reloading" <=> InFlight
    /\ \A r, q \in Reloads : RlFlying(r) /\ RlFlying(q) => r = q

\* What callbacks accepted lies between what is shown and the file, and what a Reload
\* brings them is as new as any of it; those it has passed have it.
InBetween ==
    /\ current <= file.version
    /\ \A c \in 1..Consumers : current <= applied[c] /\ applied[c] <= file.version
    /\ \A r \in Reloads : reload[r].at = "callbacks" =>
         /\ current <= reload[r].version /\ reload[r].version <= file.version
         /\ \A c \in 1..Consumers : applied[c] <= reload[r].version
         /\ \A c \in 1..reload[r].next - 1 : applied[c] = reload[r].version

\* A started reloader is not stopped, and one that is not lets Reloads run.
Listening ==
    /\ rlStarted => rlLive /\ handlers > 0 /\ rlState # "stopped"
    /\ ~rlLive => rlState = "stopped"

\* The inductive invariant.
RlIInv == RlTypes /\ (~overlapped => OneFlies /\ InBetween /\ Listening)

\* No step puts back an older version.
RlKeeps == ~overlapped => current' >= current /\ \A c \in 1..Consumers : applied'[c] >= applied[c]

\* Initially.
LEMMA RlStarts == RlInit => RlIInv
<1> SUFFICES ASSUME RlInit PROVE RlIInv
  OBVIOUS
<1>1. 0 \in Version /\ 1 \in 1..Consumers + 1 /\ "idle" \in ReloadState
  BY RlAssumption DEF Version, ReloadState
<1>2. NoReload \in [at : RlAt, version : Version, next : 1..Consumers + 1] /\ NoReload.at = "none"
  BY <1>1 DEF NoReload, RlAt
<1>3. RlTypes
  <2>1. file \in [version : Version, ok : BOOLEAN] /\ reload \in [Reloads -> [at : RlAt, version : Version, next : 1..Consumers + 1]]
    BY <1>1, <1>2 DEF RlInit
  <2>2. current \in Version /\ applied \in [1..Consumers -> Version] /\ handlers \in 0..2 /\ rlState \in ReloadState
    BY <1>1 DEF RlInit
  <2> QED
    BY <2>1, <2>2 DEF RlInit, RlTypes
<1>4. \A r \in Reloads : reload[r].at = "none"
  BY <1>2 DEF RlInit
<1>5. OneFlies
  BY <1>4 DEF RlInit, OneFlies, InFlight, RlFlying
<1>6. InBetween /\ Listening
  BY <1>4 DEF RlInit, InBetween, Listening
<1> QED
  BY <1>3, <1>5, <1>6 DEF RlIInv

\* Edits and signals.
LEMMA RlOutside ==
    ASSUME RlIInv, EditFile \/ Hangup PROVE RlIInv' /\ RlKeeps
<1>1. RlTypes' /\ file'.version >= file.version /\ file.version \in Int /\ file'.version \in Int
  <2>1. RlTypes
    BY DEF RlIInv
  <2>2. CASE EditFile
    <3>1. file.version \in 0..MaxEdits /\ file.version < MaxEdits
      BY <2>1, <2>2 DEF RlTypes, Version, EditFile
    <3>2. PICK ok \in BOOLEAN : file' = [version |-> file.version + 1, ok |-> ok]
      BY <2>2 DEF EditFile
    <3>3. file.version + 1 \in 0..MaxEdits
      BY <3>1, RlAssumption
    <3>4. file' \in [version : Version, ok : BOOLEAN] /\ file'.version = file.version + 1
      BY <3>2, <3>3 DEF Version
    <3> QED
      BY <2>1, <2>2, <3>1, <3>4 DEF RlTypes, EditFile
  <2>3. CASE Hangup
    BY <2>1, <2>3, RlAssumption DEF RlTypes, Hangup, Version
  <2> QED
    BY <2>2, <2>3
<1>2. UNCHANGED <<rlState, rlStarted, rlLive, handlers, current, applied, reload, overlapped>>
  BY DEF EditFile, Hangup
<1>3. RlKeeps
  BY <1>2 DEF RlKeeps, RlIInv, RlTypes, Version
<1>4. ASSUME ~overlapped PROVE InBetween'
  <2>1. InBetween /\ RlTypes
    BY <1>4 DEF RlIInv
  <2>2. \A v \in Version : v <= file.version => v <= file'.version
    BY <1>1 DEF Version
  <2>3. \A c \in 1..Consumers : applied[c] \in Version
    BY <2>1 DEF RlTypes
  <2>4. \A r \in Reloads : reload[r].version \in Version
    BY <2>1 DEF RlTypes
  <2> QED
    <3>1. current \in Version
      BY <2>1 DEF RlTypes
    <3>2. \A r \in Reloads : reload[r].at = "callbacks" =>
            /\ current <= reload[r].version /\ reload[r].version <= file'.version
            /\ \A c \in 1..Consumers : applied[c] <= reload[r].version
            /\ \A c \in 1..reload[r].next - 1 : applied[c] = reload[r].version
      BY <2>1, <2>2, <2>4 DEF InBetween
    <3>3. current <= file'.version /\ \A c \in 1..Consumers : current <= applied[c] /\ applied[c] <= file'.version
      BY <2>1, <2>2, <2>3, <3>1 DEF InBetween
    <3> QED
      BY <1>2, <3>2, <3>3 DEF InBetween
<1> QED
  BY <1>1, <1>2, <1>3, <1>4 DEF RlIInv, OneFlies, Listening, InFlight, RlFlying

\* Start, Stop and the goroutine that takes signals.
LEMMA RlControl ==
    ASSUME RlIInv, StartListening \/ StopListening \/ HandlerEnds PROVE RlIInv' /\ RlKeeps
<1>1. UNCHANGED <<hangup, file, current, applied, reload>>
  BY DEF StartListening, StopListening, HandlerEnds
<1>2. RlTypes'
  <2>1. RlTypes
    BY DEF RlIInv
  <2>2. /\ rlStarted' \in BOOLEAN /\ rlLive' \in BOOLEAN /\ overlapped' \in BOOLEAN
        /\ handlers' \in 0..2 /\ rlState' \in ReloadState
    <3>1. CASE StartListening
      BY <2>1, <3>1 DEF RlTypes, StartListening, ReloadState
    <3>2. CASE StopListening
      <4>1. InFlight \in BOOLEAN
        BY DEF InFlight
      <4> QED
        BY <2>1, <3>2, <4>1 DEF RlTypes, StopListening, ReloadState
    <3>3. CASE HandlerEnds
      BY <2>1, <3>3 DEF RlTypes, HandlerEnds, ReloadState
    <3> QED
      BY <3>1, <3>2, <3>3
  <2> QED
    BY <1>1, <2>1, <2>2 DEF RlTypes
<1>3. RlKeeps
  BY <1>1 DEF RlKeeps, RlIInv, RlTypes, Version
<1>4. ASSUME ~overlapped' PROVE ~overlapped /\ InBetween' /\ OneFlies' /\ Listening'
  <2>1. ~overlapped /\ OneFlies /\ InBetween /\ Listening /\ RlTypes
    <3>1. ~overlapped
      <4>1. CASE StopListening
        BY <1>4, <4>1 DEF StopListening
      <4>2. CASE StartListening \/ HandlerEnds
        BY <1>4, <4>2 DEF StartListening, HandlerEnds
      <4> QED
        BY <4>1, <4>2
    <3> QED
      BY <3>1 DEF RlIInv
  <2>2. InBetween'
    BY <1>1, <2>1 DEF InBetween
  <2>3. OneFlies'
    <3>1. rlState' = "reloading" <=> rlState = "reloading"
      BY <1>4, <2>1 DEF StartListening, StopListening, HandlerEnds, OneFlies
    <3> QED
      BY <1>1, <2>1, <3>1 DEF OneFlies, InFlight, RlFlying
  <2>4. Listening'
    <3>1. CASE StartListening
      <4>1. handlers' > 0 /\ rlState' # "stopped" /\ rlLive'
        <5>1. handlers' > 0
          BY <2>1, <3>1 DEF StartListening, RlTypes
        <5>2. rlState' # "stopped"
          BY <3>1 DEF StartListening
        <5>3. rlLive'
          BY <2>1, <3>1, Zenon DEF Listening, StartListening
        <5> QED
          BY <5>1, <5>2, <5>3
      <4> QED
        BY <4>1 DEF Listening
    <3>2. CASE StopListening
      BY <3>2 DEF Listening, StopListening
    <3>3. CASE HandlerEnds
      <4>1. ~rlLive /\ ~rlStarted
        BY <2>1, <3>3 DEF Listening, HandlerEnds
      <4> QED
        BY <2>1, <3>3, <4>1 DEF Listening, HandlerEnds
    <3> QED
      BY <3>1, <3>2, <3>3
  <2> QED
    BY <2>1, <2>2, <2>3, <2>4
<1> QED
  BY <1>2, <1>3, <1>4 DEF RlIInv

\* A Reload is put in a goroutine of its own.
LEMMA RlTake ==
    ASSUME RlIInv, TakeSignal PROVE RlIInv' /\ RlKeeps
<1>1. PICK r \in Reloads : reload[r].at = "none" /\ reload' = [reload EXCEPT ![r].at = "begin"]
  BY DEF TakeSignal
<1>2. UNCHANGED <<rlState, rlStarted, rlLive, handlers, file, current, applied, overlapped>> /\ hangup' = FALSE
  BY DEF TakeSignal
<1>3. RlTypes' /\ RlTypes
  <2>1. RlTypes
    BY DEF RlIInv
  <2>2. reload' \in [Reloads -> [at : RlAt, version : Version, next : 1..Consumers + 1]]
    BY <1>1, <2>1 DEF RlTypes, RlAt
  <2> QED
    BY <1>2, <2>1, <2>2 DEF RlTypes
<1>4. reload'[r].at = "begin" /\ \A q \in Reloads \ {r} : reload'[q] = reload[q]
  BY <1>1, <1>3 DEF RlTypes
<1>5. \A q \in Reloads : (RlFlying(q)' <=> RlFlying(q)) /\ (reload'[q].at = "callbacks" => reload'[q] = reload[q])
  BY <1>1, <1>4 DEF RlFlying
<1>6. InFlight' <=> InFlight
  BY <1>5 DEF InFlight, RlFlying
<1>7. RlKeeps
  BY <1>2, <1>3 DEF RlKeeps, RlTypes, Version
<1>8. ~overlapped => OneFlies' /\ InBetween' /\ Listening'
  BY <1>2, <1>5, <1>6 DEF RlIInv, OneFlies, InBetween, Listening
<1> QED
  BY <1>2, <1>3, <1>7, <1>8 DEF RlIInv

\* The other variables of a step of a Reload.
LEMMA RlFrame ==
    ASSUME NEW r \in Reloads, Begin(r) \/ LoadFromFile(r) \/ Callback(r) \/ Publish(r)
    PROVE  UNCHANGED <<rlStarted, rlLive, handlers, hangup, file>>
BY DEF Begin, LoadFromFile, Callback, Publish

\* A Reload begins, unless another is in flight.
LEMMA RlBegin ==
    ASSUME RlIInv, NEW r \in Reloads, Begin(r) PROVE RlIInv' /\ RlKeeps
<1>1. RlTypes /\ UNCHANGED <<rlStarted, rlLive, handlers, hangup, file, current, applied>>
  BY DEF RlIInv, Begin
<1>2. RlKeeps
  BY <1>1 DEF RlKeeps, RlTypes, Version
<1>3. reload[r] \in [at : RlAt, version : Version, next : 1..Consumers + 1] /\ reload[r].at = "begin"
  BY <1>1 DEF RlTypes, Begin
<1>4. CASE Busy /\ reload' = [reload EXCEPT ![r] = NoReload] /\ UNCHANGED <<rlState, overlapped>>
  <2>1. NoReload \in [at : RlAt, version : Version, next : 1..Consumers + 1] /\ NoReload.at = "none"
    BY RlAssumption DEF NoReload, RlAt, Version
  <2>2. reload'[r] = NoReload /\ \A q \in Reloads \ {r} : reload'[q] = reload[q]
    BY <1>1, <1>4 DEF RlTypes
  <2>3. RlTypes'
    BY <1>1, <1>4, <2>1 DEF RlTypes
  <2>4. \A q \in Reloads : (RlFlying(q)' <=> RlFlying(q)) /\ (reload'[q].at = "callbacks" => reload'[q] = reload[q])
    BY <1>3, <2>1, <2>2 DEF RlFlying
  <2>5. InFlight' <=> InFlight
    BY <2>4 DEF InFlight, RlFlying
  <2>6. ~overlapped => OneFlies' /\ InBetween' /\ Listening'
    BY <1>1, <1>4, <2>4, <2>5 DEF RlIInv, OneFlies, InBetween, Listening
  <2> QED
    BY <1>2, <1>4, <2>3, <2>6 DEF RlIInv
<1>5. CASE ~Busy /\ reload' = [reload EXCEPT ![r].at = "load"] /\ rlState' = "reloading"
           /\ overlapped' = (overlapped \/ rlState = "stopped")
  <2>1. reload'[r].at = "load" /\ \A q \in Reloads \ {r} : reload'[q] = reload[q]
    BY <1>1, <1>3, <1>5 DEF RlTypes
  <2>2. RlTypes'
    BY <1>1, <1>3, <1>5 DEF RlTypes, RlAt, ReloadState
  <2>3. ASSUME ~overlapped' PROVE OneFlies' /\ InBetween' /\ Listening'
    <3>1. ~overlapped /\ rlState # "stopped"
      BY <1>5, <2>3
    <3>2. OneFlies /\ InBetween /\ Listening /\ ~InFlight
      BY <1>5, <3>1 DEF RlIInv, OneFlies, Busy
    <3>3. \A q \in Reloads \ {r} : ~RlFlying(q)' /\ RlFlying(r)'
      BY <2>1, <3>2 DEF InFlight, RlFlying
    <3>4. OneFlies'
      BY <1>5, <2>1, <3>3 DEF OneFlies, InFlight, RlFlying
    <3>5. InBetween'
      BY <1>1, <2>1, <3>2 DEF InBetween
    <3>6. Listening'
      BY <1>1, <1>5, <3>1, <3>2 DEF Listening
    <3> QED
      BY <3>4, <3>5, <3>6
  <2> QED
    BY <1>2, <2>2, <2>3 DEF RlIInv
<1> QED
  BY <1>4, <1>5 DEF Begin

\* A Reload that ends leaves the state idle, and what callbacks accepted where it was.
LEMMA RlEnds ==
    ASSUME RlIInv, NEW r \in Reloads, RlFlying(r),
           reload' = [reload EXCEPT ![r] = NoReload], rlState' = "idle",
           UNCHANGED <<rlStarted, rlLive, handlers, hangup, file, overlapped>>,
           current' \in Version, applied' = applied,
           ~overlapped => /\ current' >= current /\ current' <= file.version
                          /\ \A c \in 1..Consumers : current' <= applied[c]
    PROVE  RlIInv' /\ RlKeeps
<1>1. RlTypes
  BY DEF RlIInv
<1>2. NoReload \in [at : RlAt, version : Version, next : 1..Consumers + 1] /\ NoReload.at = "none"
  BY RlAssumption DEF NoReload, RlAt, Version
<1>3. reload'[r] = NoReload /\ \A q \in Reloads \ {r} : reload'[q] = reload[q]
  BY <1>1 DEF RlTypes
<1>4. RlTypes'
  BY <1>1, <1>2 DEF RlTypes, ReloadState
<1>5. ASSUME ~overlapped PROVE OneFlies' /\ InBetween' /\ Listening'
  <2>1. OneFlies /\ InBetween /\ Listening
    BY <1>5 DEF RlIInv
  <2>2. \A q \in Reloads : ~RlFlying(q)'
    BY <1>2, <1>3, <2>1 DEF OneFlies, RlFlying
  <2>3. OneFlies'
    BY <2>2 DEF OneFlies, InFlight, RlFlying
  <2>4. InBetween'
    BY <1>5, <2>1, <2>2 DEF InBetween, RlFlying
  <2>5. Listening'
    BY <2>1 DEF Listening, OneFlies, InFlight, RlFlying
  <2> QED
    BY <2>3, <2>4, <2>5
<1>6. RlKeeps
  <2>1. \A c \in 1..Consumers : applied[c] >= applied[c]
    BY <1>1 DEF RlTypes, Version
  <2> QED
    BY <2>1 DEF RlKeeps
<1> QED
  BY <1>4, <1>5, <1>6 DEF RlIInv

\* It reads the newest version, or ends.
LEMMA RlLoad ==
    ASSUME RlIInv, NEW r \in Reloads, LoadFromFile(r) PROVE RlIInv' /\ RlKeeps
<1>1. RlTypes /\ RlFlying(r) /\ UNCHANGED <<rlStarted, rlLive, handlers, hangup, file, current, applied, overlapped>>
  BY DEF RlIInv, LoadFromFile, RlFlying
<1>2. RlKeeps
  BY <1>1 DEF RlKeeps, RlTypes, Version
<1>3. CASE reload' = [reload EXCEPT ![r] = NoReload] /\ rlState' = "idle"
  <2>1. ~overlapped => current' >= current /\ current' <= file.version /\ \A c \in 1..Consumers : current' <= applied[c]
    BY <1>1 DEF RlIInv, InBetween, RlTypes, Version
  <2> QED
    BY <1>1, <1>3, <2>1, RlEnds DEF RlTypes
<1>4. CASE reload' = [reload EXCEPT ![r] = [at |-> "callbacks", version |-> file.version, next |-> 1]] /\ rlState' = rlState
  <2> DEFINE n == [at |-> "callbacks", version |-> file.version, next |-> 1]
  <2>1. n \in [at : RlAt, version : Version, next : 1..Consumers + 1]
    BY <1>1, RlAssumption DEF RlTypes, RlAt
  <2>2. reload'[r] = n /\ \A q \in Reloads \ {r} : reload'[q] = reload[q]
    BY <1>1, <1>4 DEF RlTypes
  <2>3. RlTypes'
    BY <1>1, <1>4, <2>1 DEF RlTypes
  <2>4. \A q \in Reloads : RlFlying(q)' <=> RlFlying(q)
    BY <1>1, <2>2 DEF RlFlying
  <2>5. ASSUME ~overlapped PROVE OneFlies' /\ InBetween' /\ Listening'
    <3>1. OneFlies /\ InBetween /\ Listening
      BY <2>5 DEF RlIInv
    <3>2. OneFlies'
      BY <1>4, <2>4, <3>1 DEF OneFlies, InFlight, RlFlying
    <3>3. file.version <= file.version /\ \A c \in 1..0 : applied[c] = file.version
      BY <1>1 DEF RlTypes, Version
    <3>4. InBetween'
      BY <1>1, <2>2, <3>1, <3>3 DEF InBetween
    <3>5. Listening'
      BY <1>1, <1>4, <3>1 DEF Listening
    <3> QED
      BY <3>2, <3>4, <3>5
  <2> QED
    BY <1>1, <1>2, <2>3, <2>5 DEF RlIInv
<1> QED
  BY <1>3, <1>4 DEF LoadFromFile

\* A callback accepts it, or the Reload ends.
LEMMA RlCallback ==
    ASSUME RlIInv, NEW r \in Reloads, Callback(r) PROVE RlIInv' /\ RlKeeps
<1>1. RlTypes /\ RlFlying(r) /\ reload[r].at = "callbacks" /\ reload[r].next <= Consumers
      /\ UNCHANGED <<rlStarted, rlLive, handlers, hangup, file, current, overlapped>>
  BY DEF RlIInv, Callback, RlFlying
<1>2. CASE reload' = [reload EXCEPT ![r] = NoReload] /\ rlState' = "idle" /\ applied' = applied
  <2>1. ~overlapped => current' >= current /\ current' <= file.version /\ \A c \in 1..Consumers : current' <= applied[c]
    BY <1>1 DEF RlIInv, InBetween, RlTypes, Version
  <2> QED
    BY <1>1, <1>2, <2>1, RlEnds DEF RlTypes
<1>3. CASE /\ applied' = [applied EXCEPT ![reload[r].next] = reload[r].version]
           /\ reload' = [reload EXCEPT ![r].next = @ + 1] /\ rlState' = rlState
  <2> DEFINE k == reload[r].next
  <2> DEFINE v == reload[r].version
  <2>1. reload[r] \in [at : RlAt, version : Version, next : 1..Consumers + 1] /\ k \in 1..Consumers /\ k \in Int /\ v \in Version
    BY <1>1, RlAssumption DEF RlTypes
  <2>2. /\ reload'[r].at = "callbacks" /\ reload'[r].version = v /\ reload'[r].next = k + 1
        /\ \A q \in Reloads \ {r} : reload'[q] = reload[q]
    BY <1>1, <1>3, <2>1 DEF RlTypes
  <2>3. applied'[k] = v /\ (\A c \in 1..Consumers : c # k => applied'[c] = applied[c]) /\ applied' \in [1..Consumers -> Version]
    BY <1>1, <1>3, <2>1 DEF RlTypes
  <2>4. reload' \in [Reloads -> [at : RlAt, version : Version, next : 1..Consumers + 1]]
    <3>1. k + 1 \in 1..Consumers + 1
      BY <2>1, RlAssumption
    <3> QED
      BY <1>1, <1>3, <2>1, <3>1 DEF RlTypes
  <2>5. RlTypes'
    BY <1>1, <1>3, <2>3, <2>4 DEF RlTypes
  <2>6. \A q \in Reloads : RlFlying(q)' <=> RlFlying(q)
    BY <1>1, <2>2 DEF RlFlying
  <2>7. ASSUME ~overlapped
        PROVE  OneFlies' /\ InBetween' /\ Listening' /\ current' >= current /\ \A c \in 1..Consumers : applied'[c] >= applied[c]
    <3>1. OneFlies /\ InBetween /\ Listening
      BY <2>7 DEF RlIInv
    <3>2. OneFlies'
      BY <1>3, <2>6, <3>1 DEF OneFlies, InFlight, RlFlying
    <3>3. /\ \A c \in 1..Consumers : current <= applied[c] /\ applied[c] <= file.version /\ applied[c] <= v
          /\ \A c \in 1..k-1 : applied[c] = v
          /\ current <= file.version /\ current <= v /\ v <= file.version
      BY <1>1, <3>1 DEF InBetween
    <3>4. current \in Int /\ file.version \in Int /\ v \in Int /\ \A c \in 1..Consumers : applied[c] \in Int
      BY <1>1, <2>1 DEF RlTypes, Version
    <3> HIDE DEF k, v
    <3>5. \A c \in 1..Consumers : current <= applied'[c] /\ applied'[c] <= file.version /\ applied'[c] <= v /\ applied'[c] >= applied[c]
      BY <2>1, <2>3, <3>3, <3>4
    <3>6. \A c \in 1..k+1-1 : applied'[c] = v
      BY <2>1, <2>3, <3>3, RlAssumption
    <3>7. \A q \in Reloads : reload'[q].at = "callbacks" => q = r
      BY <1>1, <2>2, <3>1 DEF OneFlies, RlFlying
    <3>8. InBetween'
      <4>1. /\ current' = current /\ file' = file
            /\ reload'[r].version = v /\ reload'[r].next - 1 = k + 1 - 1
        <5>1. current' = current /\ file' = file
          BY <1>1
        <5>2. reload'[r].version = v /\ reload'[r].next = k + 1
          BY <2>2
        <5>3. reload'[r].next - 1 = k + 1 - 1
          BY <2>1, <5>2
        <5> QED
          BY <5>1, <5>2, <5>3
      <4>2. \A c \in 1..reload'[r].next - 1 : applied'[c] = reload'[r].version
        BY <3>6, <4>1
      <4>3. current' <= reload'[r].version /\ reload'[r].version <= file'.version
            /\ \A c \in 1..Consumers : applied'[c] <= reload'[r].version
        BY <3>3, <3>5, <4>1
      <4>4. current' <= file'.version /\ \A c \in 1..Consumers : current' <= applied'[c] /\ applied'[c] <= file'.version
        BY <3>3, <3>5, <4>1
      <4> QED
        BY <3>7, <4>2, <4>3, <4>4 DEF InBetween
    <3>9. Listening'
      BY <1>1, <1>3, <3>1 DEF Listening
    <3> QED
      BY <1>1, <3>2, <3>4, <3>5, <3>8, <3>9
  <2> QED
    BY <1>1, <2>5, <2>7 DEF RlIInv, RlKeeps
<1> QED
  BY <1>2, <1>3 DEF Callback, CallbackFails

\* When all have, it is shown.
LEMMA RlPublish ==
    ASSUME RlIInv, NEW r \in Reloads, Publish(r) PROVE RlIInv' /\ RlKeeps
<1>1. /\ RlTypes /\ RlFlying(r) /\ reload[r].at = "callbacks" /\ reload[r].next > Consumers
      /\ reload' = [reload EXCEPT ![r] = NoReload] /\ rlState' = "idle" /\ current' = reload[r].version
      /\ UNCHANGED <<rlStarted, rlLive, handlers, hangup, file, applied, overlapped>>
  BY DEF RlIInv, Publish, RlFlying
<1>2. reload[r].version \in Version /\ reload[r].next = Consumers + 1
  BY <1>1, RlAssumption DEF RlTypes
<1>3. ASSUME ~overlapped
      PROVE  current' >= current /\ current' <= file.version /\ \A c \in 1..Consumers : current' <= applied[c]
  <2>1. InBetween
    BY <1>3 DEF RlIInv
  <2>2. current <= reload[r].version /\ reload[r].version <= file.version
        /\ \A c \in 1..reload[r].next - 1 : applied[c] = reload[r].version
    BY <1>1, <2>1 DEF InBetween
  <2>3. reload[r].next - 1 = Consumers
    BY <1>2, RlAssumption
  <2>4. \A c \in 1..Consumers : applied[c] = reload[r].version
    BY <2>2, <2>3
  <2> QED
    BY <1>1, <1>2, <2>2, <2>4 DEF Version, RlTypes
<1> QED
  BY <1>1, <1>2, <1>3, RlEnds

\* Every step keeps the invariant, and puts back no older version.
LEMMA RlStep == RlIInv /\ [RlNext]_rlVars => RlIInv' /\ RlKeeps
<1> SUFFICES ASSUME RlIInv, [RlNext]_rlVars PROVE RlIInv' /\ RlKeeps
  OBVIOUS
<1>1. CASE UNCHANGED rlVars
  <2>1. RlIInv'
    BY <1>1 DEF RlIInv, rlVars, RlTypes, OneFlies, InBetween, Listening, InFlight, RlFlying
  <2>2. RlKeeps
    BY <1>1 DEF RlIInv, rlVars, RlTypes, RlKeeps, Version
  <2> QED
    BY <2>1, <2>2
<1>2. CASE EditFile \/ Hangup
  BY <1>2, RlOutside
<1>3. CASE StartListening \/ StopListening \/ HandlerEnds
  BY <1>3, RlControl
<1>4. CASE TakeSignal
  BY <1>4, RlTake
<1>5. ASSUME NEW r \in Reloads, Begin(r) \/ LoadFromFile(r) \/ Callback(r) \/ Publish(r) PROVE RlIInv' /\ RlKeeps
  BY <1>5, RlBegin, RlLoad, RlCallback, RlPublish
<1> QED
  BY <1>1, <1>2, <1>3, <1>4, <1>5 DEF RlNext

\* What the reloaders promise follows from the invariant.
LEMMA ReloaderSafe ==
    ASSUME RlIInv PROVE RlTypeOK /\ ShownIsApplied /\ Listens
<1>1. ~overlapped => (rlState = "reloading" <=> InFlight)
  BY DEF RlIInv, OneFlies
<1>2. RlTypeOK
  BY <1>1 DEF RlIInv, RlTypes, RlTypeOK, RlAt
<1> QED
  BY <1>2 DEF RlIInv, InBetween, Listening, ShownIsApplied, Listens

\* For any policies, configurations, callers, callbacks and signals: what the enforcer
\* lets pass satisfies the policy in force, what the reloaders show is applied and is
\* never replaced by an older version (enforcer.go, rules.go, reloader.go).
THEOREM PolicyStaysApplied == PeSpec /\ RlSpec => PolicyApplied
<1>1. RlSpec => []RlIInv
  BY RlStarts, RlStep, PTL DEF RlSpec
<1>2. RlSpec => [][RlKeeps]_rlVars
  BY <1>1, RlStep, PTL DEF RlSpec
<1>3. RlKeeps <=> (~overlapped => current' >= current /\ \A c \in 1..Consumers : applied'[c] >= applied[c])
  BY DEF RlKeeps
<1>4. RlSpec => NoOldVersion
  BY <1>2, <1>3, PTL DEF NoOldVersion
<1> QED
  BY <1>1, <1>4, PeHolds, EnforcerSafe, ReloaderSafe, PTL DEF PolicyApplied

-----------------------------------------------------------------------------
(* Tools and their containers.                                             *)

\* No two tools share an instance.
InstancesApart ==
    \A t, u \in ToolNames : instances[t] = instances[u] /\ instances[t] # 0 => t = u

\* The step of an execution tells what its container does; the others ended, and what
\* is left of them was wanted or could not be removed.
ContainersKnown ==
    /\ execution # NoExecution =>
          /\ execution.container \in ToolContainers
          /\ outcomes[execution.container] = "none"
          /\ toolContainers[execution.container] =
                (IF execution.step = "exited" THEN "gone" ELSE execution.step)
    /\ \A c \in ToolContainers :
          /\ toolContainers[c] = "none" => outcomes[c] = "none"
          /\ outcomes[c] = "timeout" => toolContainers[c] = "gone"
          /\ toolContainers[c] \in {"created", "running"} =>
                \/ outcomes[c] \in {"kept", "stuck"}
                \/ execution # NoExecution /\ execution.container = c

\* The inductive invariant.
TlIInv == ToolsTypeOK /\ NoStrayTool /\ InstancesApart /\ ContainersKnown

\* The part of the state that is the registry's.
RegistryTypeOK ==
    /\ factories \subseteq ToolNames
    /\ instances \in [ToolNames -> 0..MaxInstances] /\ created \in 0..MaxInstances
    /\ openTools \subseteq 1..created
    /\ registryClosed \in BOOLEAN

\* The part that is the executor's.
ExecutorTypeOK ==
    /\ execution \in [step : {"created", "running", "exited"}, container : ToolContainers, autoCleanup : BOOLEAN]
                        \cup {NoExecution}
    /\ toolContainers \in [ToolContainers -> {"none", "created", "running", "gone"}]
    /\ outcomes \in [ToolContainers -> {"none", "done", "failed", "kept", "timeout", "stuck"}]

\* What holds of the registry.
RegistryOK == RegistryTypeOK /\ NoStrayTool /\ InstancesApart

\* What holds of the executor.
ExecutorOK == ExecutorTypeOK /\ ContainersKnown

LEMMA TlParts == TlIInv <=> RegistryOK /\ ExecutorOK
BY DEF TlIInv, RegistryOK, ExecutorOK, ToolsTypeOK, RegistryTypeOK, ExecutorTypeOK

\* An instance that is given out is open, and so has a number that was used.
LEMMA InstancesUsed ==
    ASSUME RegistryOK, NEW t \in ToolNames
    PROVE  instances[t] \in 0..created /\ (instances[t] # 0 => instances[t] \in openTools)
BY DEF RegistryOK, RegistryTypeOK, NoStrayTool

\* A tool that is closed and forgotten.
LEMMA ToolForgotten ==
    ASSUME RegistryOK, NEW t \in ToolNames,
           instances' = [instances EXCEPT ![t] = 0], openTools' = openTools \ {instances[t]},
           factories' \subseteq ToolNames, UNCHANGED <<created, registryClosed>>
    PROVE  RegistryOK'
<1>1. RegistryTypeOK'
  <2>1. instances' \in [ToolNames -> 0..MaxInstances]
    <3>1. 0 \in 0..MaxInstances
      BY CtAssumption
    <3> QED
      BY <3>1 DEF RegistryOK, RegistryTypeOK
  <2>2. openTools' \subseteq openTools
    OBVIOUS
  <2> QED
    BY <2>1, <2>2 DEF RegistryOK, RegistryTypeOK
<1>2. InstancesApart'
  BY DEF RegistryOK, RegistryTypeOK, InstancesApart
<1>3. \A n : n \in openTools' <=> n # 0 /\ \E u \in ToolNames : instances'[u] = n
  <2>1. \A n : n \in openTools <=> n # 0 /\ \E u \in ToolNames : instances[u] = n
    BY DEF RegistryOK, NoStrayTool
  <2>2. \A u \in ToolNames : instances'[u] = IF u = t THEN 0 ELSE instances[u]
    BY DEF RegistryOK, RegistryTypeOK
  <2>3. \A u \in ToolNames \ {t} : instances[u] # 0 => instances[u] # instances[t]
    BY DEF RegistryOK, InstancesApart
  <2> QED
    BY <2>1, <2>2, <2>3
<1>4. NoStrayTool'
  BY <1>3 DEF NoStrayTool
<1> QED
  BY <1>1, <1>2, <1>4 DEF RegistryOK

\* A new instance of a tool, in the place of the one it had.
LEMMA ToolMade ==
    ASSUME RegistryOK, NEW t \in ToolNames, NEW old, NewInstance(t, old),
           old = {instances[t]} \/ (old = {} /\ instances[t] = 0)
    PROVE  RegistryOK'
<1>1. /\ created' = created + 1 /\ created < MaxInstances /\ created \in Nat
      /\ instances' = [instances EXCEPT ![t] = created + 1]
      /\ openTools' = (openTools \ old) \cup {created + 1}
      /\ UNCHANGED <<factories, registryClosed>>
  BY CtAssumption DEF NewInstance, RegistryOK, RegistryTypeOK
<1>2. \A u \in ToolNames : instances'[u] = IF u = t THEN created + 1 ELSE instances[u]
  BY <1>1 DEF RegistryOK, RegistryTypeOK
<1>3. \A u \in ToolNames : instances[u] \in 0..created /\ instances[u] # created + 1
  BY <1>1, InstancesUsed
<1>4. RegistryTypeOK'
  <2>1. created' \in 0..MaxInstances
    BY <1>1, CtAssumption
  <2>2. instances' \in [ToolNames -> 0..MaxInstances]
    BY <1>1, <2>1 DEF RegistryOK, RegistryTypeOK
  <2>3. openTools' \subseteq 1..created'
    <3>1. \A n \in openTools : n \in 1..created
      BY DEF RegistryOK, RegistryTypeOK
    <3>2. \A n \in openTools' : n \in openTools \/ n = created + 1
      BY <1>1
    <3>3. \A n \in 1..created : n \in 1..(created + 1)
      BY <1>1
    <3>4. created + 1 \in 1..(created + 1)
      BY <1>1
    <3> QED
      BY <1>1, <3>1, <3>2, <3>3, <3>4
  <2> QED
    BY <1>1, <2>1, <2>2, <2>3 DEF RegistryOK, RegistryTypeOK
<1>5. InstancesApart'
  BY <1>2, <1>3 DEF RegistryOK, InstancesApart
<1>6. \A n : n \in openTools' <=> n # 0 /\ \E u \in ToolNames : instances'[u] = n
  <2>1. \A n : n \in openTools <=> n # 0 /\ \E u \in ToolNames : instances[u] = n
    BY DEF RegistryOK, NoStrayTool
  <2>2. \A u \in ToolNames \ {t} : instances[u] # 0 => instances[u] # instances[t]
    BY DEF RegistryOK, InstancesApart
  <2>3. \A n : n \in openTools' <=> n = created + 1 \/ (n \in openTools /\ n # instances[t])
    BY <1>1, <2>1
  <2> QED
    BY <1>1, <1>2, <2>1, <2>2, <2>3
<1>7. NoStrayTool'
  BY <1>6 DEF NoStrayTool
<1> QED
  BY <1>4, <1>5, <1>7 DEF RegistryOK

\* The steps of the registry.
LEMMA RegistrySteps ==
    ASSUME RegistryOK,
           \/ CloseRegistry
           \/ \E t \in ToolNames : RegisterTool(t) \/ CloseTool(t) \/ RedefineTool(t) \/ GetTool(t)
    PROVE  RegistryOK'
<1>1. CASE CloseRegistry
  <2>1. \A n : n \in openTools => n \in {instances[t] : t \in ToolNames}
    BY DEF RegistryOK, NoStrayTool
  <2>2. openTools' = {}
    BY <1>1, <2>1 DEF CloseRegistry
  <2> QED
    BY <1>1, <2>2, CtAssumption DEF CloseRegistry, RegistryOK, RegistryTypeOK, NoStrayTool, InstancesApart
<1>2. ASSUME NEW t \in ToolNames, RegisterTool(t) PROVE RegistryOK'
  BY <1>2 DEF RegisterTool, RegistryOK, RegistryTypeOK, NoStrayTool, InstancesApart
<1>3. ASSUME NEW t \in ToolNames, CloseTool(t) PROVE RegistryOK'
  <2>1. factories' \subseteq ToolNames
    BY <1>3 DEF CloseTool, RegistryOK, RegistryTypeOK
  <2> QED
    BY <1>3, <2>1, ToolForgotten DEF CloseTool
<1>4. ASSUME NEW t \in ToolNames, RedefineTool(t) PROVE RegistryOK'
  <2>1. CASE NewInstance(t, {instances[t]})
    BY <2>1, ToolMade
  <2>2. CASE ~NewInstance(t, {instances[t]})
    BY <1>4, <2>2, ToolForgotten DEF RedefineTool, RegistryOK, RegistryTypeOK
  <2> QED
    BY <2>1, <2>2
<1>5. ASSUME NEW t \in ToolNames, GetTool(t) PROVE RegistryOK'
  <2>1. CASE instances[t] = 0 /\ NewInstance(t, {})
    BY <2>1, ToolMade
  <2>2. CASE UNCHANGED <<factories, instances, created, openTools, registryClosed>>
    BY <2>2 DEF RegistryOK, RegistryTypeOK, NoStrayTool, InstancesApart
  <2> QED
    BY <1>5, <2>1, <2>2 DEF GetTool
<1> QED
  BY <1>1, <1>2, <1>3, <1>4, <1>5

\* A container is made, and starts and exits.
LEMMA ExecutorRuns ==
    ASSUME ExecutorOK,
           \/ \E t \in ToolNames : ExecuteBegins(t)
           \/ StartContainer \/ ContainerExits
    PROVE  ExecutorOK'
<1>1. ASSUME NEW c \in ToolContainers, NEW auto \in BOOLEAN, execution = NoExecution, toolContainers[c] = "none",
             toolContainers' = [toolContainers EXCEPT ![c] = "created"],
             execution' = [step |-> "created", container |-> c, autoCleanup |-> auto], UNCHANGED outcomes
      PROVE  ExecutorOK'
  <2>1. ExecutorTypeOK'
    BY <1>1 DEF ExecutorOK, ExecutorTypeOK
  <2>2. outcomes[c] = "none"
    BY <1>1 DEF ExecutorOK, ContainersKnown
  <2>3. execution'.step = "created" /\ execution'.container = c /\ execution' # NoExecution
    BY <1>1 DEF NoExecution
  <2>4. \A d \in ToolContainers : toolContainers'[d] = IF d = c THEN "created" ELSE toolContainers[d]
    BY <1>1 DEF ExecutorOK, ExecutorTypeOK
  <2>5. ContainersKnown'
    BY <1>1, <2>2, <2>3, <2>4 DEF ExecutorOK, ContainersKnown
  <2> QED
    BY <2>1, <2>5 DEF ExecutorOK
<1>2. CASE UNCHANGED executorVars
  BY <1>2 DEF executorVars, ExecutorOK, ExecutorTypeOK, ContainersKnown
<1>3. ASSUME NEW to \in {"running", "exited"}, NEW s,
             execution.step \in {"created", "running"}, execution' = [execution EXCEPT !.step = to],
             s = (IF to = "exited" THEN "gone" ELSE to),
             toolContainers' = [toolContainers EXCEPT ![execution.container] = s], UNCHANGED outcomes
      PROVE  ExecutorOK'
  <2>1. PICK c \in ToolContainers : execution.container = c /\ execution # NoExecution
    BY <1>3 DEF ExecutorOK, ContainersKnown, NoExecution
  <2>2. ExecutorTypeOK'
    BY <1>3, <2>1 DEF ExecutorOK, ExecutorTypeOK, NoExecution
  <2>3. execution'.step = to /\ execution'.container = c /\ execution' # NoExecution
    BY <1>3, <2>1 DEF ExecutorOK, ExecutorTypeOK, NoExecution
  <2>4. \A d \in ToolContainers : toolContainers'[d] = IF d = c THEN s ELSE toolContainers[d]
    BY <1>3, <2>1 DEF ExecutorOK, ExecutorTypeOK
  <2>5. outcomes[c] = "none"
    BY <2>1 DEF ExecutorOK, ContainersKnown
  <2>6. ContainersKnown'
    BY <1>3, <2>1, <2>3, <2>4, <2>5 DEF ExecutorOK, ContainersKnown
  <2> QED
    BY <2>2, <2>6 DEF ExecutorOK
<1> QED
  BY <1>1, <1>2, <1>3 DEF ExecuteBegins, StartContainer, ContainerExits, Runs

\* An execution ends.
LEMMA ExecutorReturns ==
    ASSUME ExecutorOK, ExecuteEnds
    PROVE  ExecutorOK'
<1>1. PICK outcome \in {"done", "failed", "timeout"} :
         /\ Returns(outcome)
         /\ outcome = "done" <=> execution.step = "exited"
         /\ execution.step \in {"created", "running", "exited"}
  BY DEF ExecuteEnds
<1>2. PICK c \in ToolContainers : execution.container = c /\ execution # NoExecution
  BY <1>1 DEF ExecutorOK, ContainersKnown, NoExecution
<1>3. execution' = NoExecution
  BY <1>1 DEF Returns
<1>4. /\ \A d \in ToolContainers \ {c} : toolContainers'[d] = toolContainers[d] /\ outcomes'[d] = outcomes[d]
      /\ ExecutorTypeOK'
  BY <1>1, <1>2, <1>3 DEF Returns, ExecutorOK, ExecutorTypeOK
<1>5. /\ toolContainers'[c] = "none" => outcomes'[c] = "none"
      /\ outcomes'[c] = "timeout" => toolContainers'[c] = "gone"
      /\ toolContainers'[c] \in {"created", "running"} => outcomes'[c] \in {"kept", "stuck"}
  <2>1. toolContainers[c] \in {"created", "running", "gone"} /\ (outcome = "done" => toolContainers[c] = "gone")
    BY <1>1, <1>2 DEF ExecutorOK, ContainersKnown
  <2>2. \/ /\ toolContainers'[c] = IF Cleanup(outcome) THEN "gone" ELSE toolContainers[c]
           /\ outcomes'[c] = IF outcome = "failed" /\ ~execution.autoCleanup THEN "kept" ELSE outcome
        \/ outcomes'[c] = "stuck" /\ toolContainers'[c] = toolContainers[c]
    BY <1>1, <1>2 DEF Returns, ExecutorOK, ExecutorTypeOK
  <2> QED
    BY <1>1, <2>1, <2>2 DEF Cleanup
<1>6. ContainersKnown'
  BY <1>2, <1>3, <1>4, <1>5 DEF ExecutorOK, ContainersKnown
<1> QED
  BY <1>4, <1>6 DEF ExecutorOK

\* Every step of registry and executor.
LEMMA ToolsStep == (ToolsInit => TlIInv) /\ (TlIInv /\ [ToolsNext]_toolVars => TlIInv')
<1>1. ASSUME ToolsInit PROVE TlIInv
  <2>1. RegistryOK
    <3>1. 0 \in 0..MaxInstances /\ \A t \in ToolNames : instances[t] = 0
      BY <1>1, CtAssumption DEF ToolsInit
    <3>2. openTools = {} /\ registryClosed = FALSE /\ created = 0 /\ factories = {}
      BY <1>1 DEF ToolsInit
    <3>3. instances \in [ToolNames -> 0..MaxInstances]
      BY <1>1, <3>1 DEF ToolsInit
    <3> QED
      BY <3>1, <3>2, <3>3 DEF RegistryOK, RegistryTypeOK, NoStrayTool, InstancesApart
  <2>2. ExecutorOK
    BY <1>1 DEF ToolsInit, ExecutorOK, ExecutorTypeOK, ContainersKnown
  <2> QED
    BY <2>1, <2>2, TlParts
<1>2. ASSUME TlIInv, ToolsNext PROVE TlIInv'
  <2>1. RegistryOK /\ ExecutorOK
    BY <1>2, TlParts
  <2>2. RegistryOK'
    <3>1. CASE UNCHANGED <<factories, instances, created, openTools, registryClosed>>
      BY <2>1, <3>1 DEF RegistryOK, RegistryTypeOK, NoStrayTool, InstancesApart
    <3>2. CASE ~UNCHANGED <<factories, instances, created, openTools, registryClosed>>
      <4>1. ~StartContainer /\ ~ContainerExits /\ ~ExecuteEnds
        BY <3>2 DEF StartContainer, ContainerExits, ExecuteEnds, Returns, Runs
      <4> QED
        BY <1>2, <2>1, <4>1, RegistrySteps DEF ToolsNext, ExecuteBegins
    <3> QED
      BY <3>1, <3>2
  <2>3. ExecutorOK'
    <3>1. CASE UNCHANGED executorVars
      BY <2>1, <3>1 DEF executorVars, ExecutorOK, ExecutorTypeOK, ContainersKnown
    <3>2. CASE ~UNCHANGED executorVars
      <4>1. \/ \E t \in ToolNames : ExecuteBegins(t)
            \/ StartContainer \/ ContainerExits \/ ExecuteEnds
        BY <1>2, <3>2 DEF ToolsNext, RegisterTool, CloseTool, RedefineTool, CloseRegistry
      <4> QED
        BY <2>1, <4>1, ExecutorRuns, ExecutorReturns
    <3> QED
      BY <3>1, <3>2
  <2> QED
    BY <2>2, <2>3 DEF TlIInv, RegistryOK, ExecutorOK, ToolsTypeOK, RegistryTypeOK, ExecutorTypeOK
<1>3. ASSUME TlIInv, UNCHANGED toolVars PROVE TlIInv'
  BY <1>3 DEF toolVars, TlIInv, ToolsTypeOK, NoStrayTool, InstancesApart, ContainersKnown
<1> QED
  BY <1>1, <1>2, <1>3

-----------------------------------------------------------------------------
(* The tasks of a worker and their containers.                             *)

\* The tools there are.
WorkerTools == Mounted \cup Networked

\* A task that was routed.
RoutedTasks == [at : {"run", "exited", "ok", "error"}, type : Types, op : Operations,
            mutates : BOOLEAN, tool : WorkerTools \cup {"none"}, exit : 0..2]

\* A task that has or had a container has the tool of its type and operation; one that
\* exited well did what was asked.
WtTaskOK(t) ==
    LET k == wtTask[t]
    IN /\ k \in RoutedTasks \/ k = [at |-> "new"]
       /\ k.at \in {"run", "exited", "ok"} =>
             k \in RoutedTasks /\ k.tool = ToolFor(k.type, k.op) /\ k.tool \in WorkerTools
       /\ k.at = "exited" /\ k.exit = 0 => t \in wtDone \/ k.type = "custom"
       /\ k.at = "ok" => t \in wtDone \/ k.type = "custom" \/ k.tool = "grep"

\* The inductive invariant.
WtIInv == wtTask \in [WtTasks -> RoutedTasks \cup {[at |-> "new"]}] /\ \A t \in WtTasks : WtTaskOK(t)

\* What no step does.
WtKeeps ==
    \A t \in WtTasks : wtFile' = t /\ wtFile # t =>
        ToolFor(wtTask[t].type, wtTask[t].op) \in {"file_write", "file_edit"}

\* Every type and operation has a tool or none.
LEMMA ToolForKnown ==
    ASSUME NEW type \in Types, NEW op \in Operations
    PROVE  ToolFor(type, op) \in WorkerTools \cup {"none"}
<1>1. DirectTool[op] \in WorkerTools \cup {"none"}
  BY DEF Operations, DirectTool, WorkerTools, Mounted, Networked
<1>2. NetworkTool(op) \in WorkerTools \cup {"none"}
  BY DEF NetworkTool, WorkerTools, Networked
<1>3. {"file_write", "none"} \subseteq WorkerTools \cup {"none"}
  BY DEF WorkerTools, Mounted
<1> QED
  BY <1>1, <1>2, <1>3 DEF ToolFor

\* A step of one task.
LEMMA WtOthers ==
    ASSUME WtIInv, NEW t \in WtTasks, NEW k \in RoutedTasks, wtTask' = [wtTask EXCEPT ![t] = k],
           wtDone \subseteq wtDone', WtTaskOK(t)'
    PROVE  WtIInv'
<1>1. \A u \in WtTasks \ {t} : wtTask'[u] = wtTask[u]
  BY DEF WtIInv
<1>2. \A u \in WtTasks \ {t} : WtTaskOK(u)'
  BY <1>1 DEF WtIInv, WtTaskOK
<1>3. wtTask' \in [WtTasks -> RoutedTasks \cup {[at |-> "new"]}]
  BY DEF WtIInv
<1> QED
  BY <1>2, <1>3 DEF WtIInv

\* A task is routed.
LEMMA WtRoute ==
    ASSUME WtIInv, NEW t \in WtTasks, Route(t)
    PROVE  WtIInv' /\ WtKeeps
<1>1. PICK type \in Types, op \in Operations, mutates \in BOOLEAN, ok \in BOOLEAN :
        /\ ok => ToolFor(type, op) # "none"
        /\ wtTask' = [wtTask EXCEPT ![t] =
              [at |-> IF ok THEN "run" ELSE "error", type |-> type, op |-> op,
               mutates |-> mutates, tool |-> ToolFor(type, op), exit |-> 0]]
  BY DEF Route
<1>2. PICK k : k = [at |-> IF ok THEN "run" ELSE "error", type |-> type, op |-> op,
                    mutates |-> mutates, tool |-> ToolFor(type, op), exit |-> 0]
  OBVIOUS
<1>3. k \in RoutedTasks
  BY <1>2, ToolForKnown DEF RoutedTasks
<1>4. wtTask' = [wtTask EXCEPT ![t] = k] /\ wtTask'[t] = k
  BY <1>1, <1>2 DEF WtIInv
<1>5. /\ k.at = (IF ok THEN "run" ELSE "error") /\ k.type = type /\ k.op = op
      /\ k.tool = ToolFor(type, op)
  BY <1>2
<1>6. WtTaskOK(t)'
  BY <1>1, <1>3, <1>4, <1>5, ToolForKnown DEF WtTaskOK
<1>7. UNCHANGED <<wtFile, wtDone>>
  BY DEF Route
<1> QED
  BY <1>3, <1>4, <1>6, <1>7, WtOthers DEF WtKeeps

\* Its container runs.
LEMMA WtRun ==
    ASSUME WtIInv, NEW t \in WtTasks, RunContainer(t)
    PROVE  WtIInv' /\ WtKeeps
<1>. DEFINE k == wtTask[t]
            writes == TriesToWrite(k) /\ k.tool \in Writable
<1>1. k.at = "run" /\ k \in RoutedTasks /\ k.tool = ToolFor(k.type, k.op) /\ k.tool \in WorkerTools
  BY DEF RunContainer, WtIInv, WtTaskOK
<1>2. PICK exit \in 0..2 :
        /\ wtTask' = [wtTask EXCEPT ![t].at = "exited", ![t].exit = exit]
        /\ \/ /\ wtFile' = IF writes THEN t ELSE wtFile
              /\ wtDone' = IF RunsCommand(k) /\ (TriesToWrite(k) => writes) THEN wtDone \cup {t} ELSE wtDone
           \/ exit # 0 /\ UNCHANGED <<wtFile, wtDone>>
        /\ TriesToWrite(k) /\ ~writes => exit # 0
  BY DEF RunContainer
<1>3. PICK l : l = [k EXCEPT !.at = "exited", !.exit = exit]
  OBVIOUS
<1>4. /\ l \in RoutedTasks /\ l.at = "exited" /\ l.exit = exit /\ l.type = k.type /\ l.op = k.op /\ l.tool = k.tool
  BY <1>1, <1>3 DEF RoutedTasks
<1>5. wtTask' = [wtTask EXCEPT ![t] = l] /\ wtTask'[t] = l
  BY <1>1, <1>2, <1>3 DEF WtIInv
<1>6. exit = 0 => t \in wtDone' \/ k.type = "custom"
  BY <1>2 DEF RunsCommand
<1>7. wtDone \subseteq wtDone'
  BY <1>2
<1>8. WtTaskOK(t)'
  BY <1>1, <1>4, <1>5, <1>6 DEF WtTaskOK
<1>9. \A u \in WtTasks : wtFile' = u /\ wtFile # u => u = t /\ k.tool \in Writable
  BY <1>2
<1>10. WtKeeps
  BY <1>1, <1>9 DEF WtKeeps, Writable
<1> QED
  BY <1>4, <1>5, <1>7, <1>8, <1>10, WtOthers

\* It fails, or its answer goes out.
LEMMA WtAnswer ==
    ASSUME WtIInv, NEW t \in WtTasks, ContainerFails(t) \/ Answers(t)
    PROVE  WtIInv' /\ WtKeeps
<1>. DEFINE k == wtTask[t]
<1>1. k.at \in {"run", "exited"} /\ k \in RoutedTasks /\ k.tool = ToolFor(k.type, k.op) /\ k.tool \in WorkerTools
  BY DEF ContainerFails, Answers, WtIInv, WtTaskOK
<1>2. PICK at \in {"ok", "error"} :
        /\ wtTask' = [wtTask EXCEPT ![t].at = at]
        /\ at = "ok" => k.at = "exited" /\ Accepts(k)
  BY DEF ContainerFails, Answers
<1>3. PICK l : l = [k EXCEPT !.at = at]
  OBVIOUS
<1>4. /\ l \in RoutedTasks /\ l.at = at /\ l.exit = k.exit /\ l.type = k.type /\ l.op = k.op /\ l.tool = k.tool
  BY <1>1, <1>3 DEF RoutedTasks
<1>5. wtTask' = [wtTask EXCEPT ![t] = l] /\ wtTask'[t] = l
  BY <1>1, <1>2, <1>3 DEF WtIInv
<1>6. UNCHANGED <<wtFile, wtDone>>
  BY DEF ContainerFails, Answers
<1>7. at = "ok" => t \in wtDone \/ k.type = "custom" \/ k.tool = "grep"
  BY <1>2 DEF WtIInv, WtTaskOK, Accepts
<1>8. WtTaskOK(t)'
  BY <1>1, <1>4, <1>5, <1>6, <1>7 DEF WtTaskOK
<1> QED
  BY <1>4, <1>5, <1>6, <1>8, WtOthers DEF WtKeeps

\* Every step.
LEMMA WtStep == (WtInit => WtIInv) /\ (WtIInv /\ [WtNext]_wtVars => WtIInv' /\ WtKeeps)
<1>1. ASSUME WtInit PROVE WtIInv
  BY <1>1 DEF WtInit, WtIInv, WtTaskOK
<1>2. ASSUME WtIInv, UNCHANGED wtVars PROVE WtIInv' /\ WtKeeps
  BY <1>2 DEF wtVars, WtIInv, WtTaskOK, WtKeeps
<1> QED
  BY <1>1, <1>2, WtRoute, WtRun, WtAnswer DEF WtNext

\* No tool instance and no container is left astray, a container sees the workspace or
\* the network, only writers write, and a success means that something was done, but
\* for custom commands, however registrations, executions and failures interleave
\* (pkg/tools, worker/tools.go, worker/agent.go:1120).
THEOREM ToolsStayConfined == ToolsSpec /\ WtSpec => ToolsConfined
<1>1. ToolsSpec => []TlIInv
  BY ToolsStep, PTL DEF ToolsSpec
<1>2. TlIInv => ToolsTypeOK /\ NoStrayTool /\ NoStrayContainer
  <2>1. TlIInv => NoStrayContainer
    BY DEF TlIInv, ContainersKnown, NoStrayContainer
  <2> QED
    BY <2>1 DEF TlIInv
<1>3. WtSpec => []WtIInv
  BY WtStep, PTL DEF WtSpec
<1>4. WtIInv => ContainersConfined /\ SuccessMeansDone
  BY DEF WtIInv, WtTaskOK, WorkerTools, Mounted, Networked, ContainersConfined, SuccessMeansDone
<1>5. WtSpec => [][WtKeeps]_wtVars
  BY <1>3, WtStep, PTL DEF WtSpec
<1>6. WtSpec => OnlyWritersWrite
  BY <1>5, PTL DEF OnlyWritersWrite, WtKeeps
<1> QED
  BY <1>1, <1>2, <1>3, <1>4, <1>6, PTL DEF ToolsConfined
=============================================================================
