--------------------------- MODULE ProviderRegistry ---------------------------
(***************************************************************************)
(* The registry of LLM providers (pkg/provider/registry.go), its failover  *)
(* manager and health checker (failover.go) and the token account of a     *)
(* provider (token_accounting.go), called from several goroutines.         *)
(*                                                                         *)
(* Each has a sync.RWMutex of its own.  Calls that hold one lock while     *)
(* they take another, or the same one again, are cut there; a section      *)
(* under one lock is one action.  A writer that waits keeps new readers    *)
(* out.                                                                    *)
(***************************************************************************)
EXTENDS Naturals, FiniteSets

CONSTANTS
    PrCallers,      \* goroutines
    Providers,      \* provider IDs
    NoProvider,
    PriorityOf,     \* their priorities, lower first
    Threshold,      \* FailoverThreshold
    MaxPrCalls      \* calls (bound)

\* The threshold is positive (config.go:164).
ASSUME PrAssumption ==
    /\ Threshold \in Nat \ {0} /\ MaxPrCalls \in Nat
    /\ IsFiniteSet(PrCallers) /\ NoProvider \notin Providers

VARIABLES
    prRegistered,   \* Registry.providers
    prUp,           \* providers whose IsAvailable holds
    prClosed,       \* closed of registry, failover manager and health checker
    prStates,       \* the shared map of failoverStates; "none": no entry
    prAccount,      \* TokenAccount: requests recorded
    prLocks,        \* the mutexes: readers (with their depth), writer, waiting writers
    prCall,         \* the call of each goroutine
    prCalls,        \* calls started
    prRun,          \* failures recorded since the last success or reset
    prPicked        \* the last provider a goroutine was given

lockVars == <<prLocks, prCall>>
stateVars == <<prClosed, prStates, prRun>>
prVars == <<prRegistered, prUp, stateVars, prAccount, lockVars, prCalls, prPicked>>

Locks == {"registry", "failover", "health", "account"}
NoState == [fails |-> 0, circuit |-> "none", health |-> "none"]
\* What getOrCreateState of the failover manager makes: its health is the empty status.
NewState == [fails |-> 0, circuit |-> "zero", health |-> "empty"]
Fresh == [NewState EXCEPT !.health = "healthy"]
NoCall == [op |-> "none", of |-> NoProvider, at |-> "none", seen |-> {}, fit |-> {}]

PrInit ==
    /\ prRegistered = Providers /\ prUp = Providers
    /\ prClosed = [l \in {"registry", "failover", "health"} |-> FALSE]
    /\ prStates = [p \in Providers |-> NoState]
    /\ prAccount = 0
    /\ prLocks = [l \in Locks |-> [readers |-> [t \in PrCallers |-> 0], writer |-> {}, waiting |-> {}]]
    /\ prCall = [t \in PrCallers |-> NoCall]
    /\ prCalls = 0
    /\ prRun = [p \in Providers |-> 0]
    /\ prPicked = [t \in PrCallers |-> NoProvider]

-----------------------------------------------------------------------------
(* sync.RWMutex.                                                           *)

CanRead(l) == prLocks[l].writer = {} /\ prLocks[l].waiting = {}
CanWrite(t, l) ==
    /\ t \in prLocks[l].waiting /\ prLocks[l].writer = {}
    /\ \A u \in PrCallers : prLocks[l].readers[u] = 0

ReadHeld(locks, t, l, d) == [locks EXCEPT ![l].readers[t] = d]
Waiting(locks, t, l) == [locks EXCEPT ![l].waiting = @ \cup {t}]
WriteHeld(locks, t, l) == [locks EXCEPT ![l].waiting = @ \ {t}, ![l].writer = {t}]
Written(locks, t, l) == [locks EXCEPT ![l].waiting = @ \ {t}, ![l].writer = @ \ {t}]

At(t, op, at) == prCall[t].op = op /\ prCall[t].at = at
Goes(t, at) == prCall' = [prCall EXCEPT ![t].at = at]
Ends(t) == prCall' = [prCall EXCEPT ![t] = NoCall]

-----------------------------------------------------------------------------
(* Calls.                                                                  *)

\* What a writing call locks.
WriteLock == [fail |-> "failover", succeed |-> "failover", reset |-> "failover", resetAll |-> "failover",
              setHealth |-> "health", register |-> "registry", unregister |-> "registry",
              close |-> "registry", record |-> "account"]
Readers == {"pick", "check", "states", "stats", "healthy"}

Call(t, op, p) ==
    /\ prCall[t] = NoCall /\ prCalls < MaxPrCalls
    /\ prCalls' = prCalls + 1
    /\ prCall' = [prCall EXCEPT ![t] = [NoCall EXCEPT !.op = op, !.of = p, !.at = "enter"]]
    /\ prLocks' = IF op \in Readers THEN prLocks ELSE Waiting(prLocks, t, WriteLock[op])
    /\ UNCHANGED <<prRegistered, prUp, stateVars, prAccount, prPicked>>

\* A provider goes down or comes back.
Turn(p) ==
    /\ prUp' = IF p \in prUp THEN prUp \ {p} ELSE prUp \cup {p}
    /\ UNCHANGED <<prRegistered, stateVars, prAccount, lockVars, prCalls, prPicked>>

\* CircuitBreakerTimeout has passed.
CircuitExpires(p) ==
    /\ prStates[p].circuit = "open"
    /\ prStates' = [prStates EXCEPT ![p].circuit = "expired"]
    /\ UNCHANGED <<prRegistered, prUp, prClosed, prRun, prAccount, lockVars, prCalls, prPicked>>

\* A write under one lock.
Writes(t, op) ==
    /\ At(t, op, "enter") /\ CanWrite(t, WriteLock[op])
    /\ prLocks' = Written(prLocks, t, WriteLock[op])
    /\ Ends(t)
    /\ UNCHANGED <<prUp, prCalls, prPicked>>

GetOrCreate(p) == IF prStates[p] = NoState THEN NewState ELSE prStates[p]

Failed(s) == [s EXCEPT !.fails = @ + 1, !.circuit = IF s.fails + 1 >= Threshold THEN "open" ELSE @]
FailedIn(p) ==
    IF prClosed["failover"] THEN UNCHANGED <<prStates, prRun>>
    ELSE /\ prStates' = [prStates EXCEPT ![p] = Failed(GetOrCreate(p))]
         /\ prRun' = [prRun EXCEPT ![p] = @ + 1]

RecordFailure(t) ==
    /\ Writes(t, "fail")
    /\ FailedIn(prCall[t].of)
    /\ UNCHANGED <<prRegistered, prClosed, prAccount>>

RecordSuccess(t) ==
    LET p == prCall[t].of
    IN  /\ Writes(t, "succeed")
        /\ IF prClosed["failover"] THEN UNCHANGED <<prStates, prRun>>
           ELSE /\ prStates' = [prStates EXCEPT ![p] = [GetOrCreate(p) EXCEPT !.fails = 0, !.circuit = "zero"]]
                /\ prRun' = [prRun EXCEPT ![p] = 0]
        /\ UNCHANGED <<prRegistered, prClosed, prAccount>>

\* Reset of one, or of all: an entry becomes as good as new.
ResetStates(t, op, ps) ==
    /\ Writes(t, op)
    /\ prStates' = [p \in Providers |-> IF p \in ps /\ prStates[p] # NoState THEN Fresh ELSE prStates[p]]
    /\ prRun' = [p \in Providers |-> IF p \in ps THEN 0 ELSE prRun[p]]
    /\ UNCHANGED <<prRegistered, prClosed, prAccount>>

Reset(t) == ResetStates(t, "reset", {prCall[t].of})
ResetAll(t) == ResetStates(t, "resetAll", Providers)

SetUnhealthy(t) ==
    LET p == prCall[t].of
    IN  /\ Writes(t, "setHealth")
        /\ prStates' = IF prClosed["health"] THEN prStates
                       ELSE [prStates EXCEPT ![p] = [(IF @ = NoState THEN Fresh ELSE @) EXCEPT !.health = "unhealthy"]]
        /\ UNCHANGED <<prRegistered, prClosed, prRun, prAccount>>

Register(t) ==
    /\ Writes(t, "register")
    /\ prRegistered' = IF prClosed["registry"] THEN prRegistered ELSE prRegistered \cup {prCall[t].of}
    /\ UNCHANGED <<stateVars, prAccount>>

\* What was recorded about the provider stays.
Unregister(t) ==
    /\ Writes(t, "unregister")
    /\ prRegistered' = IF prClosed["registry"] THEN prRegistered ELSE prRegistered \ {prCall[t].of}
    /\ UNCHANGED <<stateVars, prAccount>>

RecordUsage(t) ==
    /\ Writes(t, "record")
    /\ prAccount' = prAccount + 1
    /\ UNCHANGED <<prRegistered, stateVars>>

-----------------------------------------------------------------------------
(* Close: three locks, each taken under the one before.                    *)

CloseEnter(t) ==
    /\ At(t, "close", "enter") /\ CanWrite(t, "registry")
    /\ IF prClosed["registry"]
       THEN prLocks' = Written(prLocks, t, "registry") /\ Ends(t)
       ELSE prLocks' = Waiting(WriteHeld(prLocks, t, "registry"), t, "failover") /\ Goes(t, "failover")
    /\ UNCHANGED <<prRegistered, prUp, stateVars, prAccount, prCalls, prPicked>>

CloseFailover(t) ==
    /\ At(t, "close", "failover") /\ CanWrite(t, "failover")
    /\ prLocks' = Waiting(WriteHeld(prLocks, t, "failover"), t, "health")
    /\ Goes(t, "health")
    /\ UNCHANGED <<prRegistered, prUp, stateVars, prAccount, prCalls, prPicked>>

CloseRest(t) ==
    /\ At(t, "close", "health") /\ CanWrite(t, "health")
    /\ prLocks' = [l \in Locks |-> Written(prLocks, t, l)[l]]
    /\ prClosed' = [l \in {"registry", "failover", "health"} |-> TRUE]
    /\ prRegistered' = {}
    /\ prStates' = [p \in Providers |-> NoState]
    /\ prRun' = [p \in Providers |-> 0]
    /\ Ends(t)
    /\ UNCHANGED <<prUp, prAccount, prCalls, prPicked>>

-----------------------------------------------------------------------------
(* GetWithFailover: the registry is locked throughout, the failover        *)
(* manager for one question after the other.                               *)

Attempts(p) == ~prClosed["failover"] /\ prStates[p].circuit # "open"

PickEnter(t) ==
    /\ At(t, "pick", "enter") /\ CanRead("registry")
    /\ IF prClosed["registry"]
       THEN Ends(t) /\ UNCHANGED prLocks
       ELSE prLocks' = ReadHeld(prLocks, t, "registry", 1) /\ Goes(t, "primary")
    /\ UNCHANGED <<prRegistered, prUp, stateVars, prAccount, prCalls, prPicked>>

Given(t, p) ==
    /\ prPicked' = [prPicked EXCEPT ![t] = p]
    /\ prLocks' = ReadHeld(prLocks, t, "registry", 0)
    /\ Ends(t)

\* Only a missing primary is recorded, not one that is down.
PickPrimary(t) ==
    LET p == prCall[t].of
    IN  /\ At(t, "pick", "primary") /\ CanRead("failover")
        /\ \/ /\ Attempts(p) /\ p \in prRegistered /\ p \in prUp
              /\ Given(t, p)
           \/ /\ Attempts(p) /\ p \notin prRegistered
              /\ prLocks' = Waiting(prLocks, t, "failover")
              /\ Goes(t, "missing")
              /\ UNCHANGED prPicked
           \/ /\ ~Attempts(p) \/ p \in prRegistered \ prUp
              /\ Goes(t, "backups")
              /\ UNCHANGED <<prLocks, prPicked>>
        /\ UNCHANGED <<prRegistered, prUp, stateVars, prAccount, prCalls>>

PickMissing(t) ==
    /\ At(t, "pick", "missing") /\ CanWrite(t, "failover")
    /\ prLocks' = Written(prLocks, t, "failover")
    /\ FailedIn(prCall[t].of)
    /\ Goes(t, "backups")
    /\ UNCHANGED <<prRegistered, prUp, prClosed, prAccount, prCalls, prPicked>>

Backups(t) == prRegistered \ {prCall[t].of}

\* The backups are asked about in the order of the map.
PickCandidate(t, p) ==
    /\ At(t, "pick", "backups") /\ p \in Backups(t) \ prCall[t].seen /\ CanRead("failover")
    /\ prCall' = [prCall EXCEPT ![t].seen = @ \cup {p},
                                ![t].fit = IF Attempts(p) THEN @ \cup {p} ELSE @]
    /\ UNCHANGED <<prRegistered, prUp, stateVars, prAccount, prLocks, prCalls, prPicked>>

\* Mutant of PickBackup: of the first priority, whether it is up or not.
PickBackupFirst(t, p) ==
    /\ At(t, "pick", "backups") /\ prCall[t].seen = Backups(t)
    /\ IF p = NoProvider THEN prCall[t].fit = {}
       ELSE p \in prCall[t].fit /\ \A q \in prCall[t].fit : PriorityOf[p] <= PriorityOf[q]
    /\ Given(t, p)
    /\ UNCHANGED <<prRegistered, prUp, stateVars, prAccount, prCalls>>

\* The first in the order of priorities that is up.
PickBackup(t, p) ==
    LET up == prCall[t].fit \cap prUp
    IN  /\ At(t, "pick", "backups") /\ prCall[t].seen = Backups(t)
        /\ IF p = NoProvider THEN up = {}
           ELSE p \in up /\ \A q \in up : PriorityOf[p] <= PriorityOf[q]
        /\ Given(t, p)
        /\ UNCHANGED <<prRegistered, prUp, stateVars, prAccount, prCalls>>

-----------------------------------------------------------------------------
(* Reads that take two locks.                                              *)

Nested == [check |-> <<"health", "registry">>, states |-> <<"failover", "failover">>,
           stats |-> <<"account", "account">>]

ReadOuter(t) ==
    LET op == prCall[t].op
    IN  /\ op \in DOMAIN Nested /\ prCall[t].at = "enter"
        /\ CanRead(Nested[op][1])
        /\ prLocks' = ReadHeld(prLocks, t, Nested[op][1], 1)
        /\ Goes(t, "inner")
        /\ UNCHANGED <<prRegistered, prUp, stateVars, prAccount, prCalls, prPicked>>

\* The second lock and its release, then the first is released.
ReadInner(t) ==
    LET op == prCall[t].op
    IN  /\ op \in DOMAIN Nested /\ prCall[t].at = "inner"
        /\ CanRead(Nested[op][2])
        /\ prLocks' = ReadHeld(prLocks, t, Nested[op][1], 0)
        /\ Ends(t)
        /\ UNCHANGED <<prRegistered, prUp, stateVars, prAccount, prCalls, prPicked>>

\* IsProviderHealthy: the health, then, under the other lock, the circuit.
ReadHealthy(t) ==
    /\ prCall[t].op = "healthy"
    /\ \/ At(t, "healthy", "enter") /\ CanRead("health") /\ Goes(t, "circuit")
       \/ At(t, "healthy", "circuit") /\ CanRead("failover") /\ Ends(t)
    /\ UNCHANGED <<prRegistered, prUp, stateVars, prAccount, prLocks, prCalls, prPicked>>

\* The first lock of a reading call.
ReadLock == [pick |-> "registry", check |-> "health", states |-> "failover", stats |-> "account",
             healthy |-> "health"]

\* The lock that goroutine t needs for its next step is to be had; at the end of the
\* backups it needs none.
CanGo(t) ==
    LET c == prCall[t]
    IN  \/ c.at = "enter" /\ c.op \in Readers /\ CanRead(ReadLock[c.op])
        \/ c.at = "enter" /\ c.op \in DOMAIN WriteLock /\ CanWrite(t, WriteLock[c.op])
        \/ c.at \in {"primary", "circuit"} /\ CanRead("failover")
        \/ c.at = "backups" /\ (c.seen = Backups(t) \/ CanRead("failover"))
        \/ c.at \in {"missing", "failover"} /\ CanWrite(t, "failover")
        \/ c.at = "health" /\ CanWrite(t, "health")
        \/ c.at = "inner" /\ CanRead(Nested[c.op][2])

Step(t) ==
    \/ RecordFailure(t) \/ RecordSuccess(t) \/ Reset(t) \/ ResetAll(t) \/ SetUnhealthy(t)
    \/ Register(t) \/ Unregister(t) \/ RecordUsage(t)
    \/ CloseEnter(t) \/ CloseFailover(t) \/ CloseRest(t)
    \/ PickEnter(t) \/ PickPrimary(t) \/ PickMissing(t)
    \/ \E p \in Providers : PickCandidate(t, p)
    \/ \E p \in Providers \cup {NoProvider} : PickBackup(t, p)
    \/ ReadOuter(t) \/ ReadInner(t) \/ ReadHealthy(t)

PrNext ==
    \/ \E p \in Providers : Turn(p) \/ CircuitExpires(p)
    \/ \E t \in PrCallers :
         \/ \E op \in Readers \cup DOMAIN WriteLock, p \in Providers : Call(t, op, p)
         \/ Step(t)

PrSpec == PrInit /\ [][PrNext]_prVars

-----------------------------------------------------------------------------
(* Properties                                                              *)

\* A mutex has one writer or readers.
PrTypeOK ==
    /\ prRegistered \subseteq Providers /\ prUp \subseteq Providers
    /\ prStates \in [Providers -> [fails : Nat, circuit : {"none", "zero", "open", "expired"},
                                   health : {"none", "empty", "healthy", "unhealthy"}]]
    /\ prAccount \in 0..MaxPrCalls /\ prCalls \in 0..MaxPrCalls
    /\ prRun \in [Providers -> 0..MaxPrCalls]
    /\ prPicked \in [PrCallers -> Providers \cup {NoProvider}]
    /\ \A l \in Locks :
         /\ prLocks[l].writer \subseteq PrCallers /\ prLocks[l].waiting \subseteq PrCallers
         /\ Cardinality(prLocks[l].writer) <= 1
         /\ prLocks[l].writer # {} => \A t \in PrCallers : prLocks[l].readers[t] = 0

\* The circuit of a provider opens with the threshold of failures in a row, and
\* nothing but a success, a reset or Close ends the row: not an unregistration,
\* and not the timeout, after which one more failure is enough (failover.go:226).
CircuitFollowsCalls ==
    \A p \in Providers :
        /\ prStates[p].fails = prRun[p]
        /\ prStates[p].circuit \in {"open", "expired"} <=> prRun[p] >= Threshold

\* A goroutine is given a provider that is registered and up, although the
\* registry may be changed, and closed, while it chooses (registry.go:441).
PickedIsFit ==
    [][\A t \in PrCallers :
        prCall[t].op = "pick" /\ prCall'[t] = NoCall /\ prPicked'[t] # NoProvider
        /\ prPicked'[t] # prPicked[t]
            => prPicked'[t] \in prRegistered' \cap prUp']_prVars

\* Nothing is registered in a closed registry, and nobody is inside it.
ClosedIsEmpty ==
    prClosed["registry"] =>
        prRegistered = {} /\ \A t \in PrCallers : prLocks["registry"].readers[t] = 0

\* What makes calls wait for each other for ever: Close of the registry against
\* HealthCheck, which lock registry and health checker in opposite orders, and a
\* writer between the two read locks of GetAllProviderStates or of GetSummary
\* (failover.go:386, token_accounting.go:221).
StuckOnlySo ==
    LET busy == {t \in PrCallers : prCall[t] # NoCall}
        writerBetween(l) == prLocks[l].waiting # {} /\ \E t \in PrCallers : prLocks[l].readers[t] > 0
    IN  busy # {} /\ (\A t \in busy : ~CanGo(t)) =>
            \/ \E t, u \in busy : At(t, "check", "inner") /\ prCall[u].op = "close"
            \/ \E t \in busy : At(t, "states", "inner") /\ writerBetween("failover")
            \/ \E t \in busy : At(t, "stats", "inner") /\ writerBetween("account")

\* Providers fail, recover, come and go while others choose among them: the choice
\* is fit, the circuit follows the calls, a closed registry is empty, and calls wait
\* for each other for ever in the known cases only (registry.go, failover.go).
ProvidersChosen ==
    /\ [](PrTypeOK /\ CircuitFollowsCalls /\ ClosedIsEmpty /\ StuckOnlySo)
    /\ PickedIsFit
=============================================================================
