--------------------------- MODULE PolicyInForce ----------------------------
(***************************************************************************)
(* Which policy is in force: the enforcer that applies it, and the reloaders*)
(* that replace it and the configuration.  They share no state.            *)
(***************************************************************************)
EXTENDS Integers, Sequences

-----------------------------------------------------------------------------
(***************************************************************************)
(* The policy enforcer (pkg/policy: enforcer.go, rules.go and              *)
(* mount_allowlist.go): which container configurations a policy allows,    *)
(* what it makes of them, and the lock around both.                        *)
(*                                                                         *)
(* Enforcer.mu is a sync.RWMutex (external): a waiting writer keeps new    *)
(* readers out.  EnforceContainerConfig holds the read lock while it calls *)
(* ValidateContainerConfig, which takes it again.                          *)
(*                                                                         *)
(* A policy keeps one member of each family of rules: CPU quotas for the   *)
(* quotas, a bind mount of one path for the mounts, the network, the       *)
(* read-only root; lists of patterns are what they say about that path.    *)
(***************************************************************************)
CONSTANTS
    PeCallers,      \* goroutines that use the enforcer
    GlobalPolicies, \* policies given to SetPolicy; the first is the default
    SessionPolicies,\* policies given to SetSessionPolicy
    Configs,        \* container configurations
    DefaultGlobal,
    NoPolicy

Policies ==
    [mode : {"strict", "permissive", "disabled"}, max : Int, min : Int,
     net : BOOLEAN, bind : BOOLEAN, ro : BOOLEAN,
     allowed : {"empty", "matches", "other"}, denied : {"empty", "matches", "other"},
     entries : Seq([for : {"user", "group", "all", "other"}, mode : {"readonly", "readwrite", "denied"}])]

ASSUME PeAssumption ==
    /\ GlobalPolicies \subseteq Policies /\ SessionPolicies \subseteq Policies
    /\ DefaultGlobal \in GlobalPolicies /\ NoPolicy \notin SessionPolicies
    /\ Configs \subseteq [cpu : Int, net : {"none", "bridge"}, mount : {"none", "ro", "rw"}, ro : BOOLEAN]

VARIABLES
    peGlobal,       \* Enforcer.policy, also that of the mount resolver
    peSession,      \* sessionPolicies of the session, or NoPolicy
    peClosed,       \* Enforcer.closed
    peCall,         \* what each goroutine does
    peReads,        \* read locks each goroutine holds
    peWaits         \* goroutines that wait for the write lock

peVars == <<peGlobal, peSession, peClosed, peCall, peReads, peWaits>>

PeIdle == [op |-> "none"]

PeInit ==
    /\ peGlobal = DefaultGlobal /\ peSession = NoPolicy /\ peClosed = FALSE
    /\ peCall = [t \in PeCallers |-> PeIdle] /\ peReads = [t \in PeCallers |-> 0] /\ peWaits = {}

-----------------------------------------------------------------------------
(* Rules.                                                                  *)

\* Zero stands for a limit that is not set.
Valid(p) == p.max # 0 /\ p.min # 0 => p.min <= p.max

\* The session's policy takes precedence: flags and mode always, limits and lists
\* when it has them.  The result is not validated again.
Merge(p, o) ==
    [o EXCEPT !.max = IF o.max # 0 THEN o.max ELSE p.max,
              !.min = IF o.min # 0 THEN o.min ELSE p.min,
              !.allowed = IF o.allowed # "empty" THEN o.allowed ELSE p.allowed,
              !.denied = IF o.denied # "empty" THEN o.denied ELSE p.denied,
              !.entries = IF o.entries # << >> THEN o.entries ELSE p.entries]

Applicable == IF peSession = NoPolicy THEN peGlobal ELSE Merge(peGlobal, peSession)

\* isPathAllowed: the denied list first, and an empty allowed list allows all.
PathAllowed(p) == p.denied # "matches" /\ p.allowed # "other"

Priority == [user |-> 3, group |-> 2, all |-> 1, other |-> 0]

\* ResolveMountAccess: the entry for the user, else for one of its groups, else
\* for all; the first of several.
Resolve(entries) ==
    LET own == {i \in DOMAIN entries : Priority[entries[i].for] > 0}
        best == CHOOSE i \in own : \A j \in own :
                    \/ Priority[entries[i].for] > Priority[entries[j].for]
                    \/ Priority[entries[i].for] = Priority[entries[j].for] /\ i <= j
    IN  IF own = {} THEN "denied" ELSE entries[best].mode

QuotaViolations(p, c) ==
    {r \in {"quota.cpu.max"} : c.cpu > 0 /\ p.max # 0 /\ c.cpu > p.max} \cup
    {r \in {"quota.cpu.min"} : c.cpu > 0 /\ p.min # 0 /\ c.cpu < p.min}

\* The allowlist of the applicable policy decides whether one is used, that of
\* the global policy what it says.
MountViolations(p, c) ==
    LET allowed == IF p.entries # << >> THEN Resolve(peGlobal.entries) # "denied" ELSE PathAllowed(p)
    IN  {r \in {"mount.bind.disabled"} : c.mount # "none" /\ ~p.bind} \cup
        {r \in {"mount.bind.source_not_allowed"} : c.mount # "none" /\ p.bind /\ ~allowed} \cup
        {r \in {"mount.readonly_rootfs.required"} : p.ro /\ ~c.ro}

NetworkViolations(p, c) == {r \in {"network.disabled"} : ~p.net /\ c.net # "none"}

Violations(p, c) == QuotaViolations(p, c) \cup MountViolations(p, c) \cup NetworkViolations(p, c)

Allowed(p, c) == p.mode # "strict" \/ Violations(p, c) = {}

Harden(p, c) == IF p.mode # "disabled" /\ ~p.net THEN [c EXCEPT !.net = "none"] ELSE c

\* Defaults and constraints, once the configuration is allowed.
Constrain(p, c) ==
    IF p.mode = "disabled" THEN c
    ELSE [c EXCEPT !.cpu = IF c.cpu = 0 THEN p.max ELSE c.cpu,
                   !.ro = c.ro \/ p.ro,
                   !.mount = IF c.mount = "rw" /\ p.entries # << >> /\ Resolve(peGlobal.entries) = "readonly"
                             THEN "ro" ELSE c.mount]

-----------------------------------------------------------------------------
(* The lock.                                                               *)

CanReadLock == peWaits = {}

CanWriteLock(t) == \A u \in PeCallers : peReads[u] = 0

ReadLock(t) == CanReadLock /\ peReads' = [peReads EXCEPT ![t] = @ + 1]
Unlock(t) == peReads' = [peReads EXCEPT ![t] = @ - 1]

-----------------------------------------------------------------------------
(* SetPolicy, SetSessionPolicy, RemoveSessionPolicy and Close.             *)

WriteBegin(t) ==
    /\ peCall[t] = PeIdle /\ t \notin peWaits
    /\ \E op \in {[op |-> "set", policy |-> p] : p \in GlobalPolicies} \cup
                 {[op |-> "session", policy |-> p] : p \in SessionPolicies} \cup
                 {[op |-> "remove"], [op |-> "close"]} :
         peCall' = [peCall EXCEPT ![t] = op]
    /\ peWaits' = peWaits \cup {t}
    /\ UNCHANGED <<peGlobal, peSession, peClosed, peReads>>

\* A closed enforcer and an invalid policy are refused.
WritePolicy(t) ==
    LET c == peCall[t] IN
    /\ t \in peWaits /\ CanWriteLock(t)
    /\ peWaits' = peWaits \ {t} /\ peCall' = [peCall EXCEPT ![t] = PeIdle]
    /\ peGlobal' = IF c.op = "set" /\ ~peClosed /\ Valid(c.policy) THEN c.policy ELSE peGlobal
    /\ peSession' = IF peClosed THEN peSession
                    ELSE IF c.op = "session" /\ Valid(c.policy) THEN c.policy
                    ELSE IF c.op = "remove" THEN NoPolicy ELSE peSession
    /\ peClosed' = (peClosed \/ c.op = "close")
    /\ UNCHANGED peReads

-----------------------------------------------------------------------------
(* EnforceContainerConfig and ValidateContainerConfig.                     *)

EnforceOuter(t) ==
    /\ peCall[t] = PeIdle /\ ~peClosed /\ ReadLock(t)
    /\ \E c \in Configs :
         peCall' = [peCall EXCEPT ![t] = IF Applicable.mode = "disabled"
                                         THEN [op |-> "enforced", config |-> c]
                                         ELSE [op |-> "validate", config |-> Harden(Applicable, c)]]
    /\ UNCHANGED <<peGlobal, peSession, peClosed, peWaits>>

EnforceInner(t) ==
    /\ peCall[t].op = "validate" /\ ReadLock(t)
    /\ peCall' = [peCall EXCEPT ![t].op = IF Allowed(Applicable, peCall[t].config) THEN "allowed" ELSE "refused"]
    /\ UNCHANGED <<peGlobal, peSession, peClosed, peWaits>>

Validated(t) ==
    /\ peCall[t].op \in {"allowed", "refused"} /\ Unlock(t)
    /\ peCall' = [peCall EXCEPT ![t] = IF @.op = "allowed"
                                       THEN [op |-> "enforced", config |-> Constrain(Applicable, @.config)]
                                       ELSE [op |-> "error"]]
    /\ UNCHANGED <<peGlobal, peSession, peClosed, peWaits>>

EnforceReturn(t) ==
    /\ peCall[t].op \in {"enforced", "error"} /\ Unlock(t)
    /\ peCall' = [peCall EXCEPT ![t] = PeIdle]
    /\ UNCHANGED <<peGlobal, peSession, peClosed, peWaits>>

\* Held up by the lock: all other steps of a call can always be taken.
Waits(t) ==
    \/ t \in peWaits /\ ~CanWriteLock(t)
    \/ peCall[t].op = "validate" /\ ~CanReadLock

PeStep(t) == WritePolicy(t) \/ EnforceInner(t) \/ Validated(t) \/ EnforceReturn(t)

PeNext == \E t \in PeCallers : WriteBegin(t) \/ EnforceOuter(t) \/ PeStep(t)

PeSpec == PeInit /\ [][PeNext]_peVars

-----------------------------------------------------------------------------
(* Properties                                                              *)

\* Readers in a call hold its locks, and nobody holds any otherwise.
PeTypeOK ==
    /\ peGlobal \in GlobalPolicies /\ peSession \in SessionPolicies \cup {NoPolicy}
    /\ peClosed \in BOOLEAN /\ peWaits \subseteq PeCallers
    /\ \A t \in PeCallers :
         /\ peReads[t] = IF peCall[t].op \in {"validate", "enforced", "error"} THEN 1
                         ELSE IF peCall[t].op \in {"allowed", "refused"} THEN 2 ELSE 0
         /\ t \in peWaits <=> peCall[t].op \in {"set", "session", "remove", "close"}

\* What the policy p says of a bind mount of the path: its allowlist if it has one,
\* else its lists of sources.
MountMode(p) ==
    IF p.entries # << >> THEN Resolve(p.entries) ELSE IF PathAllowed(p) THEN "readwrite" ELSE "denied"

SessionAllowlist == peSession # NoPolicy /\ peSession.entries # << >>

\* What EnforceContainerConfig returns satisfies the policy in force when it
\* returns, whoever changes policies meanwhile: in strict mode all of it, and in
\* every mode no mount is writable that the allowlist makes read-only.  A session
\* policy may contradict the global one once they are merged: then nothing is
\* promised.  Nor is anything of the entries of a session's own allowlist
\* (rules.go:171, enforcer.go:348, :746, :807).
EnforcedConforms ==
    \A t \in PeCallers :
        LET p == Applicable  c == peCall[t].config IN
        peCall[t].op = "enforced" /\ Valid(p) =>
            /\ p.mode = "strict" =>
                 /\ c.cpu > 0 => (p.max # 0 => c.cpu <= p.max) /\ (p.min # 0 => p.min <= c.cpu)
                 /\ ~p.net => c.net = "none"
                 /\ p.ro => c.ro
                 /\ c.mount # "none" => p.bind /\ (SessionAllowlist \/ MountMode(p) # "denied")
            /\ p.mode # "disabled" /\ c.mount = "rw" => SessionAllowlist \/ MountMode(p) # "readonly"

\* The mode of a mount does not depend on the order of entries of different
\* rank: a user's own entry decides wherever it is (mount_allowlist.go:129).
OrderIsNoMatter ==
    LET entries   == peGlobal.entries
        backwards == [i \in DOMAIN entries |-> entries[Len(entries) + 1 - i]]
    IN  (\A i, j \in DOMAIN entries : i # j => entries[i].for # entries[j].for) =>
            Resolve(backwards) = Resolve(entries)

\* Calls wait for each other for ever in one case only: a writer came between the
\* two read locks of EnforceContainerConfig (enforcer.go:746).
EnforcerStuckOnlySo ==
    LET busy == {t \in PeCallers : peCall[t] # PeIdle} IN
    busy # {} /\ (\A t \in busy : Waits(t)) =>
        peWaits # {} /\ \E t \in busy : peCall[t].op = "validate"

-----------------------------------------------------------------------------
(***************************************************************************)
(* The reloaders of the policy and of the configuration, which have the    *)
(* same shape: a goroutine takes SIGHUPs and starts a Reload for each; a   *)
(* Reload reads the file, hands the result to the callbacks in order and,  *)
(* when all accepted it, publishes it as the current one.                  *)
(*                                                                         *)
(* Reload holds the mutex only to test and set the state; the file and the *)
(* callbacks are used outside it, so Stop, Start and other Reloads come in *)
(* between.  The file's contents are numbered in the order of the edits.   *)
(***************************************************************************)
CONSTANTS
    Consumers,   \* number of callbacks
    Reloads,     \* ids of the Reload calls that may be in flight together
    MaxEdits     \* bound: edits of the file

ASSUME RlAssumption == Consumers \in Nat /\ MaxEdits \in Nat

VARIABLES
    rlState,     \* state
    rlStarted,   \* started
    rlLive,      \* reloadCtx is not canceled
    handlers,    \* running handleSignals goroutines
    hangup,      \* signalChan, of capacity one
    file,        \* version of the file and whether it loads
    current,     \* version of currentPolicy or currentConfig
    applied,     \* version each callback accepted last
    reload,      \* the Reload calls
    overlapped   \* history: a Reload was stopped under way, or ran when stopped

rlVars == <<rlState, rlStarted, rlLive, handlers, hangup, file, current, applied, reload, overlapped>>

ReloadState == {"idle", "reloading", "stopped"}
Version == 0..MaxEdits
NoReload == [at |-> "none", version |-> 0, next |-> 1]

RlInit ==
    /\ rlState = "idle" /\ rlStarted = FALSE /\ rlLive = TRUE
    /\ handlers = 0 /\ hangup = FALSE
    /\ file = [version |-> 0, ok |-> TRUE]
    /\ current = 0 /\ applied = [c \in 1..Consumers |-> 0]
    /\ reload = [r \in Reloads |-> NoReload]
    /\ overlapped = FALSE

InFlight == \E r \in Reloads : reload[r].at \in {"load", "callbacks"}

-----------------------------------------------------------------------------
(* External: an administrator edits the file and sends SIGHUP.             *)

EditFile ==
    /\ file.version < MaxEdits
    /\ \E ok \in BOOLEAN : file' = [version |-> file.version + 1, ok |-> ok]
    /\ UNCHANGED <<rlState, rlStarted, rlLive, handlers, hangup, current, applied, reload, overlapped>>

Hangup ==
    /\ rlStarted
    /\ ~hangup /\ hangup' = TRUE
    /\ UNCHANGED <<rlState, rlStarted, rlLive, handlers, file, current, applied, reload, overlapped>>

-----------------------------------------------------------------------------

\* The context is renewed only when the state says stopped.
StartListening ==
    /\ ~rlStarted
    /\ rlStarted' = TRUE
    /\ rlLive' = (rlLive \/ rlState = "stopped")
    /\ rlState' = IF rlState = "stopped" THEN "idle" ELSE rlState
    /\ handlers < 2 \* bound: goroutines that have not noticed the end
    /\ handlers' = handlers + 1
    /\ UNCHANGED <<hangup, file, current, applied, reload, overlapped>>

StopListening ==
    /\ rlStarted
    /\ rlStarted' = FALSE /\ rlLive' = FALSE
    /\ rlState' = "stopped"
    /\ overlapped' = (overlapped \/ InFlight)
    /\ UNCHANGED <<handlers, hangup, file, current, applied, reload>>

\* handleSignals: a Reload in a goroutine of its own for every signal.
TakeSignal ==
    /\ handlers > 0 /\ hangup
    /\ hangup' = FALSE
    /\ \E r \in Reloads :
        /\ reload[r].at = "none"
        /\ reload' = [reload EXCEPT ![r].at = "begin"]
    /\ UNCHANGED <<rlState, rlStarted, rlLive, handlers, file, current, applied, overlapped>>

HandlerEnds ==
    /\ handlers > 0 /\ ~rlLive
    /\ handlers' = handlers - 1
    /\ UNCHANGED <<rlState, rlStarted, rlLive, hangup, file, current, applied, reload, overlapped>>

-----------------------------------------------------------------------------
(* Reload.                                                                 *)

\* Mutant: Reload does not notice that one is running
NeverBusy == FALSE

Busy == rlState = "reloading"

\* A Reload during another one is skipped and reports success.
Begin(r) ==
    /\ reload[r].at = "begin"
    /\ \/ /\ Busy
          /\ reload' = [reload EXCEPT ![r] = NoReload]
          /\ UNCHANGED <<rlState, overlapped>>
       \/ /\ ~Busy
          /\ reload' = [reload EXCEPT ![r].at = "load"]
          /\ rlState' = "reloading"
          /\ overlapped' = (overlapped \/ rlState = "stopped")
    /\ UNCHANGED <<rlStarted, rlLive, handlers, hangup, file, current, applied>>

\* The end of a Reload sets the state whatever it has become meanwhile.
LoadFromFile(r) ==
    /\ reload[r].at = "load"
    /\ \/ /\ file.ok
          /\ reload' = [reload EXCEPT ![r] = [at |-> "callbacks", version |-> file.version, next |-> 1]]
          /\ UNCHANGED rlState
       \/ /\ ~file.ok
          /\ reload' = [reload EXCEPT ![r] = NoReload]
          /\ rlState' = "idle"
    /\ UNCHANGED <<rlStarted, rlLive, handlers, hangup, file, current, applied, overlapped>>

CallbackFails(r) ==
    /\ reload' = [reload EXCEPT ![r] = NoReload]
    /\ rlState' = "idle"
    /\ UNCHANGED applied

Callback(r) ==
    /\ reload[r].at = "callbacks" /\ reload[r].next <= Consumers
    /\ \/ /\ applied' = [applied EXCEPT ![reload[r].next] = reload[r].version]
          /\ reload' = [reload EXCEPT ![r].next = @ + 1]
          /\ UNCHANGED rlState
       \/ CallbackFails(r)
    /\ UNCHANGED <<rlStarted, rlLive, handlers, hangup, file, current, overlapped>>

Publish(r) ==
    /\ reload[r].at = "callbacks" /\ reload[r].next > Consumers
    /\ current' = reload[r].version
    /\ reload' = [reload EXCEPT ![r] = NoReload]
    /\ rlState' = "idle"
    /\ UNCHANGED <<rlStarted, rlLive, handlers, hangup, file, applied, overlapped>>

RlNext ==
    \/ EditFile \/ Hangup \/ StartListening \/ StopListening \/ TakeSignal \/ HandlerEnds
    \/ \E r \in Reloads : Begin(r) \/ LoadFromFile(r) \/ Callback(r) \/ Publish(r)

RlSpec == RlInit /\ [][RlNext]_rlVars

-----------------------------------------------------------------------------
\* Every variable has its type; the state says reloading exactly while a
\* Reload that nobody stopped is in flight.
RlTypeOK ==
    /\ rlState \in ReloadState
    /\ {rlStarted, rlLive, hangup, overlapped} \subseteq BOOLEAN
    /\ handlers \in 0..2
    /\ file \in [version : Version, ok : BOOLEAN]
    /\ current \in Version /\ applied \in [1..Consumers -> Version]
    /\ reload \in [Reloads -> [at : {"none", "begin", "load", "callbacks"}, version : Version, next : 1..Consumers + 1]]
    /\ ~overlapped => (rlState = "reloading" <=> InFlight)

\* What GetPolicy and GetConfig report has been accepted by every callback:
\* the enforcer is never behind the policy the reloader shows.
ShownIsApplied == ~overlapped => \A c \in 1..Consumers : current <= applied[c]

\* A Reload that read the file earlier does not replace what a later one
\* published or gave to a callback, unless a Stop let both run.
NoOldVersion ==
    [][~overlapped => current' >= current /\ \A c \in 1..Consumers : applied'[c] >= applied[c]]_rlVars

\* A started reloader has a goroutine that takes signals and a context that
\* lets it run, also after Stop and Start, unless a Reload overlapped the
\* Stop: then the context stays canceled and signals are not taken.
Listens == rlStarted /\ ~overlapped => rlLive /\ handlers > 0

\* What the reloaders show is applied and never replaced by an older version; what the
\* enforcer lets pass satisfies the policy in force; and calls hang in the known case
\* only (pkg/policy, reload.go).
PolicyApplied ==
    /\ [](/\ RlTypeOK
          /\ ShownIsApplied
          /\ Listens
          /\ PeTypeOK
          /\ EnforcedConforms
          /\ OrderIsNoMatter
          /\ EnforcerStuckOnlySo)
    /\ NoOldVersion
=============================================================================
