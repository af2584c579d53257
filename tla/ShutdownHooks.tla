---------------------------- MODULE ShutdownHooks ----------------------------
(***************************************************************************)
(* ShutdownManager of the assistant (agents/assistant/src/shutdown.ts):    *)
(* hooks run twice, before and after the state says stopping, each against *)
(* a timer, all against the timer of the shutdown; callers that come       *)
(* meanwhile share its completion promise, or do not.                      *)
(*                                                                         *)
(* One thread runs it: an action is what happens between two awaits.       *)
(***************************************************************************)
EXTENDS Naturals, Sequences, FiniteSets

CONSTANTS
    Hooks,          \* 1..n, in the order they were added
    Stoppers,       \* callers of shutdown
    Waiters         \* callers of waitCompletion

VARIABLES
    shState,        \* ShutdownManager.state
    shRunner,       \* the caller that holds shutdownLock, 0 for none
    shAt,           \* the hook that is awaited, and its phase
    shFailures,     \* hooks of the phase that failed
    shAborted,      \* the timer of the shutdown fired
    shPromise,      \* completionPromise: "none", "pending", or "settled" and forgotten
    shCaller,       \* what became of each caller
    shHook          \* of each phase and hook: "no", "running", "ended", "failed", "abandoned", "late"

shVars == <<shState, shRunner, shAt, shFailures, shAborted, shPromise, shCaller, shHook>>

Phases == {"pre", "post"}
Last == Cardinality(Hooks)
NoHook == [phase |-> "none", hook |-> 0]
ShCallers == Stoppers \cup Waiters

\* Hooks are awaited one after the other, from the first to the last.
ASSUME StoppersAssumption == Last \in Nat \ {0} /\ Hooks = 1..Last /\ 0 \notin Stoppers

ShInit ==
    /\ shState = "running" /\ shRunner = 0 /\ shAt = NoHook /\ shFailures = 0 /\ shAborted = FALSE
    /\ shPromise = "none" /\ shCaller = [c \in ShCallers |-> "no"]
    /\ shHook = [p \in Phases |-> [h \in Hooks |-> "no"]]

-----------------------------------------------------------------------------
(* Callers.                                                                  *)

\* A plausible slip: with the lock free, a shutdown begins.
ShutdownBeginsAgain(c) ==
    /\ shCaller[c] = "no" /\ shRunner = 0
    /\ shState' = "initiated" /\ shRunner' = c
    /\ shCaller' = [shCaller EXCEPT ![c] = "running"]
    /\ shAt' = [phase |-> "pre", hook |-> 1]
    /\ shHook' = [shHook EXCEPT !["pre"][1] = "running"]
    /\ UNCHANGED <<shFailures, shAborted, shPromise>>

\* The lock is free again after a shutdown that failed, but the state is not.
ShutdownBegins(c) ==
    /\ shCaller[c] = "no" /\ shRunner = 0
    /\ IF shState # "running"
       THEN /\ shCaller' = [shCaller EXCEPT ![c] = "threw"]
            /\ UNCHANGED <<shState, shRunner, shAt, shHook>>
       ELSE /\ shState' = "initiated" /\ shRunner' = c
            /\ shCaller' = [shCaller EXCEPT ![c] = "running"]
            /\ shAt' = [phase |-> "pre", hook |-> 1]
            /\ shHook' = [shHook EXCEPT !["pre"][1] = "running"]
    /\ UNCHANGED <<shFailures, shAborted, shPromise>>

\* A second caller waits if somebody made the promise, and returns at once otherwise.
ShutdownJoins(c) ==
    /\ shCaller[c] = "no" /\ shRunner # 0
    /\ shCaller' = [shCaller EXCEPT ![c] = IF shPromise = "pending" THEN "waiting" ELSE "returned"]
    /\ UNCHANGED <<shState, shRunner, shAt, shFailures, shAborted, shPromise, shHook>>

WaitCompletion(c) ==
    /\ shCaller[c] = "no"
    /\ IF shState = "complete"
       THEN shCaller' = [shCaller EXCEPT ![c] = "returned"] /\ UNCHANGED shPromise
       ELSE shCaller' = [shCaller EXCEPT ![c] = "waiting"] /\ shPromise' = "pending"
    /\ UNCHANGED <<shState, shRunner, shAt, shFailures, shAborted, shHook>>

\* The timer a waiter brought along.
WaitTimesOut(c) ==
    /\ shCaller[c] = "waiting" /\ shCaller' = [shCaller EXCEPT ![c] = "threw"]
    /\ UNCHANGED <<shState, shRunner, shAt, shFailures, shAborted, shPromise, shHook>>

-----------------------------------------------------------------------------
(* The shutdown.                                                           *)

\* shutdown throws: the lock is released, nothing else is undone, and the waiters of
\* the completion promise are not told.
Throws ==
    /\ shRunner' = 0 /\ shAt' = NoHook
    /\ shCaller' = [shCaller EXCEPT ![shRunner] = "threw"]
    /\ UNCHANGED <<shState, shPromise>>

\* After the last hook of a phase: the errors are thrown together, or the next phase
\* begins, or the shutdown is complete and its waiters return.
GoOn(hooks, failures) ==
    IF failures > 0
    THEN Throws /\ shHook' = hooks /\ shFailures' = failures
    ELSE IF shAt.phase = "pre"
    THEN /\ shState' = "stopping" /\ shAt' = [phase |-> "post", hook |-> 1]
         /\ shHook' = [hooks EXCEPT !["post"][1] = "running"] /\ shFailures' = 0
         /\ UNCHANGED <<shRunner, shCaller, shPromise>>
    ELSE /\ shState' = "complete" /\ shRunner' = 0 /\ shAt' = NoHook /\ shHook' = hooks /\ shFailures' = 0
         /\ shPromise' = IF shPromise = "pending" THEN "settled" ELSE shPromise
         /\ shCaller' = [c \in ShCallers |-> IF c = shRunner \/ shCaller[c] = "waiting" THEN "returned" ELSE shCaller[c]]

\* The awaited hook ends, fails, or its timer fires and it goes on by itself.  The
\* next one starts unless the timer of the shutdown has fired meanwhile.
HookReturns(how) ==
    /\ shRunner # 0
    /\ LET hooks == [shHook EXCEPT ![shAt.phase][shAt.hook] = how]
           failures == IF how = "ended" THEN shFailures ELSE shFailures + 1
       IN  IF shAborted THEN Throws /\ shHook' = hooks /\ shFailures' = failures
           ELSE IF shAt.hook = Last THEN GoOn(hooks, failures)
           ELSE /\ shAt' = [shAt EXCEPT !.hook = @ + 1] /\ shFailures' = failures
                /\ shHook' = [hooks EXCEPT ![shAt.phase][shAt.hook + 1] = "running"]
                /\ UNCHANGED <<shState, shRunner, shPromise, shCaller>>
    /\ UNCHANGED shAborted

ShutdownTimesOut ==
    /\ shRunner # 0 /\ ~shAborted /\ shAborted' = TRUE
    /\ UNCHANGED <<shState, shRunner, shAt, shFailures, shPromise, shCaller, shHook>>

\* A hook whose timer fired finishes late.
StragglerEnds(p, h) ==
    /\ shHook[p][h] = "abandoned" /\ shHook' = [shHook EXCEPT ![p][h] = "late"]
    /\ UNCHANGED <<shState, shRunner, shAt, shFailures, shAborted, shPromise, shCaller>>

ShNext ==
    \/ \E c \in Stoppers : ShutdownBegins(c) \/ ShutdownJoins(c)
    \/ \E c \in Waiters : WaitCompletion(c)
    \/ \E c \in ShCallers : WaitTimesOut(c)
    \/ \E how \in {"ended", "failed", "abandoned"} : HookReturns(how)
    \/ ShutdownTimesOut
    \/ \E p \in Phases, h \in Hooks : StragglerEnds(p, h)

ShSpec == ShInit /\ [][ShNext]_shVars

-----------------------------------------------------------------------------
\* Type correctness; the caller that runs the shutdown holds the lock.
ShTypeOK ==
    /\ shState \in {"running", "initiated", "stopping", "complete"}
    /\ shRunner \in {0} \cup Stoppers
    /\ shCaller \in [ShCallers -> {"no", "running", "waiting", "returned", "threw"}]
    /\ \A c \in Stoppers : shCaller[c] = "running" <=> shRunner = c
    /\ shHook \in [Phases -> [Hooks -> {"no", "running", "ended", "failed", "abandoned", "late"}]]
    /\ shFailures \in 0..Last

\* A shutdown is complete only when every hook has ended well, in both phases, and
\* the hooks of the second phase start only after all those of the first have: none
\* of them still runs then, not even one that was given up.
CompleteMeansHooksRan ==
    /\ shState = "complete" => \A p \in Phases, h \in Hooks : shHook[p][h] = "ended"
    /\ (\E h \in Hooks : shHook["post"][h] # "no") => \A h \in Hooks : shHook["pre"][h] = "ended"

\* Nobody waits for a shutdown that is complete; who still waits while nothing runs
\* waits for one that has not begun, or that failed and never will be.
WaitersAreReleased ==
    \A c \in ShCallers : shCaller[c] = "waiting" /\ shRunner = 0 =>
        shState # "complete" /\ (shState # "running" => \E d \in Stoppers : shCaller[d] = "threw")

\* A shutdown that was begun is never begun again, so a failed one leaves the state
\* where it failed for good: the hooks of a phase run at most once.
NoSecondRun == [][\A p \in Phases, h \in Hooks :
                     shHook[p][h] # "no" => shHook'[p][h] # "running" \/ shHook[p][h] = "running"]_shVars

\* Hooks that fail, hang or end late, and callers that overlap: a shutdown begins once,
\* is complete only when every hook ended well, and releases who waits for it
\* (shutdown.ts).
HooksSafe ==
    /\ [](ShTypeOK /\ CompleteMeansHooksRan /\ WaitersAreReleased)
    /\ NoSecondRun
=============================================================================
