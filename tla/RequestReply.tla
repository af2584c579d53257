---------------------------- MODULE RequestReply ----------------------------
(***************************************************************************)
(* What a session may rely on when it routes a message to an agent,        *)
(* without streams, locks, timers or agents: a request waits for one       *)
(* outcome and gets at most one.  Dropped says that the wait was given up  *)
(* silently.                                                               *)
(***************************************************************************)
CONSTANTS Requests

VARIABLES stage

Init == stage = [r \in Requests |-> "new"]

Ask(r) == stage[r] = "new" /\ stage' = [stage EXCEPT ![r] = "waiting"]

Settle(r, outcome) ==
    stage[r] = "waiting" /\ stage' = [stage EXCEPT ![r] = outcome]

\* An agent that is cut off drops every request it was asked.
GiveUp(R) ==
    /\ \A r \in R : stage[r] = "waiting"
    /\ stage' = [r \in Requests |-> IF r \in R THEN "dropped" ELSE stage[r]]

Next ==
    \/ \E r \in Requests : Ask(r)
    \/ \E r \in Requests : Settle(r, "answered") \/ Settle(r, "timedout")
    \/ \E R \in SUBSET Requests : GiveUp(R)

Spec == Init /\ [][Next]_stage
=============================================================================
