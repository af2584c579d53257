----------------------------- MODULE DurableLog -----------------------------
(***************************************************************************)
(* What a caller of Manager.AddMessage may rely on, without lines, states  *)
(* of sessions or restarts: there is a log of messages (of each session,   *)
(* under each of its owners) that only ever grows at its end, and an       *)
(* acknowledged message is in the log.  A message that was not             *)
(* acknowledged may be in the log too.                                     *)
(***************************************************************************)
EXTENDS Naturals, Sequences

CONSTANTS Sessions, Messages

VARIABLES
    log,    \* the messages that can be read back, per session
    acked   \* the acknowledged messages, per session

Init ==
    /\ log = [s \in Sessions |-> <<>>]
    /\ acked = [s \in Sessions |-> {}]

\* The message is appended; the caller learns that it was, or does not.
AppendMessage(s, m) ==
    /\ \A i \in 1..Len(log[s]) : log[s][i] # m
    /\ log' = [log EXCEPT ![s] = Append(@, m)]
    /\ acked' \in {acked, [acked EXCEPT ![s] = @ \cup {m}]}

Next == \E s \in Sessions, m \in Messages : AppendMessage(s, m)

Spec == Init /\ [][Next]_<<log, acked>>
=============================================================================
