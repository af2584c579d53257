--------------------------- MODULE MCConversations ---------------------------
(***************************************************************************)
(* Instances for TLC of the conversations on disk and of what reads,       *)
(* writes and shows them: terminal, model client, delegated tool calls,    *)
(* streams, context window and shutdown of the assistant.  They share no   *)
(* state: a behaviour picks one of them at the start and the others stay   *)
(* put.                                                                    *)
(***************************************************************************)
EXTENDS SessionManager, TerminalUI, AssistantClients, AnswerParts, ShutdownHooks,
        ProviderCalls, TLC

VARIABLE part

\* The empty owner, whose files lie in the storage root, and one with a directory.
TwoOwners == {0, 1}

\* A failing Sync leaves the whole line, a failing open or write nothing.
CleanExtents == {"whole", "nothing"}

MCKindOf == <<"stream", "unary">>

Symmetry == Permutations(PcCalls) \cup Permutations(Messages)

allVars == <<vars, tuVars, lcVars, dgVars, shVars, asVars, cwVars, pcVars, saVars, part>>

ConversationsInit ==
    /\ Init /\ TuInit /\ LcInit /\ DgInit /\ ShInit /\ AsInit /\ CwInit /\ PcInit /\ SaInit
    /\ part \in {"session", "terminal", "llm", "delegation", "shutdown", "streams", "window", "calls", "assembly"}
    /\ part # "delegation" => dgVia = "agent" /\ ~dgWorkerId
    /\ part # "streams" => asOptions = [kind |-> "agent", auto |-> FALSE]
    /\ part # "calls" => pcVendor = "anthropic"

ConversationsNext ==
    /\ UNCHANGED part
    /\ \/ part = "session" /\ Next
          /\ UNCHANGED <<tuVars, lcVars, dgVars, shVars, asVars, cwVars, pcVars, saVars>>
       \/ part = "terminal" /\ TuNext
          /\ UNCHANGED <<vars, lcVars, dgVars, shVars, asVars, cwVars, pcVars, saVars>>
       \/ part = "llm" /\ LcNext
          /\ UNCHANGED <<vars, tuVars, dgVars, shVars, asVars, cwVars, pcVars, saVars>>
       \/ part = "delegation" /\ DgNext
          /\ UNCHANGED <<vars, tuVars, lcVars, shVars, asVars, cwVars, pcVars, saVars>>
       \/ part = "shutdown" /\ ShNext
          /\ UNCHANGED <<vars, tuVars, lcVars, dgVars, asVars, cwVars, pcVars, saVars>>
       \/ part = "streams" /\ AsNext
          /\ UNCHANGED <<vars, tuVars, lcVars, dgVars, shVars, cwVars, pcVars, saVars>>
       \/ part = "window" /\ CwNext
          /\ UNCHANGED <<vars, tuVars, lcVars, dgVars, shVars, asVars, pcVars, saVars>>
       \/ part = "calls" /\ PcNext
          /\ UNCHANGED <<vars, tuVars, lcVars, dgVars, shVars, asVars, cwVars, saVars>>
       \/ part = "assembly" /\ SaNext
          /\ UNCHANGED <<vars, tuVars, lcVars, dgVars, shVars, asVars, cwVars, pcVars>>

ConversationsSpec == ConversationsInit /\ [][ConversationsNext]_allVars

\* The session manager alone.
SessionSpec == (ConversationsInit /\ part = "session") /\ [][ConversationsNext]_allVars
=============================================================================
