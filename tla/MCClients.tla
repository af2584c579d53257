------------------------------ MODULE MCClients ------------------------------
(***************************************************************************)
(* Instances for TLC of the scheduler and of what runs at the other end of *)
(* the orchestrator: the assistant, the providers and the reconnecting     *)
(* clients.  They share no state: a behaviour picks one of them at the     *)
(* start and the others stay put.                                          *)
(***************************************************************************)
EXTENDS Scheduler, AssistantAgent, AssistantLifecycle, ProviderRegistry, LlmGateway, ReconnectingClient, TLC

VARIABLE part

UniqueIds == [t \in Tasks |-> t]
MCPriorities == {1}

MCPriorityOf == [p \in Providers |-> IF p = "a" THEN 1 ELSE 2]
MCGwProviders == <<"anthropic", "openai">>

\* Goroutines and requests of other parts have the names of the workers,
\* so that one set of permutations serves them all.
Symmetry == Permutations(Tasks) \cup Permutations(Workers)

allVars == <<vars, aaVars, alVars, prVars, lgVars, rcVars, part>>

ClientsInit ==
    /\ Init /\ AaInit /\ AlInit /\ PrInit /\ LgInit /\ RcInit
    /\ part \in {"scheduler", "assistant", "lifecycle", "providers", "gateway", "client"}
    /\ part # "lifecycle" => ~alAuto /\ ~alGlobal
    /\ part # "gateway" => lgAvailable = {}

ClientsNext ==
    /\ UNCHANGED part
    /\ \/ part = "scheduler" /\ Next
          /\ UNCHANGED <<aaVars, alVars, prVars, lgVars, rcVars>>
       \/ part = "assistant" /\ AaNext
          /\ UNCHANGED <<vars, alVars, prVars, lgVars, rcVars>>
       \/ part = "lifecycle" /\ AlNext
          /\ UNCHANGED <<vars, aaVars, prVars, lgVars, rcVars>>
       \/ part = "providers" /\ PrNext
          /\ UNCHANGED <<vars, aaVars, alVars, lgVars, rcVars>>
       \/ part = "gateway" /\ LgNext
          /\ UNCHANGED <<vars, aaVars, alVars, prVars, rcVars>>
       \/ part = "client" /\ RcNext
          /\ UNCHANGED <<vars, aaVars, alVars, prVars, lgVars>>

ClientsSpec == ClientsInit /\ [][ClientsNext]_allVars

\* The scheduler alone.
SchedulerSpec == (ClientsInit /\ part = "scheduler") /\ [][ClientsNext]_allVars

\* What must happen in the end where work is queued and taken.  Only the part
\* that runs is fair: the fairness of one that stays put would exclude every
\* behaviour of the other.  (part never changes.)
ProgressFairness ==
    \/ []<>(part = "scheduler") /\ Fairness
    \/ []<>(part = "assistant") /\ AaFairness

ProgressInit == ClientsInit /\ part \in {"scheduler", "assistant"}

ProgressSpec == ProgressInit /\ [][ClientsNext]_allVars /\ ProgressFairness
=============================================================================
