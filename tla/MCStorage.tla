----------------------------- MODULE MCStorage -----------------------------
(***************************************************************************)
(* Instances of the session manager, the credential, memory and skill      *)
(* stores, the tools, the reloaders, the policy enforcer and the routing   *)
(* of tool tasks for TLC.  They share no state: a behaviour picks one of   *)
(* them at the start and the others stay put.                              *)
(***************************************************************************)
EXTENDS SessionManager, CredentialStore, OwnerFiles, ContainerTools, PolicyInForce, TLC

VARIABLE part

\* The empty owner, whose files lie in the storage root, and one with a directory.
TwoOwners == {0, 1}
AllExtents == Extent

MCDefaultGlobal ==
    [mode |-> "strict", max |-> 2, min |-> 0, net |-> TRUE, bind |-> FALSE,
     allowed |-> "empty", denied |-> "empty", entries |-> << >>, ro |-> FALSE]
MCGlobalPolicies ==
    {MCDefaultGlobal,
     [MCDefaultGlobal EXCEPT !.net = FALSE, !.bind = TRUE, !.denied = "matches"],
     [MCDefaultGlobal EXCEPT !.bind = TRUE, !.ro = TRUE,
         !.entries = <<[for |-> "all", mode |-> "readwrite"], [for |-> "user", mode |-> "readonly"]>>],
     [MCDefaultGlobal EXCEPT !.mode = "permissive", !.max = 0, !.bind = TRUE, !.allowed = "other"],
     [MCDefaultGlobal EXCEPT !.mode = "disabled"]}
MCSessionPolicies ==
    {[MCDefaultGlobal EXCEPT !.max = 0, !.min = 3, !.bind = TRUE],
     [MCDefaultGlobal EXCEPT !.max = 1, !.net = FALSE, !.bind = TRUE, !.allowed = "matches"],
     [MCDefaultGlobal EXCEPT !.bind = TRUE, !.entries = <<[for |-> "user", mode |-> "readonly"]>>],
     [MCDefaultGlobal EXCEPT !.max = 1, !.min = 2]}
MCConfigs == [cpu : {0, 2}, net : {"none", "bridge"}, mount : {"none", "rw"}, ro : BOOLEAN]

Symmetry == Permutations(Sessions) \cup Permutations(Messages)

allVars == <<vars, credVars, memVars, skillVars, toolVars, rlVars, peVars, wtVars, part>>

StorageInit ==
    /\ Init /\ CredInit /\ MemInit /\ SkillInit /\ ToolsInit /\ RlInit /\ PeInit /\ WtInit
    /\ part \in {"session", "credentials", "memory", "skills", "tools", "reloader", "policy", "worker"}
    /\ part # "skills" => sources = {}

StorageNext ==
    /\ UNCHANGED part
    /\ \/ part = "session" /\ Next
          /\ UNCHANGED <<credVars, memVars, skillVars, toolVars, rlVars, peVars, wtVars>>
       \/ part = "credentials" /\ CredNext
          /\ UNCHANGED <<vars, memVars, skillVars, toolVars, rlVars, peVars, wtVars>>
       \/ part = "memory" /\ MemNext
          /\ UNCHANGED <<vars, credVars, skillVars, toolVars, rlVars, peVars, wtVars>>
       \/ part = "skills" /\ SkillNext
          /\ UNCHANGED <<vars, credVars, memVars, toolVars, rlVars, peVars, wtVars>>
       \/ part = "tools" /\ ToolsNext
          /\ UNCHANGED <<vars, credVars, memVars, skillVars, rlVars, peVars, wtVars>>
       \/ part = "reloader" /\ RlNext
          /\ UNCHANGED <<vars, credVars, memVars, skillVars, toolVars, peVars, wtVars>>
       \/ part = "policy" /\ PeNext
          /\ UNCHANGED <<vars, credVars, memVars, skillVars, toolVars, rlVars, wtVars>>
       \/ part = "worker" /\ WtNext
          /\ UNCHANGED <<vars, credVars, memVars, skillVars, toolVars, rlVars, peVars>>

StorageSpec == StorageInit /\ [][StorageNext]_allVars

\* Of sessions and credentials after crashes in the middle of a write: a torn line costs
\* one message at most; every acknowledged credential can be read in memory, and from
\* the files unless a rotation was cut short (persistence.go:253, store.go).
FilesRecover ==
    /\ TypeOK
    /\ LossBounded
    /\ CredTypeOK
    /\ MemoryReadable
    /\ DiskReadable
    /\ ClosedIsSaved
=============================================================================
