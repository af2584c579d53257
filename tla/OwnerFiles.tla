----------------------------- MODULE OwnerFiles -----------------------------
(***************************************************************************)
(* The two stores that keep a file per entry in the directory of its owner:*)
(* memories and skills.  They share no state.                              *)
(***************************************************************************)
EXTENDS Naturals, FiniteSets

-----------------------------------------------------------------------------
(***************************************************************************)
(* The memory store and organizer of pkg/memory: a map in memory, and a    *)
(* markdown file per memory that Store writes in the owner's directory     *)
(* under a name made of the identifier and the title, and that the         *)
(* organizer moves to a directory per topic.                               *)
(*                                                                         *)
(* One owner.  The store's lock and the organizer's are different ones: a  *)
(* move and a deletion take a step to find the file and a step to act on   *)
(* it.  Expiry, access times and the fields that name no file are left     *)
(* out; MergeTopic is a series of calls of Store.                          *)
(***************************************************************************)
CONSTANTS
    MemIds, Titles, MemTopics, MemContents,
    MaxStores,   \* bound: calls of Store
    MaxReboots   \* bound: restarts

VARIABLES
    memories,    \* Store.memories: a set of memories, one per identifier
    memFiles,    \* the files: a memory with the directory and whether it is a .tmp
    dirs,        \* the topic directories
    memUp,       \* "open", "closed" or "down"
    deleting,    \* the memory Delete works on and the directory it found it in
    organizing,  \* the memory OrganizeMemory is about to move
    stores, reboots,
    promised,    \* history: the memories as acknowledged, none for a deleted one
    unsure,      \* history: the memories whose last operation failed
    scattered    \* history: the memories with a file where getFilePath may not look

memVars == <<memories, memFiles, dirs, memUp, deleting, organizing, stores, reboots, promised, unsure, scattered>>

Owner == "owner"      \* the owner's directory, beside those of the topics
General == "general"  \* the directory for the memories that name no topic
NoTopic == ""

ASSUME MemAssumption ==
    /\ MaxStores \in Nat /\ MaxReboots \in Nat
    /\ General \in MemTopics /\ Owner \notin MemTopics /\ NoTopic \notin MemTopics \cup {Owner}

Memories == [id : MemIds, title : Titles, topic : MemTopics \cup {NoTopic}, content : MemContents]

\* Where OrganizeAllMemories puts the file of m.
topicDir(m) == IF m.topic = NoTopic THEN General ELSE m.topic

FileOf(m, d, tmp) == [mem |-> m, dir |-> d, tmp |-> tmp]

\* generateFilename: the identifier and the title, in a directory.
SameName(f, g) == f.mem.id = g.mem.id /\ f.mem.title = g.mem.title /\ f.dir = g.dir /\ f.tmp = g.tmp

MemTypeOK ==
    /\ memories \subseteq Memories
    /\ \A m, n \in memories : m.id = n.id => m = n
    /\ memFiles \subseteq [mem : Memories, dir : MemTopics \cup {Owner}, tmp : BOOLEAN]
    /\ \A f, g \in memFiles : SameName(f, g) => f = g
    /\ dirs \subseteq MemTopics
    /\ memUp \in {"open", "closed", "down"}
    /\ deleting \subseteq Memories \X (MemTopics \cup {Owner}) /\ Cardinality(deleting) <= 1
    /\ organizing \subseteq Memories /\ Cardinality(organizing) <= 1
    /\ stores \in 0..MaxStores /\ reboots \in 0..MaxReboots
    /\ promised \subseteq Memories /\ unsure \subseteq MemIds /\ scattered \subseteq MemIds

MemInit ==
    /\ memories = {} /\ memFiles = {} /\ dirs = {} /\ memUp = "open" /\ deleting = {} /\ organizing = {}
    /\ stores = 0 /\ reboots = 0
    /\ promised = {} /\ unsure = {} /\ scattered = {}

-----------------------------------------------------------------------------

WriteMemory(m, d, tmp) == {f \in memFiles : ~SameName(f, FileOf(m, d, tmp))} \cup {FileOf(m, d, tmp)}

\* The store holds its lock while a deletion runs.
Unlocked == memUp = "open" /\ deleting = {}

\* getFilePath: the topic directory when the file is there, else the owner's.  That
\* of a memory without topic is looked for in the owner's only.
getFilePath(m) ==
    IF m.topic # NoTopic /\ \E f \in memFiles : SameName(f, FileOf(m, m.topic, FALSE)) THEN m.topic ELSE Owner

Promise(m) == {n \in promised : n.id # m.id} \cup {m}

MemDown == reboots < MaxReboots /\ memUp' = "down" /\ organizing' = {} /\ deleting' = {}
NoCrash == UNCHANGED <<memUp, organizing, deleting>>

\* saveToDisk: write the .tmp and rename it over the file in the owner's
\* directory, wherever older files of the memory are.
Saves(m) ==
    /\ memFiles' = WriteMemory(m, Owner, FALSE) \ {f \in memFiles : SameName(f, FileOf(m, Owner, TRUE))}
    /\ promised' = Promise(m) /\ unsure' = unsure \ {m.id}
    /\ NoCrash

\* saveToDisk refuses (size, format, scope) or cannot write: memory is ahead of
\* the disk.  A failed write leaves no readable .tmp; a crash before the rename
\* may leave a complete one, which loadFromDisk reads like any other file.
SaveFails(m) ==
    /\ unsure' = unsure \cup {m.id} /\ UNCHANGED promised
    /\ \/ NoCrash /\ UNCHANGED memFiles
       \/ MemDown /\ memFiles' \in {memFiles, WriteMemory(m, Owner, TRUE)}

\* Store: memory first, then the disk.
StoreMemory(m) ==
    /\ Unlocked /\ stores < MaxStores /\ stores' = stores + 1
    /\ memories' = {n \in memories : n.id # m.id} \cup {m}
    /\ Saves(m) \/ SaveFails(m)
    /\ scattered' = scattered \cup {f.mem.id : f \in {g \in memFiles' : g.mem.id = m.id /\ ~SameName(g, FileOf(m, Owner, FALSE))}}
    /\ UNCHANGED <<dirs, reboots>>

\* Delete finds the file ...
DeleteBegins(m) ==
    /\ Unlocked /\ m \in memories
    /\ deleting' = {<<m, getFilePath(m)>>}
    /\ UNCHANGED <<memories, memFiles, dirs, memUp, organizing, stores, reboots, promised, unsure, scattered>>

\* ... and removes it; that it is no longer there is no error.
DeleteEnds ==
    \E md \in deleting :
        /\ deleting' = {}
        /\ memFiles' = {f \in memFiles : ~SameName(f, FileOf(md[1], md[2], FALSE))}
        /\ memories' = memories \ {md[1]}
        /\ promised' = {n \in promised : n.id # md[1].id} /\ unsure' = unsure \ {md[1].id}
        /\ UNCHANGED <<dirs, memUp, organizing, stores, reboots, scattered>>

\* OrganizeAllMemories, and OrganizeMemory for a memory with a topic: its file exists
\* and is not in its topic directory.
OrganizeBegins(m) ==
    /\ Unlocked /\ m \in memories /\ organizing = {}
    /\ getFilePath(m) = Owner /\ \E f \in memFiles : SameName(f, FileOf(m, Owner, FALSE))
    /\ dirs' = dirs \cup {topicDir(m)}
    /\ organizing' = {m}
    /\ UNCHANGED <<memories, memFiles, memUp, deleting, stores, reboots, promised, unsure, scattered>>

\* os.Rename, or copyAndDelete whose last step may fail; either replaces the file
\* of that name in the topic directory.
Move(m) ==
    \E f \in memFiles :
        /\ SameName(f, FileOf(m, Owner, FALSE))
        /\ \/ /\ memFiles' = WriteMemory(f.mem, topicDir(m), FALSE) \ {f}
              /\ scattered' = IF \/ \E n \in memories \cup {f.mem} : n.id = m.id /\ n.topic # topicDir(m)
                                 \/ \E md \in deleting : md[1].id = m.id
                              THEN scattered \cup {m.id} ELSE scattered
           \/ /\ memFiles' = WriteMemory(f.mem, topicDir(m), FALSE)
              /\ scattered' = scattered \cup {m.id}

\* The store may have changed the file in between: what is there is moved.
OrganizeEnds ==
    \E m \in organizing :
        /\ organizing' = {}
        /\ \/ Move(m)
           \/ UNCHANGED <<memFiles, scattered>>
        /\ UNCHANGED <<memories, dirs, memUp, deleting, stores, reboots, promised, unsure>>

\* RenameTopic moves the directory; the memories in it keep their topic.
RenameTopic(a, b) ==
    LET moved == {f \in memFiles : f.dir = a}
    IN /\ memUp = "open" /\ organizing = {} /\ a \in dirs /\ b \notin dirs
       /\ memFiles' = (memFiles \ moved) \cup {[f EXCEPT !.dir = b] : f \in moved}
       /\ dirs' = (dirs \ {a}) \cup {b}
       /\ scattered' = scattered \cup {f.mem.id : f \in moved}
       /\ UNCHANGED <<memories, memUp, deleting, organizing, stores, reboots, promised, unsure>>

\* DeleteTopic removes the files, and leaves the memories in the map.
DeleteTopic(a) ==
    LET removed == {f \in memFiles : f.dir = a}
    IN /\ memUp = "open" /\ organizing = {} /\ a \in dirs
       /\ memFiles' = memFiles \ removed /\ dirs' = dirs \ {a}
       /\ unsure' = unsure \cup {f.mem.id : f \in removed}
       /\ UNCHANGED <<memories, memUp, deleting, organizing, stores, reboots, promised, scattered>>

CloseMemory ==
    /\ Unlocked
    /\ memUp' = "closed"
    /\ UNCHANGED <<memories, memFiles, dirs, deleting, organizing, stores, reboots, promised, unsure, scattered>>

\* A crash; the deletion under way has removed the file or not.
MemCrash ==
    /\ memUp # "down" /\ MemDown
    /\ unsure' = unsure \cup {md[1].id : md \in deleting}
    /\ UNCHANGED <<memories, memFiles, dirs, stores, reboots, promised, scattered>>

\* Mutant of Loaded: the topic directories are not read.
LoadedFlat(ms) ==
    /\ \A f \in memFiles : f.dir = Owner => \E m \in ms : m.id = f.mem.id
    /\ \A m \in ms : \E f \in memFiles : f.mem = m /\ f.dir = Owner

\* loadFromDisk: of the files of one memory the last one read counts, in the
\* order of the names of files and topics.
Loaded(ms) ==
    /\ \A f \in memFiles : \E m \in ms : m.id = f.mem.id
    /\ \A m \in ms : \E f \in memFiles : f.mem = m

NewMemoryStore ==
    /\ memUp = "down" /\ reboots < MaxReboots /\ reboots' = reboots + 1
    /\ memUp' = "open"
    /\ \E ms \in SUBSET {f.mem : f \in memFiles} :
          /\ \A m, n \in ms : m.id = n.id => m = n
          /\ Loaded(ms)
          /\ memories' = ms
    /\ UNCHANGED <<memFiles, dirs, deleting, organizing, stores, promised, unsure, scattered>>

MemNext ==
    \/ \E m \in Memories : StoreMemory(m)
    \/ \E m \in memories : DeleteBegins(m) \/ OrganizeBegins(m)
    \/ DeleteEnds \/ OrganizeEnds
    \/ \E a, b \in MemTopics : RenameTopic(a, b)
    \/ \E a \in MemTopics : DeleteTopic(a)
    \/ CloseMemory \/ MemCrash \/ NewMemoryStore

MemSpec == MemInit /\ [][MemNext]_memVars

-----------------------------------------------------------------------------
(* Properties                                                              *)

\* Whatever was retitled, moved, merged or half moved, a file holds the latest
\* version that Store acknowledged, until the memory or its topic is deleted
\* (saveToDisk against OrganizeMemory and copyAndDelete).
AcknowledgedOnDisk ==
    \A m \in promised : m.id \in unsure \/ \E f \in memFiles : f.mem = m

\* A deleted memory leaves no file behind, in whichever directory it was, unless
\* it was stored again under another name or place, was being moved, or was
\* organized without having a topic (getFilePath, deleteFromDisk).
DeletedLeavesNoFile ==
    \A f \in memFiles : f.mem.id \in scattered \cup unsure \/ \E m \in promised : m.id = f.mem.id

\* With the same exception, the open store has what its last operation promised,
\* over restarts too (loadMemoriesFromDir).
RemembersPromises ==
    LET excepted == scattered \cup unsure \cup {md[1].id : md \in deleting}
    IN memUp = "open" => {m \in memories : m.id \notin excepted} = {m \in promised : m.id \notin excepted}

-----------------------------------------------------------------------------
(***************************************************************************)
(* The skill store and loader of pkg/skills for one owner.  A skill is its *)
(* state, how often it was activated, and the file that Delete would       *)
(* remove: the one it was loaded from if that is known, else the one that  *)
(* the store wrote.                                                        *)
(*                                                                         *)
(* The loader reads a skill and stores it back in two calls of the store,  *)
(* under a read lock of its own, so that two loader calls overlap.  Names  *)
(* do not change; filters, owners and formats are left out.                *)
(***************************************************************************)
CONSTANTS
    SkillIds,
    Callers,            \* goroutines that use the loader
    MaxSkillsPerOwner,  \* SkillConfig.MaxSkillsPerOwner, 0 for no limit
    MaxLoads,           \* bound: the activation count
    MaxSkillOps         \* bound: calls of Store

ASSUME SkillAssumption == MaxSkillsPerOwner \in Nat /\ MaxLoads \in Nat /\ MaxSkillOps \in Nat

VARIABLES
    skills,     \* Store.skills
    stored,     \* the files under StoragePath
    sources,    \* the skills with a file on a skill path
    reading,    \* what each caller read of the store and is about to store
    skillUp, skillOps,
    ackedSkills,  \* history: each skill as its last operation acknowledged it
    doubtful,     \* history: the skills whose last operation failed
    leftover      \* history: the skills whose deletion removed another file

skillVars == <<skills, stored, sources, reading, skillUp, skillOps, ackedSkills, doubtful, leftover>>

NoSkill == [state |-> "none", loads |-> 0, file |-> "none"]
Skills == [state : {"unloaded", "loaded"}, loads : 0..MaxLoads, file : {"unset", "source", "stored"}]
NoRead == [id |-> "none", skill |-> NoSkill]

SkillTypeOK ==
    /\ skills \in [SkillIds -> Skills \cup {NoSkill}] /\ stored \in [SkillIds -> Skills \cup {NoSkill}]
    /\ sources \subseteq SkillIds
    /\ reading \in [Callers -> [id : SkillIds, skill : Skills] \cup {NoRead}]
    /\ skillUp \in {"open", "closed", "down"} /\ skillOps \in 0..MaxSkillOps
    /\ ackedSkills \in [SkillIds -> Skills \cup {NoSkill}]
    /\ doubtful \subseteq SkillIds /\ leftover \subseteq SkillIds

SkillInit ==
    /\ skills = [i \in SkillIds |-> NoSkill] /\ stored = skills /\ sources \in SUBSET SkillIds
    /\ reading = [c \in Callers |-> NoRead] /\ skillUp = "open" /\ skillOps = 0
    /\ ackedSkills = skills /\ doubtful = {} /\ leftover = {}

-----------------------------------------------------------------------------
Others(i) == {j \in SkillIds \ {i} : skills[j] # NoSkill}

\* saveToDisk counts the other skills of the owner in memory.
OverLimit(i) == MaxSkillsPerOwner > 0 /\ Cardinality(Others(i)) >= MaxSkillsPerOwner

\* saveToDisk: refused over the limit, or it fails, or it replaces the file.
SaveSkill(i, s) ==
    \/ /\ doubtful' = doubtful \cup {i}
       /\ UNCHANGED <<stored, ackedSkills>>
    \/ /\ ~OverLimit(i)
       /\ stored' = [stored EXCEPT ![i] = s]
       /\ ackedSkills' = [ackedSkills EXCEPT ![i] = s] /\ doubtful' = doubtful \ {i}

\* Store: the skill is in memory even when it cannot be saved.
StoreSkill(i, s) ==
    /\ skillUp = "open" /\ skillOps < MaxSkillOps /\ skillOps' = skillOps + 1
    /\ skills' = [skills EXCEPT ![i] = s]
    /\ SaveSkill(i, s)
    /\ UNCHANGED <<sources, skillUp, leftover>>

\* A caller of Store outside the loader knows no file.
StoreNew(i) == StoreSkill(i, [state |-> "unloaded", loads |-> 0, file |-> "unset"]) /\ UNCHANGED reading

\* Delete: deleteFromDisk removes the file the skill came from, which is not
\* the stored one while the skill was loaded from a skill path.
DeleteSkill(i) ==
    /\ skillUp = "open" /\ skills[i] # NoSkill
    /\ skills' = [skills EXCEPT ![i] = NoSkill]
    /\ ackedSkills' = [ackedSkills EXCEPT ![i] = NoSkill] /\ doubtful' = doubtful \ {i}
    /\ IF skills[i].file = "source"
       THEN sources' = sources \ {i} /\ leftover' = leftover \cup {i} /\ UNCHANGED stored
       ELSE stored' = [stored EXCEPT ![i] = NoSkill] /\ leftover' = leftover \ {i} /\ UNCHANGED sources
    /\ UNCHANGED <<reading, skillUp, skillOps>>

-----------------------------------------------------------------------------
\* LoadFromPath: the state and the counters are those in the file.
LoadSkill(i) ==
    /\ i \in sources
    /\ StoreSkill(i, [state |-> "unloaded", loads |-> 0, file |-> "source"])
    /\ UNCHANGED reading

\* ActivateSkill, DeactivateSkill, ActivateByOwner, ReloadSkill: read ...
LoaderReads(c, i) ==
    /\ skillUp = "open" /\ reading[c] = NoRead /\ skills[i] # NoSkill
    /\ reading' = [reading EXCEPT ![c] = [id |-> i, skill |-> skills[i]]]
    /\ UNCHANGED <<skills, stored, sources, skillUp, skillOps, ackedSkills, doubtful, leftover>>

\* ... and store the copy, changed, whatever the store has by then.  A reload
\* keeps the count and takes the state of the file.
LoaderStores(c) ==
    LET r == reading[c]
    IN /\ r # NoRead
       /\ \/ r.skill.loads < MaxLoads /\ StoreSkill(r.id, [r.skill EXCEPT !.state = "loaded", !.loads = @ + 1])
          \/ StoreSkill(r.id, [r.skill EXCEPT !.state = "unloaded"])
       /\ reading' = [reading EXCEPT ![c] = NoRead]

CloseSkills ==
    /\ skillUp = "open" /\ skillUp' = "closed"
    /\ UNCHANGED <<skills, stored, sources, reading, skillOps, ackedSkills, doubtful, leftover>>

\* loadSkillsFromDir: the file of each skill is now the stored one.
Reload(s) == IF s = NoSkill THEN s ELSE [s EXCEPT !.file = "stored"]

\* NewStore after a crash or a stop.
NewSkillStore ==
    /\ skillOps < MaxSkillOps /\ skillOps' = skillOps + 1
    /\ skills' = [i \in SkillIds |-> Reload(stored[i])]
    /\ skillUp' = "open"
    /\ reading' = [c \in Callers |-> NoRead]
    /\ UNCHANGED <<stored, sources, ackedSkills, doubtful, leftover>>

SkillNext ==
    \/ \E i \in SkillIds : StoreNew(i) \/ DeleteSkill(i) \/ LoadSkill(i)
    \/ \E c \in Callers : LoaderStores(c) \/ \E i \in SkillIds : LoaderReads(c, i)
    \/ CloseSkills \/ NewSkillStore

SkillSpec == SkillInit /\ [][SkillNext]_skillVars

-----------------------------------------------------------------------------
(* Properties                                                              *)

\* Refused skills stay in memory and are counted, and still the skills that were
\* acknowledged are never more than the limit (saveToDisk).
SkillsWithinLimit ==
    MaxSkillsPerOwner > 0 => Cardinality({i \in SkillIds : ackedSkills[i] # NoSkill}) <= MaxSkillsPerOwner

\* Whatever the overlap of loader calls, the file of a skill is what its last
\* successful operation stored, and a deleted skill has none unless deletion
\* took the file it had been loaded from (saveToDisk, deleteFromDisk).
SkillFileMatches ==
    \A i \in SkillIds : i \in doubtful \cup leftover \/ stored[i] = ackedSkills[i]

\* The files of memories and skills are those of the entries last acknowledged, through
\* renames, moves, deletions, failures and overlapping loads (pkg/memory, pkg/skills).
OwnerFilesMatch ==
    /\ MemTypeOK
    /\ AcknowledgedOnDisk
    /\ DeletedLeavesNoFile
    /\ RemembersPromises
    /\ SkillTypeOK
    /\ SkillsWithinLimit
    /\ SkillFileMatches
=============================================================================
