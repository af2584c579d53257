--------------------------- MODULE ContainerTools ---------------------------
(***************************************************************************)
(* Tools in containers: the registry and the executor of pkg/tools, and how*)
(* a worker turns a task into a container.  They share no state.           *)
(***************************************************************************)
EXTENDS Naturals, FiniteSets

-----------------------------------------------------------------------------
(***************************************************************************)
(* The tool registry and the tool executor of pkg/tools.  The registry     *)
(* keeps a factory and at most one instance per tool.  The executor runs a *)
(* tool in a container of its own, one tool at a time: Execute holds its   *)
(* lock from the lookup to the cleanup.  The container engine is external: *)
(* each call may fail.                                                     *)
(***************************************************************************)
CONSTANTS
    ToolNames,
    MaxInstances,     \* bound: instances created, numbered from 1
    MaxToolContainers \* bound: containers created, numbered from 1

ASSUME CtAssumption == MaxInstances \in Nat /\ MaxToolContainers \in Nat

VARIABLES
    factories,       \* Registry.factories
    instances,       \* Registry.tools: the instance of each tool, 0 for none
    created,         \* how many instances were created
    openTools,       \* the instances not closed
    registryClosed,
    execution,       \* the call of Execute that holds the lock
    toolContainers,  \* the state of each container in the engine
    outcomes         \* history: how the execution of each container ended

toolVars == <<factories, instances, created, openTools, registryClosed, execution, toolContainers, outcomes>>

ToolContainers == 1..MaxToolContainers
NoExecution == [step |-> "none", container |-> 0, autoCleanup |-> FALSE]

ToolsTypeOK ==
    /\ factories \subseteq ToolNames
    /\ instances \in [ToolNames -> 0..MaxInstances] /\ created \in 0..MaxInstances
    /\ openTools \subseteq 1..created
    /\ registryClosed \in BOOLEAN
    /\ execution \in [step : {"created", "running", "exited"}, container : ToolContainers, autoCleanup : BOOLEAN] \cup {NoExecution}
    /\ toolContainers \in [ToolContainers -> {"none", "created", "running", "gone"}]
    /\ outcomes \in [ToolContainers -> {"none", "done", "failed", "kept", "timeout", "stuck"}]

ToolsInit ==
    /\ factories = {} /\ instances = [t \in ToolNames |-> 0] /\ created = 0 /\ openTools = {}
    /\ registryClosed = FALSE /\ execution = NoExecution
    /\ toolContainers = [c \in ToolContainers |-> "none"] /\ outcomes = toolContainers

executorVars == <<execution, toolContainers, outcomes>>

-----------------------------------------------------------------------------
\* RegisterTool: an instance of an earlier factory is kept.
RegisterTool(t) ==
    /\ ~registryClosed
    /\ factories' = factories \cup {t}
    /\ UNCHANGED <<instances, created, openTools, registryClosed, executorVars>>

\* UnregisterTool and CloseTool; the error of a Close is reported, the instance forgotten.
CloseTool(t) ==
    /\ ~registryClosed
    /\ openTools' = openTools \ {instances[t]}
    /\ instances' = [instances EXCEPT ![t] = 0]
    /\ factories' \in {factories, factories \ {t}}
    /\ UNCHANGED <<created, registryClosed, executorVars>>

\* The factory of t, when there is one, makes and caches an instance; old is closed.
NewInstance(t, old) ==
    /\ t \in factories /\ created < MaxInstances /\ created' = created + 1
    /\ instances' = [instances EXCEPT ![t] = created']
    /\ openTools' = (openTools \ old) \cup {created'}
    /\ UNCHANGED <<factories, registryClosed>>

\* GetTool: the instance, or a new one.
GetTool(t) ==
    /\ ~registryClosed
    /\ \/ instances[t] # 0 /\ UNCHANGED <<factories, instances, created, openTools, registryClosed>>
       \/ instances[t] = 0 /\ NewInstance(t, {})

\* GetToolWithDefinition with another definition: the old instance is closed and
\* forgotten even when no new one can be made.
RedefineTool(t) ==
    /\ ~registryClosed /\ instances[t] # 0
    /\ \/ NewInstance(t, {instances[t]})
       \/ /\ openTools' = openTools \ {instances[t]}
          /\ instances' = [instances EXCEPT ![t] = 0]
          /\ UNCHANGED <<factories, created, registryClosed>>
    /\ UNCHANGED executorVars

CloseRegistry ==
    /\ ~registryClosed /\ registryClosed' = TRUE
    /\ openTools' = openTools \ {instances[t] : t \in ToolNames}
    /\ instances' = [t \in ToolNames |-> 0] /\ factories' = {}
    /\ UNCHANGED <<created, executorVars>>

-----------------------------------------------------------------------------
\* Execute up to the creation of the container.  The lookup counts even when the
\* parameters, the policy or the engine refuse.
ExecuteBegins(t) ==
    /\ execution = NoExecution
    /\ GetTool(t)
    /\ \/ UNCHANGED executorVars
       \/ \E c \in ToolContainers, auto \in BOOLEAN :
             /\ toolContainers[c] = "none" /\ \A d \in 1..(c - 1) : toolContainers[d] # "none"
             /\ toolContainers' = [toolContainers EXCEPT ![c] = "created"]
             /\ execution' = [step |-> "created", container |-> c, autoCleanup |-> auto]
             /\ UNCHANGED outcomes

Runs(from, to) ==
    /\ execution.step = from
    /\ execution' = [execution EXCEPT !.step = to]
    /\ UNCHANGED <<factories, instances, created, openTools, registryClosed, outcomes>>

StartContainer == Runs("created", "running") /\ toolContainers' = [toolContainers EXCEPT ![execution.container] = "running"]

\* Wait returns.  The container is removed as it stops, before its output is
\* collected or after.
ContainerExits == Runs("running", "exited") /\ toolContainers' = [toolContainers EXCEPT ![execution.container] = "gone"]

\* The deferred cleanup, and the kill of a container that timed out.
Cleanup(outcome) == execution.autoCleanup \/ outcome = "timeout"

\* Execute returns with outcome; destroying the container may fail, which is
\* logged only.
Returns(outcome) ==
    LET c == execution.container
    IN /\ execution' = NoExecution
       /\ \/ /\ toolContainers' = IF Cleanup(outcome) THEN [toolContainers EXCEPT ![c] = "gone"] ELSE toolContainers
             /\ outcomes' = [outcomes EXCEPT ![c] = IF outcome = "failed" /\ ~execution.autoCleanup THEN "kept" ELSE outcome]
          \/ /\ Cleanup(outcome) /\ toolContainers[c] # "gone"
             /\ outcomes' = [outcomes EXCEPT ![c] = "stuck"]
             /\ UNCHANGED toolContainers
       /\ UNCHANGED <<factories, instances, created, openTools, registryClosed>>

\* After the collection of the output, whose failure is logged; after an error of
\* Start or Wait, the cancellation of the caller included; after the deadline.
ExecuteEnds ==
    \/ execution.step = "exited" /\ Returns("done")
    \/ execution.step \in {"created", "running"} /\ Returns("failed")
    \/ execution.step = "running" /\ Returns("timeout")

ToolsNext ==
    \/ \E t \in ToolNames :
          \/ RegisterTool(t) \/ CloseTool(t) \/ RedefineTool(t) \/ ExecuteBegins(t)
          \/ GetTool(t) /\ UNCHANGED executorVars
    \/ CloseRegistry
    \/ StartContainer \/ ContainerExits \/ ExecuteEnds

ToolsSpec == ToolsInit /\ [][ToolsNext]_toolVars

-----------------------------------------------------------------------------
(* Properties                                                              *)

\* Through registrations, redefinitions and closing, every instance that is open
\* is the one the registry would give out: none is lost unclosed
\* (GetToolWithDefinition, UnregisterTool, CloseTool, Close).
NoStrayTool == openTools = {instances[t] : t \in ToolNames} \ {0}

\* A container outlives its execution only when the caller asked for that and the
\* execution did not time out, or when the engine failed to destroy it
\* (Execute, createTimeoutResult).
NoStrayContainer ==
    \A c \in ToolContainers :
        /\ outcomes[c] = "timeout" => toolContainers[c] = "gone"
        /\ toolContainers[c] \in {"created", "running"} /\ execution.container # c =>
              outcomes[c] \in {"kept", "stuck"}

-----------------------------------------------------------------------------
(***************************************************************************)
(* How a worker turns a task into a container (Agent.RouteTask of          *)
(* pkg/worker/agent.go and pkg/worker/tools.go).                           *)
(*                                                                         *)
(* Type and operation choose a tool; its specification says what the       *)
(* container may reach; what the container prints and its exit code become *)
(* the answer.  The workspace is one file, of which only its last writer   *)
(* is kept.  The lives of the containers are WorkerExecutor's; here one    *)
(* runs in a single step.                                                  *)
(***************************************************************************)
CONSTANTS
    WtTasks,        \* tasks
    NoTask

VARIABLES
    wtTask,         \* the tasks: [at, type, op, given, mutates, tool, exit]
    wtFile,         \* the task that wrote the workspace last
    wtDone          \* the tasks whose container did what was asked

wtVars == <<wtTask, wtFile, wtDone>>

Types == {"file", "network", "tool", "custom", "unspecified"}
Operations == {"read", "write", "tee", "edit", "grep", "search", "find", "list", "web_search", "fetch", "other"}

WtInit ==
    /\ wtTask = [t \in WtTasks |-> [at |-> "new"]]
    /\ wtFile = NoTask /\ wtDone = {}

-----------------------------------------------------------------------------
(* Routing.                                                                *)

\* mapOperationToToolType.
DirectTool ==
    [read |-> "file_read", write |-> "file_write", tee |-> "file_write", edit |-> "file_edit",
     grep |-> "grep", search |-> "grep", find |-> "find", list |-> "list",
     web_search |-> "web_search", fetch |-> "fetch_url", other |-> "none"]

\* "search" is a web search in a network request, and grep elsewhere.
NetworkTool(op) ==
    IF op \in {"search", "web_search"} THEN "web_search" ELSE IF op = "fetch" THEN "fetch_url" ELSE "none"

\* Custom tasks reuse the tool that writes files.
ToolFor(type, op) ==
    IF type = "network" THEN NetworkTool(op)
    ELSE IF type = "custom" THEN "file_write"
    ELSE IF type = "unspecified" THEN "none" ELSE DirectTool[op]

\* File operations with a function of their own; the others hand the arguments of
\* the task to the tool as they are, as a tool execution does.
OwnFunction(type, op) == type = "file" /\ op \in {"read", "write", "edit", "grep", "search", "find", "list"}

\* What is required before a container is made: a path, a pattern, a URL, a command.
NeedsGiven(type, op) ==
    \/ OwnFunction(type, op) /\ op \notin {"find", "list"}
    \/ type \in {"network", "custom"}

-----------------------------------------------------------------------------
(* Tool specifications.                                                    *)

\* Tools whose container has the workspace mounted, those that may write to it,
\* and those with a network.
Mounted == {"file_read", "file_write", "file_edit", "grep", "find", "list"}

\* A plausible slip: the mount of find is not read-only.
WritableFind == {"file_write", "file_edit", "find"}
Writable == {"file_write", "file_edit"}

Networked == {"web_search", "fetch_url"}

-----------------------------------------------------------------------------
(* A task.                                                                 *)

Route(t) ==
    /\ wtTask[t].at = "new"
    /\ \E type \in Types, op \in Operations, given, mutates \in BOOLEAN :
         LET tool == ToolFor(type, op)
             ok == tool # "none" /\ (NeedsGiven(type, op) => given)
         IN  /\ mutates => ~OwnFunction(type, op) /\ type \in {"file", "tool"}
             /\ wtTask' = [wtTask EXCEPT ![t] =
                    [at |-> IF ok THEN "run" ELSE "error", type |-> type, op |-> op,
                     mutates |-> mutates, tool |-> tool, exit |-> 0]]
    /\ UNCHANGED <<wtFile, wtDone>>

\* Whether the container tries to change the workspace: a write or an edit, or a
\* tool given arguments that do.
TriesToWrite(k) == k.mutates \/ (OwnFunction(k.type, k.op) /\ k.op \in {"write", "edit"})

\* A custom command is appended to "sh -c" as "sh -c <command>": the outer shell
\* starts an inner one without a script, which reads no input and succeeds.
RunsCommand(k) == k.type # "custom"

RunContainer(t) ==
    LET k == wtTask[t]  writes == TriesToWrite(k) /\ k.tool \in Writable IN
    /\ k.at = "run"
    /\ \E exit \in 0..2 :
         /\ wtTask' = [wtTask EXCEPT ![t].at = "exited", ![t].exit = exit]
         /\ \/ /\ wtFile' = IF writes THEN t ELSE wtFile
               /\ wtDone' = IF RunsCommand(k) /\ (TriesToWrite(k) => writes) THEN wtDone \cup {t} ELSE wtDone
            \/ exit # 0 /\ UNCHANGED <<wtFile, wtDone>>
         /\ TriesToWrite(k) /\ ~writes => exit # 0
         /\ ~RunsCommand(k) => exit = 0

\* The engine fails: the result carries an error, and no exit code.
ContainerFails(t) ==
    /\ wtTask[t].at = "run" /\ wtTask' = [wtTask EXCEPT ![t].at = "error"]
    /\ UNCHANGED <<wtFile, wtDone>>

\* grep exits with 1 when nothing matches: an answer when it was called as a file
\* operation, an error when it was called as a tool.
Accepts(k) ==
    \/ k.exit = 0
    \/ k.exit = 1 /\ k.tool = "grep" /\ OwnFunction(k.type, k.op)

Answers(t) ==
    /\ wtTask[t].at = "exited"
    /\ wtTask' = [wtTask EXCEPT ![t].at = IF Accepts(wtTask[t]) THEN "ok" ELSE "error"]
    /\ UNCHANGED <<wtFile, wtDone>>

WtNext == \E t \in WtTasks : Route(t) \/ RunContainer(t) \/ ContainerFails(t) \/ Answers(t)

WtSpec == WtInit /\ [][WtNext]_wtVars

-----------------------------------------------------------------------------
(* Properties                                                              *)

\* A container sees the workspace or the network, never both; a task without a
\* tool never gets one (tools.go:71).
ContainersConfined ==
    \A t \in WtTasks : wtTask[t].at \in {"run", "exited", "ok"} =>
        /\ wtTask[t].tool \in Mounted \cup Networked
        /\ ~(wtTask[t].tool \in Mounted /\ wtTask[t].tool \in Networked)

\* A success is reported only for a container that did what was asked - unless it
\* is a search without a match - except for custom commands, which report a
\* success without being run (agent.go:1120, tools.go:137).
SuccessMeansDone ==
    \A t \in WtTasks : wtTask[t].at = "ok" =>
        \/ t \in wtDone
        \/ wtTask[t].type = "custom"
        \/ wtTask[t].tool = "grep"

\* The workspace changes only under a tool meant to change it, whatever arguments
\* a tool execution carries (tools.go:219).
OnlyWritersWrite ==
    [][\A t \in WtTasks : wtFile' = t /\ wtFile # t =>
        ToolFor(wtTask[t].type, wtTask[t].op) \in {"file_write", "file_edit"}]_wtVars

\* No tool instance and no container is left astray, a container sees the workspace or
\* the network, only writers write, and a success means that something was done, but
\* for custom commands (pkg/tools, worker/tools.go, worker/agent.go:1120).
ToolsConfined ==
    /\ [](/\ ToolsTypeOK
          /\ NoStrayTool
          /\ NoStrayContainer
          /\ ContainersConfined
          /\ SuccessMeansDone)
    /\ OnlyWritersWrite
=============================================================================
