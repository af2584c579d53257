# baaaht in TLA+

baaaht is an orchestrator for AI agents: a Go daemon that keeps user sessions,
routes their messages to agents over gRPC, schedules tasks, keeps credentials,
watches policies and runs agents and tools in containers; a worker in Go and an
assistant in TypeScript that do the work; an LLM gateway in TypeScript in front
of the language models; and a terminal client. This directory holds TLA+ modules
that model these components, TLC configurations that check them on small
instances, and TLAPS proofs of theorems about the core of the system for every
size of it. `PROJECT.json` is the index: it relates every definition to the
lines it models, every run to its properties, every property to a mutant of the
code it detects, and lists the hazards of the code and the findings.

## Inventory of the system

| component | source | state it keeps | modules |
|---|---|---|---|
| task queue, scheduler | `pkg/scheduler/` | heap, map, notification token; worker pool, counters | `TaskQueue`, `Scheduler` |
| session manager and files | `pkg/session/` | sessions, state machines, JSONL file per owner and session | `SessionManager`, `DurableLog` |
| agent routing | `pkg/grpc/agent_service.go`, `orchestrator_service.go` | agent streams, send locks, pending routes and timers | `AgentRouting`, `RequestReply` |
| tasks of agents | `pkg/grpc/agent_service.go` | registry of agents and tasks, heartbeats, task streams | `AgentTasks` |
| session streams, events to clients | `orchestrator_service.go`, `gateway_service.go` | set of streams per session, event subscriptions | `ClientStreams`, `EventStreams` |
| tool service | `pkg/grpc/tool_service.go` | tools, executions, statistics | `ToolExecutions` |
| LLM service | `pkg/grpc/llm_service.go`, `llm-gateway/src/server.ts` | request registry, counters | `LLMRequests` |
| gRPC server, clients | `pkg/grpc/server.go`, `bootstrap.go`, `health.go`, `client.go`, `pkg/tui/client.go` | listener, socket file; connection and monitor | `GrpcServer`, `ReconnectingClient` |
| event bus, router, handlers, middleware | `pkg/events/` | subscriptions, channel; route tables; buffers; windows | `EventBus`, `EventPipeline` |
| IPC broker and socket | `pkg/ipc/` | message queue, history, connections | `IpcBroker` |
| credential store | `pkg/credentials/` | key and ciphertexts, two files | `CredentialStore` |
| memory, skills, tools | `pkg/memory/`, `pkg/skills/`, `pkg/tools/` | maps with files, limits, instances, containers | `OwnerFiles`, `ContainerTools` |
| policy enforcement, reloaders | `pkg/policy/`, `internal/config/reloader.go` | policies, allowlists; state, callbacks, context | `PolicyInForce` |
| configuration | `internal/config/`, `cmd/orchestrator/main.go` | merged and validated settings | `ConfigLoading` |
| orchestrator life cycle | `pkg/orchestrator/orchestrator.go`, `bootstrap.go`, `shutdown.go`, `cmd/` | subsystems, hooks, containers of the agents | `OrchestratorLife` |
| LLM gateway manager | `pkg/orchestrator/llm_gateway.go` | container, failure count, monitors | `GatewayManager` |
| container runtime | `pkg/container/` | registry of runtimes, containers | `GatewayManager` |
| providers, failover, tokens | `pkg/provider/` | registry, circuits, health; status of a provider | `ProviderRegistry`, `ProviderCalls` |
| worker | `pkg/worker/`, `cmd/worker` | connection, registration; running tasks; tool specifications | `WorkerAgent`, `WorkerExecutor`, `ContainerTools` |
| LLM gateway process | `llm-gateway/src/` | requests, slots, statistics | `LlmGateway` |
| assistant agent | `agents/assistant/src/agent.ts`, `session/` | queue, active messages, sessions | `AssistantAgent`, `AnswerParts` |
| assistant process | `agents/assistant/src/bootstrap.ts`, `lifecycle.ts`, `shutdown.ts`, `orchestrator/` | agent, channel, timers, hooks, streams | `AssistantLifecycle`, `ShutdownHooks`, `AssistantClients` |
| assistant's use of models and workers | `llm/`, `agent/`, `tools/` | connection, stream queues, fragments, delegations | `AssistantClients`, `AnswerParts` |
| terminal client | `pkg/tui/` | stream, session, pending commands | `TerminalUI` |
| conversions | `pkg/grpc/convert.go` | values of either side | `ClientStreams` |
| logger, interceptors, generated protocol code | `internal/logger`, `pkg/grpc`, `src/proto` | values | none |

### How they interact

A user message enters through `StreamMessages` of the orchestrator service,
usually from the terminal client. The handler asks the agent service for a
registered assistant that has a stream, stores a *pending route* with a 30 s
timer, sends the message on the stream of the agent under that stream's send
lock, and adds the message to the session. The assistant queues it, adds it to
its own copy of the conversation, asks a language model through the LLM gateway
and calls tools, one of which delegates to a worker by way of a task. It
answers on its stream, which the orchestrator reads in another goroutine; the
answer or the timer's callback takes the route out, adds a message to the
session through the session manager and forwards it to the streams of the
session. The session manager appends each message to the file of the session
before it remembers it, and rebuilds the sessions from the files when the
process starts.

A worker learns of its tasks from the answers to its heartbeats and runs each
in a container of its own. The scheduler runs handlers on a pool of workers fed
by the queue, the event bus dispatches events to subscribers, among them the
streams of clients, the reloaders replace policy and configuration on SIGHUP,
and the orchestrator starts and closes all of these in a fixed order.

In Go, goroutines interleave at every point where no mutex is held, timers fire
at any time, channels have finite capacity, and contexts cancel. In TypeScript
one thread runs from one `await` to the next, and everything that waits may be
overtaken: the modules of both take an action to be what happens between two
such points.

### Hard behaviours and what makes each component correct

| component | what is hard | what must hold |
|---|---|---|
| queue and scheduler | one token for many workers; re-enqueue of a failed task before its worker lets go of it; Cancel between the steps of a worker; Close with tasks waiting | one owner per task, each counted once, bounded runs, every accepted task settles, Close lets the workers stop |
| session manager and files | append cut short by a crash or a failing sync; files that outlive sessions; expiry and Close against the cleanup goroutine | acknowledged messages survive in order, memory never runs ahead of the file, status follows state, closed is final |
| agent routing | answer, timeout and end of stream race for a route; reconnection; the stream is used after the map lock was released | one outcome per request, in the session that asked, each route timed, no lock left behind |
| tasks, worker, executor | heartbeats overlap and get lost; cancellation against completion; reconnection against Close | a task is handed out once and to somebody, a call leaves no container, one connection, nothing left after Close |
| tool, LLM, gateway services | several calls look, then act | an execution found running does not go on after DisableTool, registries and counters match what is under way |
| event bus, streams, IPC | `closed` is read, the lock released, then the channel used; goroutine per event | accepted events are handled unless they came too late, clients see them in order, leaving ends |
| stores on disk | two files for one change, failed saves, overlapping loaders, moves | what was acknowledged is readable after any crash but the named ones, deleted means gone |
| policy and configuration | two read locks, changes in between; merged sources | what the enforcer returns conforms, what runs is valid, the strongest source wins |
| life cycles | partial initialization, double shutdown, restart with backoff, signals while starting | what was started is closed once and in order, a failed start leaves nothing, every shutdown ends |
| providers and gateway | locks taken in two orders, status set by whoever is in flight, streams that break | a picked provider is fit, streams end once and carry what was sent |
| assistant | messages interleave at awaits, events of old streams, fragments, abandoned delegations | every message ends once, the conversation keeps what was said, errors are not taken for success |
| terminal | answers to commands arrive in another state than they were asked in | somebody reads the answers, the active session is the one used |

The hazards, with the line where each bites and the properties that would show
it going wrong, are listed in `PROJECT.json`; related ones share a row.

## How the modules are written

Each component has a module with its state as VARIABLES and an action per
method, or per step where a method releases its lock or waits. Constants name
the sets of actors and the bounds. Names of variables and of the few common
actions carry a prefix (`gw`, `aa`, `rc`, ...) where modules are composed.
External systems (container engine, network, providers, disk, signals) are
actions of their own or outcomes of a call; `PROJECT.json` marks them.

Operators commented *Mutant of* or *A plausible slip* are wrong versions of the
operator that follows them. No specification uses them; each shows that some
property notices that mistake.

Many components share no state with each other. Small ones of one family share
a module, whose header says so. The modules `MCMessaging`, `MCStorage`,
`MCAgents`, `MCLifecycle`, `MCClients` and `MCConversations` are *sums* of such
components: the variable `part` is chosen at the start, the chosen component
takes all steps, and the others stay in an initial state (one of them, where a
component has several). A sum checks each part exactly as a run of its own
would, with one run for a family of questions. With liveness, the fairness of a
sum is the disjunction over the parts of "`part` is this one, and its fairness
holds": the fairness of a component that stays put would exclude the behaviours
of the others.

## Modules

### Core: scheduler, sessions, routing

| module | role |
|---|---|
| `TaskQueue` | the queue: heap, map, token; operators used by the scheduler, and the queue driven on its own |
| `Scheduler` | extends `TaskQueue` with callers, Close and the workers |
| `SchedulerProofs` | theorems about `Scheduler`, `ProviderRegistry` and `AssistantAgent` |
| `DurableLog` | abstract: a log per session that grows at its end and holds what was acknowledged |
| `SessionManager` | the session files as values (what an append leaves behind, what a load returns); the manager, its state machine, cleanup, Close, crash and boot |
| `RequestReply` | abstract: a request waits for one outcome and gets at most one |
| `AgentRouting` | the agent service and the handlers of sessions, streams and timers |
| `RoutingProofs` | theorems about `AgentRouting`, among them that it implements `RequestReply`, about a worker, and about delegated tool calls |
| `StorageProofs` | theorems about sessions and their files, credentials, memories, skills, configuration, policy and tools |
| `ServiceProofs` | theorems about tasks of agents, tool executions, LLM requests, the gateway and provider calls |
| `MessagingProofs` | theorems about bus, router, handlers, middleware, broker and event streams |
| `LifecycleProofs` | theorems about the gRPC server, the reconnecting client, the streams of clients, the life cycles of orchestrator, assistant and terminal, and the gateway's container |

**TaskQueue and Scheduler.** `pq` and `byId` are the two containers of `Queue`
(`pq`, `tasks`); the heap is the set it holds and `Peek` the tasks `heap.Pop`
may return under `Less`. `notify` is the token in `notifyChan`. `created` stands
for the creation time, as a rank. `Enqueue`, `tryDequeue`, `Remove`, `Clear`,
`UpdatePriority` and `CloseQueue` are the methods of the same names: each runs
under `q.mu` and is one step.

In `Scheduler` the steps of a worker are split where it holds no lock; the
header of the module lists the points (`idle`, `parked`, `claimed`,
`published`, `running`, `requeue`, `finish`, `stopped`). `Take`, `Park`, `Wake`
and `WakeTimeout` are `Dequeue` with its select; `Publish` sets `currentTask`;
`Start`, `Succeed`, `Fail`, `Retry`, `Requeue`, `RequeueFails` and `Finish` are
`executeTask`. A `Cancel` is `CancelQueued` when the queue knows the task, and
otherwise `CancelMiss` followed by one `CancelScan` per worker, under the read
lock, so that workers move while it scans. `Close` is `CloseBegin`, then
`CloseGraceful` or `CloseTimeout`. Handlers are abstract: they return, with or
without an error, and do not call the scheduler. `removed` and `runs` are
history for the properties.

**SessionManager.** A file is a sequence of lines and a flag
that the last one lacks its newline. `Write` says what an append leaves for
each extent to which it was carried out (all, without the newline, a fragment,
nothing), in particular that an append to an unfinished line ruins that line.
`LoadMessages` skips what does not parse, as the code does.

Every method of `Manager` holds `m.mu` throughout, so a method is one action of
the same name. The exceptions are `Close` (`CloseBegin`, `StopCleanup`,
`CloseEnd`), which waits for the cleanup goroutine under the lock, and a crash
in the middle of an append (`CrashInAddMessage`). `AddMessageFails` is a failed
write or sync: the file keeps what was written and memory is left alone.
`Transition` is the state machine of `state.go`. A session has two states
because the code has: `sm` is the one of the state machine and `State` the
field; RestoreSessions sets them differently. `Tick` and `cleanup` are the
ticker's goroutine; `Clean` is its pass over a session, `quiet` the sessions
whose idle time has elapsed. `Boot` is a new process with RestoreSessions.

**RequestReply and AgentRouting.** `client` holds the `StreamMessages` handler
of each session, `agent` the `StreamAgent` handler of each stream, `timer` the
timers and their callbacks. `AgentService.mu` is released between the steps.
`Receive`, `Store`, `Lookup`, `Lock`, `Send`, `RouteFails` and `AddMessage` are
the path of a user message through `routeToAssistant`, `RouteMessageToAgent`
and `sendToAgentStream`; `Lock` includes the second check of the stream after
the wait. `TakeResponse` and `AddResponse` are `processAgentResponse` (the route
is taken under `mu`, the message added after it), `Fire`, `Expire` and
`AddTimeout` the 30 s timer and `expirePendingResponse`. `Establish`,
`Disconnect` and `EndStream` are the life of a stream, the last with the
deferred clean-up; `Register` and `Unregister` the registry. Agents are the
environment: they answer late, twice, on a later stream, naming any session or
none.

`RequestReply` gives each request a stage: new, waiting, then answered, timed
out or dropped. `Stage` of `AgentRouting` maps the tables to it.

### Messaging

`EventBus` splits `Publish` where it releases the read lock between looking at
`closed` and sending; `publishWorker` and `Close` are separate processes, and a
dispatch holds the lock until all its handlers returned. `EventPipeline` has
three parts: the router, where the lookup by topic and prefixes is compared with
a test of every route; the handlers, with RetryHandler around TimeoutHandler,
whose abandoned attempts go on, and BufferedHandler with its caller, its ticker
and Close; and the middleware, which passes events through deduplication and
rate limit under a clock. `IpcBroker` has the
broker's queue and the two accepting goroutines of the socket. `EventStreams`
are the clients subscribed to the bus: a goroutine per event and subscription, a
bounded channel, and a handler that unsubscribes and closes the channel while
sends may be under way.

### Stores, policies, tools

`CredentialStore` keeps what memory, the credentials file and the key file hold
as pairs of secret and key; a rotation is two steps with a crash between.
`OwnerFiles` has the files of a memory in the directories of the owner and of
topics, written by the store and moved by the organizer under another lock, and
the skill store with two loader calls that overlap with it. `ContainerTools` is
the tool registry with the container executor, and the choice of a tool by the
worker with what its exit is taken for. `PolicyInForce` models validation,
hardening and constraining of a container configuration by one member of each
family of rules, with the read-write lock, and once for both of them the two
reloaders of the same shape. `ConfigLoading` follows one section of the
configuration through defaults, file, environment, flags, validation and
reload, each section being of the kind that stands for all fields treated the
same way.

### Services and workers

`AgentTasks`, `WorkerAgent` and `WorkerExecutor` are the three stations of a
task: the registry with heartbeats that overlap and whose answers get lost, the
worker's connection, registration and heartbeats, and the containers of the
executor. `ToolExecutions` has calls, cancellations, DisableTool and StreamTool
around one tool name that may be registered again. `ClientStreams` has the
streams of a session that enter and leave while senders walk the set, and a
session of the gateway service with its count of open streams, and
follows one field of an object between the wire, where enumerations are numbers
that a newer client may extend, and the program, where they are strings.
`LLMRequests` follows requests through the LLM service and the gateway
process.

### Life cycles

`OrchestratorLife` runs Bootstrap with its ladder, the rest of main, any number
of signals and the phases of the shutdown. `GatewayManager` has a monitor per
start, whose steps use what they read before a backoff; the module also has
the registry of runtimes and a container under StopAndDestroy. `GrpcServer` lets
Start, Serve and Stop overlap. `AssistantLifecycle` is bootstrap with its error
path, heartbeats, reconnection, signals and the lifecycle manager of the
assistant; `ShutdownHooks` its shutdown manager.

### Clients and providers

`ReconnectingClient` is the client with its reconnection monitor (the same code
twice in the repository). `ProviderRegistry` has the registry, the failover
manager, the health checker and the token account with their locks; calls that
hold one lock while they take another are cut there. `ProviderCalls` has
completions and streams on one provider of either kind, sharing its status.
`LlmGateway` is the gateway's HTTP service. `AssistantClients` has the
assistant's client of it and its two stream clients of the orchestrator.
`TerminalUI` is `Update` with the commands it starts, each working on the model
as it was.

### The assistant

`AssistantAgent` queues microtasks in their order, so that messages interleave
exactly at their awaits; sessions expire between them, and the stream is lost.
`AnswerParts` has the four strategies that shorten a conversation, as operators
asked about every conversation that can be said; it cuts a text anywhere and
puts the events of an answer together again; and it runs the tool calls of an
answer both ways the source has.

## Runs

| run | modules | instance | shows |
|---|---|---|---|
| `scheduler` | `MCClients` | 3 tasks, 2 workers, limit 2, 1 retry; 3 messages, 2 sessions; 3 heartbeats; 2 providers, 2 callers; 2 requests; 2 callers, 2 dials | ownership and accounting of tasks; the assistant's answers and conversations, its start and end; failover and circuits; the gateway's streams; connections of clients |
| `scheduler_live` | `MCClients` | 2 tasks, 2 workers, limit 1; 2 messages | accepted tasks settle, workers stop after Close; messages the assistant took end, its shutdown does |
| `scheduler_cancel` | `MCClients` | 2 tasks, 2 workers | counterexample: a canceled task is completed, failed or queued again |
| `scheduler_result` | `MCClients` | 2 tasks, 2 workers | counterexample: a canceled task without the times WaitForResult reads |
| `messaging` | `MCMessaging` | 4 tasks, limit 2, 2 priorities; 3 events, 2 subscribers; 3 routes; 4 connections, limit 1; 2 clients; one section of the configuration | queue, bus, router, handlers, middleware, broker and event streams keep tables and channels consistent, closing included; which configuration runs |
| `session_durable` | `MCConversations` | 2 sessions, 3 messages, 1 crash; small instances of eight other parts | acknowledged messages survive in order, the files implement `DurableLog`; terminal, assistant helpers, providers' calls |
| `session_lifecycle` | `MCLifecycle` | 2 sessions, 2 containers, limits 1; 2 starts, 2 boots, 2 streams, 2 events, 1 task, 3 connections | starting, failing and ending of ten parts in every order; what began ends |
| `session_close_hangs` | `MCLifecycle` | 1 session | counterexample: Close waits for the goroutine that waits for Close |
| `session_restore` | `MCConversations` | 1 session, owners 0 (none) and 1 | counterexample: a restart brings back neither a session without owner nor the older part of one whose owner changed |
| `storage` | `MCStorage` | 1 session, 4 messages, 2 crashes, appends cut anywhere; 2 credentials, 3 keys; 1 memory, 2 topics; 2 skills; 2 tools; 2 reloads; 2 callers and 2 policies | what stores lose and keep over crashes and failed saves; reloaders, enforcer and tools |
| `agent_routing` | `MCAgents` | 2 requests, 2 sessions, 2 streams of an agent; 2 tasks, 2 heartbeats; 2 calls; 4 connections, 3 breaks; 2 executions; 2 streams | one outcome per request in its session, implements `RequestReply`; tasks, containers, worker, tool executions, session and gateway streams, LLM requests, conversions |
| `agent_reconnect` | `MCAgents` | 1 request, 1 session, 1 agent, 2 streams | counterexample: the handler of a replaced stream unregisters its successor |

A run that expects a counterexample checks a sentence of the repository against
what the code does; `findings` in `PROJECT.json` quotes the sentence. All runs
disable the deadlock check, since each system may stop: managers are closed,
the bounded supplies of tasks, messages and requests run out, a process may
stay down, and two of the components can come to wait for themselves, which
properties of their own (`StuckOnlySo`, `EnforcerStuckOnlySo`) delimit.

Each property of a passing run is the conjunction of what is claimed of one
component, or of a few small ones of a family. It is defined at the end of the
component's module, or of the MC module when its parts come from several, and
each conjunct has a name and a comment of its own; TLC names the conjunction,
the trace shows which part failed. By run:

- `scheduler`: `ExclusiveOwner`, `Conservation`, `TaskOutcomes`,
  `AssistantAnswers`, `AssistantLeavesCleanly`, `ProvidersChosen`,
  `GatewayRelays`, `ClientKeepsOneLink`;
- `scheduler_live`: `TasksSettle`, `AssistantSettles`;
- `messaging`: `QueueConsistent`, `BusSafe`, `PipelineSafe`, `IpcSafe`,
  `EventStreamsSafe`, `ConfigSafe`;
- `session_durable`: `ConversationsDurable`, `ImplementsLog`, `TerminalSafe`,
  `ClientsSafe`, `AnswerPartsSafe`, `HooksSafe`, `ProviderCallsSafe`;
- `session_lifecycle`: `SessionStatesLegal`, `ContainersTracked`,
  `OrchestratorLeavesNothing`, `ServerLeavesNothing` and, for liveness,
  `ServicesEnd` and `WorkEnds`;
- `storage`: `FilesRecover`, `OwnerFilesMatch`, `ToolsConfined`,
  `PolicyApplied`;
- `agent_routing`: `RoutingSafe`, `ImplementsReply`, `AgentTasksSafe`,
  `WorkerSafe`, `ExecutionsSafe`, `ClientStreamsSafe`, `RequestsAccounted`.

Several properties hold with an exception that the code makes: `MemoryReadable`
and `DiskReadable` except after a rotation cut short or a start that could not
read a file, `LossBounded`, `LostOnlyWhenLate`, `CircuitFollowsCalls`,
`ShutdownEnds` except when the session manager's Close hangs, `ConnectedIsAlive`
except after calls that crossed. Each names the exception exactly, so that a
change of the code that widens it is found. No property claims as correct what
contradicts a text of the repository: where the code does, either a run expects
the counterexample or nothing is claimed, and *Findings* lists the place.

### Bounds and why they are enough

- *Tasks and workers.* Two workers are what an ownership conflict needs, and a
  third task lets the queue of limit 2 be full while a retry comes back. One
  retry distinguishes the first failure from the last. `SchedulerProofs` lifts
  ownership to any number. Priorities have two values in `messaging` and one
  where the scheduler runs: the choice among tasks then depends on age alone.
- *Messages, sessions, crashes.* A torn append needs the message that is cut,
  the one that continues its line and one on either side: four messages. Two
  crashes let a crash happen on a file that was torn before. `session_durable`
  restricts failing appends to whole lines or nothing (the guarantee the code
  claims for Sync), `storage` admits all. Owners are 0, which stands for a session
  without owner as the terminal creates it, and 1; sessions change between them.
- *Streams.* Two streams of one agent are one reconnection: the old handler and
  the new one overlap, which is all the code's clean-up distinguishes. Two
  sessions and two requests let one handler wait for the send lock another
  holds, and let answers be mistaken.
- *Calls that overlap.* Two callers, heartbeats, loaders or reloads are what it
  takes to interleave a method with itself; a third is given where a call must
  find the leftovers of two (`MaxConns`, `MaxKeys`, `MaxIssued`).
- *Limits.* Every limit of the code (attempts, buffers, connections, active
  messages, failures in a row) is 1 or 2, so that it is reached and passed; the
  supply of events exceeds it.
- *Failures of the environment* (crashes, breaks of the network, restarts,
  edits of a file) are counted by the constants `Max...`; nothing restricts when
  they occur. A timer fires at any time, so no bound on time exists, except in the
  middleware of `EventPipeline`, which has a clock.
- *Data* is what the properties tell apart: one path prefix, one member of each
  family of rules, braces for JSON, a section of the configuration for each way
  the code treats one.
- *Symmetry* is used for tasks, workers, messages, requests and sessions, which
  the modules treat alike, and only in runs without liveness properties. In
  `agent_routing`, executions, calls and streams of other parts bear the names of
  the requests and are permuted with them; so do callers and requests of the
  providers and the gateway with the workers in `scheduler`, and calls of a
  provider with the sessions in `session_durable`. Other parts number their
  elements.

### Fairness

`scheduler_live` assumes weak fairness of each worker's own steps, of the
expiry of contexts and of the end of Close: the Go runtime runs every runnable
goroutine, timers expire, and a handler returns because its context has a
deadline. No caller is obliged to call. The assistant's microtasks and timers
run, tools return by their own timeout, and a stream of a model ends or fails
(strong fairness: its chunks may come in between).

`session_lifecycle`: sessions assume weak fairness of the ticker, of `cleanup`
and of the rest of `Close`; the bus and the event streams that handlers return,
which is what `AcceptedReachesHandlers` and `BusCloseReturns` depend on; the
gateway's monitors that they run, and strongly that a restart which is possible
again and again succeeds once; the server that its goroutines run and that the
timeout of Stop ends the wait; the orchestrator that a shutdown which holds the
processor goes on, unless its Close has entered the Close of the session manager
and hangs there (`CloseHangs`, which `session_close_hangs` shows to happen); heartbeats that they go on and, for `PendingIsHanded`, that
their handlers run; executions that the engine answers; the worker's monitors
that they run. None assumes anything of callers, crashes, restarts or the
network. The other runs state safety only.

## Proofs

TLAPS proves the following for every value of the constants, from the
assumptions named in the modules (finite sets of tasks and workers, "nil"
values that are not elements, natural numbers as limits).

Every invariant is proved the same way: an inductive invariant that implies it,
one lemma per action that keeps it, and a last step that combines them. What
follows names, for each theorem, what had to be added to what the runs check,
and why.

`SchedulerProofs`

- `TypeCorrect`: the types of all variables. The types alone are not inductive:
  a worker in the middle of a task must hold one (`HandTyped`).
- `Exclusive`: `ExclusiveOwner`. A worker that takes or re-enqueues a task
  must find it nowhere else, so the inductive invariant adds that only
  submitted tasks circulate (`Circulating`: Submit enqueues a fresh task) and
  that a task Cancel removed is nowhere (`RemovedGone`).
- `Counted`: `Conservation`. The ownership invariant makes the parts disjoint;
  each step then moves a task from one part to another, and the theorems on
  cardinality do the sums.
- `OutcomesStayFinal`: `TaskOutcomes`. A task that is new, waits or is held by a
  worker that has not run it has no outcome yet (`Unsettled`), and the handler
  ran as often as the task was retried, once more while it runs (`RunsMatch`);
  without the two an outcome could be overwritten by a second run.
- `QueueStaysConsistent`: heap and map hold the same tasks, in the queue driven
  on its own (`QInv`). Its hypothesis is that identifiers are unique: with
  `WithTaskID` they need not be, and then heap and map do differ (see
  *Findings*).
- `ProvidersStayChosen`: `ProvidersChosen`, with its action property. The place of
  a call tells which locks it holds and in which queue it waits (`LocksInv`); the
  backups a call has seen are registered, because it holds the registry
  (`SeesRegistered`); and what calls may yet record is counted with what was
  recorded (`Owing`). That calls wait for each other for ever in the three known
  ways only follows from `LocksInv` by the order of the locks: unless one of the
  three is the case, the failover manager becomes free, then the registry, then
  the health checker (`StuckIs`).
- `AssistantKeepsAnswering`: `AssistantAnswers`, with its action property. A queued
  message waits once (`QueuedOnce`), so that the loop adds as many messages to the
  active ones as it takes; what was sent belongs to a message that is over
  (`SentLast`), so that a second answer has no sender; a message that was asked has
  its question in the session, and one about to respond its answer behind it
  (`ToldSoFar`), which later steps of other messages only append to; and the agent
  that shuts down has left its stream before it waits, and has no active message and
  no microtask when it closes (`WorksWhenReady`). The limits are numbers, and
  `maxSessions` is not 0, which the code takes for no limit.

`RoutingProofs`

- `RoutingTypes`, `OutcomeOnce`, `OutcomeInSession`, `RoutesTimed` and
  `LockReleased`: the type invariant and the four safety invariants of the
  routing, and `RoutingCorrect`: their conjunction `RoutingSafe`, which is what
  the run `agent_routing` checks. The inductive invariant `IInv` adds `Known`
  (who asked is recorded before a route or timer exists and never changes; a
  lock is sought only on a stream that was found) and `OneSpeaker`: while a
  request is pending, or its timer has not started or has taken the route, no
  handler holds an answer to it and no session was told an outcome; and at most
  one handler ever holds one. `OneSpeaker` is why the race of answer, timeout
  and end of stream has a single winner: taking the route out of the table under
  `mu` is the only way to become the speaker.
- `Implements`: the specification implements `RequestReply` under the mapping
  `Stage`. From `IInv` the stages exclude each other (`StagesExclusive`); each
  action changes the stage of one request, drops the requests of a set of
  routes (`Withdraw`), or is a stutter (`NoneMoves`).
- `WorkerStaysSafe`: `WorkerSafe`, with its action properties. How far a call and
  its cancellation got tells whether there is an entry, a result and, outside
  the steps that work on it, a container (`ExCallOK`); a step touches the
  container of its own call only (`ExOthers`). Of the connection: no link is
  open when the monitor dials (`MonitorKnows`); the place of the main goroutine
  tells whether it is registered, connected and watched (`MainKnows`); and from
  the end of the unregistration on, the orchestrator keeps lost IDs only
  (`IdsKnown`), which is more than `NoGhosts` says and what makes it inductive.
- `DelegationsStaySafe`: `DelegationsSafe`, a conjunct of `AnswerPartsSafe`. Calls are run one at a time, and none
  once the answer is over, although those that were given up go on (`OneByOne`); a
  task exists only for a call that asked (`TasksWereAsked`); so a task beside that of a given-up call means that somebody
  carried on after its failure. The answer has at least one tool call.

`StorageProofs`

- `SessionsStayTyped`, `StatusStaysWithState`, `ClosedStaysFinal`: of the
  sessions in memory (`LifeInv`).
- `LossStaysBounded`, `OrderStaysPreserved`, `ConversationsStayDurable` and the
  refinement `FilesImplementTheLog`. The inductive invariant `DurableInv`
  relates what a load would return to what was acknowledged, which takes lemmas
  on what an append adds to `LoadMessages`, whether the last line is finished or
  not. The first two theorems admit appends cut anywhere and need only that
  `Persistence` is on; the last two are about the guarantee Sync claims, appends
  of whole lines or nothing (`Extents`). All four speak of the file of an owner,
  the empty one included, and follow a session through changes of owner: what was
  acknowledged under an owner is in that owner's file. That a restart brings back
  what the files hold is not among them, because it does not: it skips the files
  without owner (`session_restore`).
- `CredentialsStayReadable`: `CrIInv` adds which of the key in memory and the
  key file is ahead of the other at each step of a rotation (`KeysAgree`), and
  says of memory and of the file separately which key opens them (`CrMemory`,
  `CrDisk`). A start that cannot read a file goes on with an empty store or a new
  key; from then on only what is acknowledged later is claimed. `FilesStayRecoverable`
  is its conjunction with the bound on what sessions lose: `FilesRecover`, with
  the hypothesis of the latter.
- `OwnerFilesStayMatched`: `OwnerFilesMatch`. Skills: what was acknowledged is
  in memory and on disk (`AckedIsKept`), and the sets that are counted are
  finite. Memories: one that was never scattered over directories has one file,
  where the store looks for it (`MmTidy`), and what a deletion or a move has
  found under one lock is still so although the other lock was free in between
  (`MmLocks`).
- `ConfigStaysSafe`: `ConfigSafe`, for any values that file, environment and
  flags may have. The inductive invariant is what makes the order of the
  sources visible: a process runs what loading the file it came from gives, with
  the flags on top before the first reload and without them after it, and that
  loading succeeded (`RunsWhatWasLoaded`). The parts of `ConfigSafe` follow from
  what each stage does to each kind of section (`CfMemory`, `CfModels`,
  `CfStrongest`).
- `PolicyStaysApplied`: `PolicyApplied`, with its action property. What a caller of
  the enforcer established stays true because it holds a read lock, so nobody
  changes a policy (`PeCaller`); constraining a configuration that was allowed
  violates no rule (`ConstrainConforms`), provided the limits of the policy do
  not contradict each other. Of the reloaders: until a Stop comes in between one
  Reload is in flight (`OneFlies`), and what callbacks accepted lies between the
  version shown and the one the Reload brings (`InBetween`).
- `ToolsStayConfined`: `ToolsConfined`. No two tools share an instance
  (`InstancesApart`); the step of an execution tells what its container does, and
  a container without an execution was kept on purpose or could not be removed
  (`ContainersKnown`). Of the worker's tools: a task that reached a container has
  the tool of its type and operation, and one that exited well did what was asked
  (`WtTaskOK`).

`ServiceProofs`

- `AgentTasksStaySafe`, `ExecutionsStaySafe`, `RequestsStayAccounted`. The
  counters of the three services are sums over what runs: the inductive
  invariants say for every call what it still owes to the counters, so that each
  step moves one unit, and that a call in flight is known to its registry.
- `ProviderCallsStaySafe`: `ProviderCallsSafe`, with its action property. What a
  stream has read is what it passed on, in order and with the text so far
  (`Unfinished`); an error ends it, and a final event does in OpenAI streams only. Chunks
  exist only where a stream was accepted (`PcShape`), so that only calls in
  flight set the status (`PcWhoseStep`).

`MessagingProofs`

- `IpcStaysSafe`, `BusStaysSafe`, `EventStreamsStaySafe`: every accepted event
  or message is in one place, and nothing is sent on a channel after it is
  closed.
- `PipelineStaysSafe`: the tables of the router agree, and an exact topic has one
  entry (`TablesAgree`, `ExactIsOne`); an attempt that was abandoned is no
  longer waited for (`AttemptOK`); a buffered event is in one place and flushes
  keep the order (`OnePlace`, `FlushesInOrder`); the middleware passes events
  in the order of its clock, and its windows remember those of the last window
  (`PassedInOrder`, `RateRemembers`, `WindowsBounded`, `TtlRemembers`).
- `ClientsStaySafe`: `ClientsSafe`. A call of the model client reads as long as the
  server has a stream for it, what was read and what is queued make up what was
  sent, and a stream is finished because it ended, completed or was aborted
  (`StreamRight`, `EndRight`). Until a stream client has two streams, or a stream
  and a timer, at once, the open stream is the current one and a timer means that
  none is open (`AsOrderly`).

`LifecycleProofs`

- `ServerStaysClean`: a listener belongs to the server that was started
  (`ListenerOwned`), one that failed was not (`FailedIsNotStarted`).
- `ClientStaysLinked`: one connection and one monitor, under the steps of
  connecting, closing and reconnecting that overlap (`OneMonitor`,
  `OpenIsWatched`, `ClosingIsQuiet`, and for a client used by one caller
  `AloneIsOrderly` and `NoLeakAlone`).
- `ClientStreamsStaySafe`: streams of a session, sessions of the gateway, and
  conversions.
- `OrchestratorStaysClean`: `OrchestratorLeavesNothing`. Who asked for a shutdown
  first is the only one who works on it, and his place tells its state
  (`OneShutter`); nobody shuts down a process that is not waiting
  (`ShutsWhenWaiting`), and as long as nobody closed it, an orchestrator that
  started has all subsystems (`UpUntilClosed`).
- `HooksStaySafe`: `HooksSafe`, with its action property. The caller that runs
  the shutdown awaits a hook of the phase that the state says (`RunsAHook`), the
  hooks behind it ended well or a failure was counted, those before it have not
  begun (`HooksInTurn`), and a shutdown that stopped in the middle threw
  (`BegunOnce`).
- `AssistantStaysClean`: `AssistantLeavesCleanly`. How far bootstrap and the
  lifecycle manager's shutdown got, and which calls of unregister wait for their
  answer, tells what exists (`BootTells`, `EndTells`), and every reconnection and every missed heartbeat was begun by a heartbeat that
  was sent (`BeatsAddUp`), which bounds them.
- `TerminalStaysSafe`: `TerminalSafe`. A command works on an old copy of the
  model, so the invariant says which copies there can be: a session that was only
  created has no stream and a stream that was only opened was never written to
  (`CmdsRight`), no two commands hold the same new session or stream, or both end
  the program (`CmdsApart`), the one that does works on the session in use
  (`ClosingRight`), and the link is up unless it was lost (`LinkRight`). Dials
  and sessions are counted with the commands about to make them (`CmdCounts`).
- `ContainersStayTracked`: `ContainersTracked`, with its action property. A monitor
  restarts only what it found started under the lock, so no step starts the
  container of a gateway that was stopped (`GmKeeps`). A runtime is registered under
  its own type, and an open instance is the registered one (`RuntimesOK`); what was
  destroyed stays absent (`ContainersOK`).

Proving changed the models in a few places. The loads of a session file and the
sums are stated without recursion. A sweep of DisableTool keeps the set of
executions it saw, because the proof needed to know which they were; and the
cases of `Write`, which overlapped, exclude each other. `FindHandlers` had a
union that bound more than it should, and the gateway's `Text` updated a field
that a request does not have. The commands of the terminal have numbers, of
which a new one takes a free one, where they were a sequence. The values of the
configuration's sources are constants, and a path is under another by a
definition of its own. Who waits for a lock is said by `Waits` for the enforcer
and by `CanGo` for the providers, the guards of the steps that lock, where the
properties had `ENABLED`. Assumptions that the proofs need about constants
(`RouterAssumption`, `GwAssumption`, `WaAssumption` and the like) are stated in
the modules and evaluated in the runs.

The theorems are about the specification of the component alone. The runs check
the same formulas on the part of a sum where the component takes the steps.

What is only model-checked:

- Liveness: `TasksSettle`, `AssistantSettles`, `ServicesEnd` and `WorkEnds` rest
  on fairness, and TLAPS cannot reason about `ENABLED`.
- What recursive functions and folds compute for every input, such as the order
  in which a heap hands out its tasks: the prover has no induction over data.
  The theorems use only what one step of such a definition says.
- Properties without a theorem so far: `SessionStatesLegal` (its part on states
  is `StatusStaysWithState` and `ClosedStaysFinal`; that an expired session is
  closed rests on fairness) and `AnswerPartsSafe` (its part on delegations is
  `DelegationsStaySafe`; the rest states what folds over the messages and chunks of
  an answer compute).

## Findings

Where the code does something else than its own text says, a run shows it:

1. `Cancel` of a running task is overwritten by the outcome, and a failing one
   is even retried (`scheduler_cancel`).
2. `WaitForResult` dereferences times a task canceled in the queue never got
   (`scheduler_result`).
3. `Manager.Close` waits for the cleanup goroutine under the lock it needs
   (`session_close_hangs`).
4. A restart does not bring back a session without owner, which is how the
   terminal creates every session, nor the older part of one whose owner
   changed (`session_restore`).
5. The end of a replaced stream removes the stream that replaced it
   (`agent_reconnect`).

The models follow the code also where it is surprising. What a reader of the
code may want to know, by part:

*Scheduler, sessions, routing.* With `WithTaskID` two tasks can share an
identifier, and the heap then exceeds the limit the map is checked against.
Tasks queued at Close stay queued. Deleted and closed sessions come back at a
restart; a restored session is idle in its field and initializing in its state
machine, so that a message does not activate it (`manager.go:814`); a restart
ignores the session limit; a torn line swallows the next acknowledged message.
The routes of a stream that ends are dropped silently; a fast answer precedes
its question in the history; a log frame that spans two reads is dropped
(`worker/executor.go:561`).

*What clients see.* A task that a worker picked up is "started", which has no
number on the wire, so it is shown as unspecified; so are the types of most
events the services publish (`agent.registered`, `message.sent`, `tool.*`). The
data of `session.closed` converts the number of the state to a character
(`orchestrator_service.go:341`). The sweep of DisableTool marks executions
canceled that go on to their end; an execution canceled while it ends may keep
either outcome. A request whose stream fails stays in the registry that "tracks
active LLM requests" (`llm_service.go:51` against `:394`), and usage events add
nothing to the totals (`:1152`).

*Stores.* A memory without topic that the organizer has moved lies where neither
Get nor Delete looks (`organizer.go:329` against `store.go:609`): deleting it
succeeds and a restart brings it back. `OwnerFilesMatch` counts such a memory as
scattered and claims only that nothing else is. A credential store that cannot
read its file starts empty and overwrites it with the next save
(`credentials/store.go:106`), and an unreadable key is replaced by a new one
(`:621`); what was acknowledged before such a start is not claimed after it.

*Policy and configuration.* `validateMounts` sets ReadOnly on a copy of the
mount; a session's own mount allowlist is resolved against the global policy
(`enforcer.go:348` against `rules.go:171`), so nothing is claimed of it; merged
policies are not validated again. TLS paths of the file are always overwritten by
the environment, also by nothing; a file that has a section without its
switch turns the switch off, against `config.go:544` and `:697`; the file is validated
before the environment overrides it, flags are not validated, and a reload on
SIGHUP forgets the flags (`cmd/orchestrator/main.go:913`). A memory section with
only `enabled: false` leaves memory on; an explicit zero cannot be configured.

*Providers.* A canceled request sets the status "error" and the provider, which
then refuses every call, never leaves it, against "allow retry"
(`failover.go:351`, `config.go:46`). A stream without a final event closes its
channel as if it were complete; the Anthropic reader passes on what follows a
`message_delta`, and one without usage panics in a goroutine, which ends the
process (`anthropic.go:409`, `:425`). A consumer that stops receiving leaves its
goroutine blocked; OpenAI streams record no usage. The failover manager creates
states without a health status, and `GetSummary`, `GetAllProviderStates` and
`EnforceContainerConfig` take a read lock they already hold, which blocks when a
writer waits. HealthCheck and Close take two locks in opposite orders. The
Anthropic stream of the gateway process gives the arguments of a tool call to the
next one and loses those of the first (`llm-gateway/src/providers/anthropic.ts:98`,
`:130`, `:157`); that arguments arrive is claimed of OpenAI streams only.

*Life cycles.* `InitGlobal` of the gRPC package cannot be repeated after it
failed. `index.ts` starts the assistant with `bootstrapWithDefaults`, so that
`closeGlobal` on a signal closes nothing. A second signal does not wait for the
agent the first is shutting down. With `autoRestart`, a reconnection that ends in
the await of `unregister` starts the heartbeats again and forgets the agent
(`registration.ts:208-219`): the timer and the registration stay. A graceful
shutdown of the LifecycleManager begun while messages are processed waits for its
deadline on a stale snapshot and then skips its steps. `Orchestrator.Close` calls
the Close of the session manager without a timeout (`orchestrator.go:562`), so
that a shutdown hangs where finding 3 does. A handler of the event bus that
publishes to a full channel waits for the worker that waits for it. `main`
configures no container runtime for the tool service. Reconnection attempts are
never reset in the Go clients, and a monitor that gave up is not started again.

*Clients.* Ctrl+r in the error state of the terminal fails while the link is up,
because Dial then refuses ("already connected"), so that it makes no new session
(`tui/model.go:360`, `:369`, `tui/client.go:186`). In the stream clients of
the assistant `maxReconnectAttempts` stops nothing (`stream-client.ts:55`, `:377`),
and connect and close in one turn leave a client that says it is connected and has
no stream (`stream-client.ts:185`).

*Assistant.* A session that expires stays closed, is never deleted, fails later
messages and counts against the limit; two first messages of a session taken in
one turn make the second fail; queued messages are not answered after shutdown;
the agent does not reconnect its stream; tool results are not fed back to the
model; delegations are refused for the missing agent (`agent_service.go:730`
against `worker-delegation.ts:59`, `:138`, which takes an empty one for "the
orchestrator assigns"). A timeout or a cancellation of a stream of the model ends
the answer without an error. A custom command of a worker runs a shell whose
argument is another shell, so nothing is executed and success reported. The
classes `LifecycleManager`, `ShutdownManager`, `ContextWindow`,
`ToolCallExecutor`, `StreamTaskClient`, both aggregators, `SSEParser` and the
constructors of the Go providers have no caller outside tests: their models let
an arbitrary caller use them.

## Not modelled, and why

- The logger, the interceptors, the shared type declarations and the generated
  protocol code hold no state that another part reads. The built-in tools are
  I/O on their container. The Apple runtime answers every operation with "not
  supported".
- Fields that are copied unchanged, formats, texts, logging and layout, in every
  module; parsing of policies, skills and markdown; the other fields of a
  configuration section, which repeat the kinds that `ConfigLoading` has.
- The engine, the network, language models and the disk are external; their
  failures enter as outcomes of the calls.
- Real time: a timer fires at any point after it was set, a timeout of 30 s or
  of 30 ns is the same step.
- Data races of the Go memory model: a model interleaves steps and does not see
  torn reads.
- The flock protocol between processes that share the storage directory.
- Interleavings inside three operations that are one step here although the code
  is not one section: `BufferHandle` (`events/handler.go:500`), which lets go of
  the lock between its append and its flush; `SendMessage` of `IpcBroker` (`ipc/broker.go:125`);
  and a second `Start` of a gRPC server (`grpc/server.go:180`), which the
  program's own bootstrap never does.
- What each `partly` in the components of `PROJECT.json` says.

## Plan

The components of the inventory have their modules. What is left, in this order:

1. Theorems: the safety properties listed under *What is only model-checked*,
   of `AnswerPartsSafe` what one step of a fold says.
2. Refinements: an abstract channel (accepted events are delivered once or
   refused) for `EventBus`, `IpcBroker` and `EventStreams`; a map that some key
   opens for `CredentialStore`; `RequestReply` for the assistant.
3. Compositions: `AgentRouting` with `SessionManager`, a conversation on disk
   holds each outcome once; `AgentTasks` with `WorkerAgent` and
   `WorkerExecutor`, a task that is handed out is run or lost with its
   heartbeat.
4. The remaining operations of the components marked `partly`.
