------------------------------ MODULE MCAgents ------------------------------
(***************************************************************************)
(* Instances for TLC of the services of the orchestrator and of the parts  *)
(* around its agents: the routing of user messages, the tasks of agents,   *)
(* the tool containers of a worker and its connection, the executions of   *)
(* tools, the streams per session, gateway sessions, LLM requests, and the *)
(* conversions between what clients send and see and what is stored.       *)
(* They share no state: a behaviour picks one at the start and the others  *)
(* stay put.                                                               *)
(***************************************************************************)
EXTENDS AgentRouting, AgentTasks, WorkerExecutor, WorkerAgent, ToolExecutions, ClientStreams,
        LLMRequests, TLC

VARIABLE part

\* One agent opens every stream, one after the other.
OneAgent == [x \in Streams |-> 1]

\* Both calls run the same tool: their containers have the same name.
OneTool == [c \in Calls |-> 1]

\* Executions, streams and calls of other parts have the names of the requests,
\* so that one set of permutations serves them all.
Symmetry == Permutations(Requests) \cup Permutations(Sessions)

agentsVars == <<vars, atVars, exVars, waVars, tsVars, ssVars, gsVars, lqVars, wfVars, part>>

AgentsInit ==
    /\ Init /\ AtInit /\ ExInit /\ WaInit /\ TsInit /\ SsInit /\ GsInit /\ LqInit /\ WfInit
    /\ part \in {"routing", "tasks", "executor", "worker", "tools", "chat", "gatewaystreams", "llm", "wire"}
    /\ part # "tools" => tsExecutor
    /\ part # "worker" => up
    /\ part # "wire" => wfField = "state" /\ wfStored = "active"

AgentsNext ==
    /\ UNCHANGED part
    /\ \/ part = "routing" /\ Next
          /\ UNCHANGED <<atVars, exVars, waVars, tsVars, ssVars, gsVars, lqVars, wfVars>>
       \/ part = "tasks" /\ AtNext
          /\ UNCHANGED <<vars, exVars, waVars, tsVars, ssVars, gsVars, lqVars, wfVars>>
       \/ part = "executor" /\ ExNext
          /\ UNCHANGED <<vars, atVars, waVars, tsVars, ssVars, gsVars, lqVars, wfVars>>
       \/ part = "worker" /\ WaNext
          /\ UNCHANGED <<vars, atVars, exVars, tsVars, ssVars, gsVars, lqVars, wfVars>>
       \/ part = "tools" /\ TsNext
          /\ UNCHANGED <<vars, atVars, exVars, waVars, ssVars, gsVars, lqVars, wfVars>>
       \/ part = "chat" /\ SsNext
          /\ UNCHANGED <<vars, atVars, exVars, waVars, tsVars, gsVars, lqVars, wfVars>>
       \/ part = "gatewaystreams" /\ GsNext
          /\ UNCHANGED <<vars, atVars, exVars, waVars, tsVars, ssVars, lqVars, wfVars>>
       \/ part = "llm" /\ LqNext
          /\ UNCHANGED <<vars, atVars, exVars, waVars, tsVars, ssVars, gsVars, wfVars>>
       \/ part = "wire" /\ WfNext
          /\ UNCHANGED <<vars, atVars, exVars, waVars, tsVars, ssVars, gsVars, lqVars>>

AgentsSpec == AgentsInit /\ [][AgentsNext]_agentsVars

\* The routing of user messages alone.
RoutingSpec == (AgentsInit /\ part = "routing") /\ [][AgentsNext]_agentsVars

\* Of a worker: its calls leave no container behind and touch those of no other, also
\* under cancellation and Close; its agent has one connection and one registration,
\* and none when closed (worker/executor.go, worker/agent.go).
WorkerSafe ==
    /\ [](/\ ExTypeOK
          /\ NothingRemains
          /\ RunningIsListed
          /\ WaTypeOK
          /\ OneConnection
          /\ ClosedIsGone
          /\ NoGhosts)
    /\ OthersUntouched
    /\ ClosedRunsOut
=============================================================================
