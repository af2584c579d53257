---------------------------- MODULE MCMessaging ----------------------------
(***************************************************************************)
(* Instances of the task queue, the event bus and the streams fed by it,   *)
(* the router, the handlers, the middleware and the IPC broker for TLC.    *)
(* The loading of the configuration takes its turn here as well.  They     *)
(* share no state: a behaviour picks one of them at the start and the      *)
(* others stay put, so one run explores the sum of their state spaces.     *)
(***************************************************************************)
EXTENDS TaskQueue, EventBus, EventPipeline, IpcBroker, EventStreams, ConfigLoading, TLC

VARIABLE part

\* Generated identifiers: every task object has its own.
UniqueIds == [t \in Tasks |-> t]
MCPriorities == 0..1

\* Events 1 and 2 have one type, 3 another; a subscription per type and one for all.
MCEventTypeOf == [e \in 1..3 |-> IF e = 3 THEN "b" ELSE "a"]
MCFilterOf == [s \in 1..2 |-> IF s = 1 THEN "a" ELSE "any"]

MCTopics == {<<>>, <<"a">>, <<"b">>, <<"a", "x">>}

MCSourceOf == [i \in {"i1", "i2"} |-> IF i = "i1" THEN "s1" ELSE "s2"]

\* Of every field one value that is valid and one that is not, or that is missing.
MCNumbers == {-1, 0, 2, 65536}
MCTexts == {"", "debug", "warn", "reference"}
MCStorages == {<< >>, <<"data">>}
MCHomes == {<< >>, <<"data", "/people">>, <<"data", "base">>, <<"home">>}
MCEnvStorages == {<<"env">>}
MCProvidersWritten ==
    {NotSet, [anthropic |-> "none", openai |-> "key"], [anthropic |-> "key", openai |-> "none"]}
        \cup [{"anthropic"} -> {"off", "placeholder"}]

Symmetry == Permutations(Tasks)

vars == <<queueVars, busVars, routerVars, handlerVars, mwVars, ipcVars, esVars, cfVars, part>>

Init ==
    /\ NewQueue /\ BusInit /\ RouterInit /\ HandlersInit /\ MiddlewareInit /\ IpcInit /\ EsInit /\ CfInit
    /\ part \in {"queue", "bus", "router", "retry", "buffer", "middleware", "ipc", "streams", "config"}
    /\ part # "queue" => \A t \in Tasks : prio[t] = 0
    /\ part # "config" => section = "level"

Next ==
    /\ UNCHANGED part
    /\ \/ part = "queue" /\ QueueNext
          /\ UNCHANGED <<busVars, routerVars, handlerVars, mwVars, ipcVars, esVars, cfVars>>
       \/ part = "bus" /\ BusNext
          /\ UNCHANGED <<queueVars, routerVars, handlerVars, mwVars, ipcVars, esVars, cfVars>>
       \/ part = "router" /\ RouterNext
          /\ UNCHANGED <<queueVars, busVars, handlerVars, mwVars, ipcVars, esVars, cfVars>>
       \/ part = "retry" /\ RetryNext
          /\ UNCHANGED <<queueVars, busVars, routerVars, mwVars, ipcVars, esVars, cfVars>>
       \/ part = "buffer" /\ BufferNext
          /\ UNCHANGED <<queueVars, busVars, routerVars, mwVars, ipcVars, esVars, cfVars>>
       \/ part = "middleware" /\ MiddlewareNext
          /\ UNCHANGED <<queueVars, busVars, routerVars, handlerVars, ipcVars, esVars, cfVars>>
       \/ part = "ipc" /\ IpcNext
          /\ UNCHANGED <<queueVars, busVars, routerVars, handlerVars, mwVars, esVars, cfVars>>
       \/ part = "streams" /\ EsNext
          /\ UNCHANGED <<queueVars, busVars, routerVars, handlerVars, mwVars, ipcVars, cfVars>>
       \/ part = "config" /\ CfNext
          /\ UNCHANGED <<queueVars, busVars, routerVars, handlerVars, mwVars, ipcVars, esVars>>

Spec == Init /\ [][Next]_vars
=============================================================================
