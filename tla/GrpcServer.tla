------------------------------ MODULE GrpcServer ------------------------------
(***************************************************************************)
(* The gRPC server of the orchestrator (pkg/grpc/server.go, health.go and  *)
(* bootstrap.go): its socket, its start and stop, the calls in it and its  *)
(* health status.                                                          *)
(*                                                                         *)
(* Server.mu is released between the steps of Start and of Stop, which may *)
(* overlap.  grpc.Server is external: Serve on a stopped server closes the *)
(* listener and returns, GracefulStop waits for the calls, Stop cancels    *)
(* them and does not wait.  Closing a listener removes its socket file.  A *)
(* crashed process leaves the file behind.                                 *)
(***************************************************************************)
EXTENDS Naturals

CONSTANTS
    MaxRpcs,        \* calls at a time (bound)
    MaxProcesses    \* processes started (bound)

ASSUME GvAssumption == MaxRpcs \in Nat /\ MaxProcesses \in Nat \ {0}

VARIABLES
    gvProcess,      \* processes started so far
    gvBoot,         \* Bootstrap: "none", "new", "registered", "ready", "failed"
    gvHealth,       \* HealthServer: "none", "partial", "serving", "shutdown"
    gvStarted,      \* Server.started
    gvClosed,       \* Server.closed
    gvStart,        \* Start: "none", "listen", "chmod", "publish", "done", "failed"
    gvStop,         \* Stop: "none", "graceful", "listener", "wait", "remove", "done"
    gvListener,     \* the listener: "none", "open", "closed"
    gvKnown,        \* Server.listener is set
    gvServe,        \* the serve goroutine: "none", "runs", "ended"
    gvGrpc,         \* grpc.Server: "runs", "draining", "stopped"
    gvRpcs,         \* calls in their handlers
    gvSocket        \* the file at the path: "none", "own", "stale" or "other"

gvServerVars == <<gvStarted, gvClosed, gvStart, gvStop, gvListener, gvKnown, gvServe, gvGrpc>>
gvVars == <<gvProcess, gvBoot, gvHealth, gvServerVars, gvRpcs, gvSocket>>

\* The path is free, or holds something that is not a socket nor a plain file.
GvInit ==
    /\ gvStarted = FALSE /\ gvClosed = FALSE /\ gvStart = "none" /\ gvStop = "none"
    /\ gvListener = "none" /\ gvKnown = FALSE /\ gvServe = "none" /\ gvGrpc = "runs" /\ gvRpcs = 0
    /\ gvBoot = "none" /\ gvHealth = "none"
    /\ gvProcess = 1 /\ gvSocket \in {"none", "stale", "other"}

\* The process dies; another one starts at the same path.
KillServerProcess ==
    /\ gvProcess < MaxProcesses /\ gvProcess' = gvProcess + 1
    /\ gvStarted' = FALSE /\ gvClosed' = FALSE /\ gvStart' = "none" /\ gvStop' = "none"
    /\ gvListener' = "none" /\ gvKnown' = FALSE /\ gvServe' = "none" /\ gvGrpc' = "runs" /\ gvRpcs' = 0
    /\ gvBoot' = "none" /\ gvHealth' = "none"
    /\ gvSocket' = IF gvSocket = "own" THEN "stale" ELSE gvSocket

-----------------------------------------------------------------------------
(* Bootstrap.                                                              *)

\* NewServer removes a file left at the path, and refuses anything else.
NewServer ==
    /\ gvBoot = "none"
    /\ gvBoot' = IF gvSocket = "other" THEN "failed" ELSE "new"
    /\ gvSocket' = IF gvSocket = "stale" THEN "none" ELSE gvSocket
    /\ UNCHANGED <<gvProcess, gvHealth, gvServerVars, gvRpcs>>

\* The health server and the five services, each with its status; a server closed
\* meanwhile refuses them, and Bootstrap fails as it does when Start refuses.
RegisterServices ==
    /\ gvBoot = "new" /\ gvBoot' = "registered"
    /\ gvHealth' = IF gvClosed THEN "partial" ELSE "serving"
    /\ UNCHANGED <<gvProcess, gvServerVars, gvRpcs, gvSocket>>

\* Start has returned.
FinishBootstrap ==
    /\ gvBoot = "registered" /\ gvStart \in {"done", "failed"}
    /\ gvBoot' = IF gvStart = "done" /\ gvHealth = "serving" THEN "ready" ELSE "failed"
    /\ UNCHANGED <<gvProcess, gvHealth, gvServerVars, gvRpcs, gvSocket>>

-----------------------------------------------------------------------------
(* Start.                                                                  *)

\* Under the lock; a closed server, or one started before, is refused.
BeginStart ==
    /\ gvBoot = "registered" /\ gvStart = "none"
    /\ gvStart' = IF gvClosed THEN "failed" ELSE "listen"
    /\ gvStarted' = ~gvClosed
    /\ UNCHANGED <<gvProcess, gvBoot, gvHealth, gvClosed, gvStop, gvListener, gvKnown, gvServe, gvGrpc,
                   gvRpcs, gvSocket>>

Listen ==
    /\ gvStart = "listen" /\ gvStart' = "chmod"
    /\ gvListener' = "open" /\ gvSocket' = "own"
    /\ UNCHANGED <<gvProcess, gvBoot, gvHealth, gvStarted, gvClosed, gvStop, gvKnown, gvServe, gvGrpc, gvRpcs>>

\* The socket cannot be made, or its mode not be set: started is taken back.
StartFails ==
    /\ gvStart \in {"listen", "chmod"} /\ gvStart' = "failed"
    /\ gvStarted' = FALSE
    /\ gvListener' = IF gvStart = "chmod" THEN "closed" ELSE gvListener
    /\ gvSocket' = IF gvStart = "chmod" THEN "none" ELSE gvSocket
    /\ UNCHANGED <<gvProcess, gvBoot, gvHealth, gvClosed, gvStop, gvKnown, gvServe, gvGrpc, gvRpcs>>

SetMode ==
    /\ gvStart = "chmod" /\ gvStart' = "publish"
    /\ UNCHANGED <<gvProcess, gvBoot, gvHealth, gvStarted, gvClosed, gvStop, gvListener, gvKnown, gvServe,
                   gvGrpc, gvRpcs, gvSocket>>

\* Mutant of BeginServe: returns early when the server was closed meanwhile.
BeginServeUnlessClosed ==
    /\ gvStart = "publish" /\ gvStart' = "done"
    /\ gvKnown' = TRUE /\ gvServe' = IF gvClosed THEN gvServe ELSE "runs"
    /\ UNCHANGED <<gvProcess, gvBoot, gvHealth, gvStarted, gvClosed, gvStop, gvListener, gvGrpc, gvRpcs, gvSocket>>

\* The listener becomes known, whether or not Stop has run, and is served.
BeginServe ==
    /\ gvStart = "publish" /\ gvStart' = "done"
    /\ gvKnown' = TRUE /\ gvServe' = "runs"
    /\ UNCHANGED <<gvProcess, gvBoot, gvHealth, gvStarted, gvClosed, gvStop, gvListener, gvGrpc, gvRpcs, gvSocket>>

\* grpc.Server.Serve returns when the server drains or stops, or its listener is
\* closed; it closes the listener.
ServeEnds ==
    /\ gvServe = "runs" /\ (gvGrpc # "runs" \/ gvListener = "closed")
    /\ gvServe' = "ended"
    /\ gvListener' = "closed"
    /\ gvSocket' = IF gvListener = "open" THEN "none" ELSE gvSocket
    /\ UNCHANGED <<gvProcess, gvBoot, gvHealth, gvStarted, gvClosed, gvStart, gvStop, gvKnown, gvGrpc, gvRpcs>>

-----------------------------------------------------------------------------
(* The calls.                                                              *)

BeginRpc ==
    /\ gvServe = "runs" /\ gvGrpc = "runs" /\ gvListener = "open" /\ gvRpcs < MaxRpcs
    /\ gvRpcs' = gvRpcs + 1
    /\ UNCHANGED <<gvProcess, gvBoot, gvHealth, gvServerVars, gvSocket>>

EndRpc ==
    /\ gvRpcs > 0 /\ gvRpcs' = gvRpcs - 1
    /\ UNCHANGED <<gvProcess, gvBoot, gvHealth, gvServerVars, gvSocket>>

-----------------------------------------------------------------------------
(* Stop.                                                                   *)

\* HealthServer.Shutdown, which the shutdown hook of main calls before Stop.
ShutDownHealth ==
    /\ gvHealth \in {"partial", "serving"} /\ gvHealth' = "shutdown"
    /\ UNCHANGED <<gvProcess, gvBoot, gvServerVars, gvRpcs, gvSocket>>

\* Only the first Stop gets further: by the hook, or by Bootstrap when it failed.
BeginStop ==
    /\ gvBoot = "new" \/ gvHealth # "none"
    /\ ~gvClosed
    /\ gvBoot = "ready" => gvHealth = "shutdown"
    /\ gvClosed' = TRUE /\ gvStop' = "graceful"
    /\ gvGrpc' = "draining"
    /\ UNCHANGED <<gvProcess, gvBoot, gvHealth, gvStarted, gvStart, gvListener, gvKnown, gvServe, gvRpcs, gvSocket>>

StopWith(from, to) ==
    /\ gvStop = from /\ gvStop' = to
    /\ UNCHANGED <<gvProcess, gvBoot, gvHealth, gvStarted, gvClosed, gvStart, gvKnown, gvServe>>

\* All calls have returned, or the timeout passes and they are canceled.
GracefulStop ==
    /\ StopWith("graceful", "listener") /\ gvGrpc' = "stopped"
    /\ UNCHANGED <<gvListener, gvRpcs, gvSocket>>

\* The listener removes its file as it is closed.
CloseListener ==
    /\ StopWith("listener", "wait")
    /\ gvListener' = IF gvKnown THEN "closed" ELSE gvListener
    /\ gvSocket' = IF gvKnown /\ gvListener = "open" THEN "none" ELSE gvSocket
    /\ UNCHANGED <<gvGrpc, gvRpcs>>

\* wg.Wait; a Start that has not come to wg.Add is not waited for.
WaitForServe ==
    /\ gvServe # "runs"
    /\ StopWith("wait", "remove")
    /\ UNCHANGED <<gvListener, gvGrpc, gvRpcs, gvSocket>>

RemoveSocket ==
    /\ StopWith("remove", "done")
    /\ gvSocket' = IF gvSocket = "other" THEN "other" ELSE "none"
    /\ UNCHANGED <<gvListener, gvGrpc, gvRpcs>>

StartStep == BeginStart \/ Listen \/ StartFails \/ SetMode \/ BeginServe
StopStep == GracefulStop \/ CloseListener \/ WaitForServe \/ RemoveSocket

GvNext ==
    \/ KillServerProcess
    \/ NewServer \/ RegisterServices \/ FinishBootstrap
    \/ StartStep \/ ServeEnds
    \/ BeginRpc \/ EndRpc
    \/ ShutDownHealth \/ BeginStop \/ StopStep

\* The goroutines run and the timeout of Stop expires; calls need not end.
GvFairness == WF_gvVars(StartStep) /\ WF_gvVars(ServeEnds) /\ WF_gvVars(StopStep)

GvSpec == GvInit /\ [][GvNext]_gvVars /\ GvFairness

-----------------------------------------------------------------------------
(* Properties                                                              *)

\* A socket file of this process has its listener behind it.
GvTypeOK ==
    /\ gvProcess \in 1..MaxProcesses
    /\ gvBoot \in {"none", "new", "registered", "ready", "failed"}
    /\ gvHealth \in {"none", "partial", "serving", "shutdown"}
    /\ gvStarted \in BOOLEAN /\ gvClosed \in BOOLEAN /\ gvKnown \in BOOLEAN
    /\ gvStart \in {"none", "listen", "chmod", "publish", "done", "failed"}
    /\ gvStop \in {"none", "graceful", "listener", "wait", "remove", "done"}
    /\ gvListener \in {"none", "open", "closed"} /\ gvServe \in {"none", "runs", "ended"}
    /\ gvGrpc \in {"runs", "draining", "stopped"} /\ gvRpcs \in 0..MaxRpcs
    /\ gvSocket \in {"none", "own", "stale", "other"}
    /\ gvSocket = "own" => gvListener = "open"

\* When Start and Stop are both through, and the goroutine of Serve, nothing is
\* left, in whichever order they ran: no listener and no socket file
\* (server.go:267).
NothingListens ==
    gvStop = "done" /\ gvStart \notin {"listen", "chmod", "publish"} /\ gvServe # "runs"
        => gvListener # "open" /\ gvSocket # "own"

\* A start that failed can be tried again, and leaves nothing behind.
FailedStartIsClean ==
    gvStart = "failed" => ~gvStarted /\ gvListener # "open" /\ gvSocket # "own"

\* Stop returns, whatever the calls do: a stream that never ends is waited for
\* no longer than the timeout.
StopReturns == gvStop = "graceful" ~> gvStop \in {"done", "none"}

\* Start, Serve and Stop of the gRPC server in any order leave no listener and no
\* socket, and a start that failed can be tried again (server.go).
ServerLeavesNothing ==
    /\ GvTypeOK
    /\ NothingListens
    /\ FailedStartIsClean
=============================================================================
