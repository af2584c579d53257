---------------------------- MODULE LifecycleProofs ----------------------------
(***************************************************************************)
(* Proofs about the lives of the processes and of the links between them:  *)
(* the gRPC server, the client that reconnects to it and the streams on    *)
(* it, the start and the end of the orchestrator and of the assistant, its *)
(* shutdown hooks, the terminal with its commands, and the containers the  *)
(* orchestrator makes, for any number of callers, calls, connections,      *)
(* processes, streams, heartbeats, hooks, keys, starts and instances.  The *)
(* modules share no state, and every section is about the specification of *)
(* one of them.                                                            *)
(***************************************************************************)
EXTENDS ReconnectingClient, GrpcServer, ClientStreams, OrchestratorLife, ShutdownHooks,
        AssistantLifecycle, TerminalUI, GatewayManager, FiniteSetTheorems, SequenceTheorems, TLAPS

-----------------------------------------------------------------------------
(* The server.                                                             *)

\* An open listener belongs to a Start that has not come to serve it, or to Serve.
ListenerOwned ==
    /\ gvListener = "open" => gvStart \in {"chmod", "publish"} \/ gvServe = "runs"
    /\ gvServe # "none" \/ gvKnown => gvStart = "done"
    /\ gvStart \in {"none", "listen"} => gvListener = "none"

\* started is taken back before a Start fails.
FailedIsNotStarted == gvStart = "failed" => ~gvStarted

\* The inductive invariant: that nothing listens in the end follows from who owns
\* the listener while something does.
GvIInv == GvTypeOK /\ ListenerOwned /\ FailedIsNotStarted

\* A server that was only made satisfies it.
LEMMA GvInitIInv == GvInit => GvIInv
<1>1. GvInit => gvProcess \in 1..MaxProcesses /\ gvRpcs \in 0..MaxRpcs
  BY GvAssumption DEF GvInit
<1> QED
  BY <1>1 DEF GvInit, GvIInv, GvTypeOK, ListenerOwned, FailedIsNotStarted

\* Every step preserves the invariant.
LEMMA GvStep == GvIInv /\ [GvNext]_gvVars => GvIInv'
<1> SUFFICES ASSUME GvIInv, [GvNext]_gvVars PROVE GvIInv'
  OBVIOUS
<1>0. gvProcess' \in 1..MaxProcesses /\ gvRpcs' \in 0..MaxRpcs
  <2> USE GvAssumption DEF GvIInv, GvTypeOK, gvServerVars
  <2>1. CASE KillServerProcess
    BY <2>1 DEF KillServerProcess
  <2>2. CASE NewServer \/ RegisterServices \/ FinishBootstrap
    BY <2>2 DEF NewServer, RegisterServices, FinishBootstrap
  <2>3. CASE StartStep \/ ServeEnds
    BY <2>3 DEF StartStep, BeginStart, Listen, StartFails, SetMode, BeginServe, ServeEnds
  <2>4. CASE BeginRpc \/ EndRpc
    BY <2>4 DEF BeginRpc, EndRpc
  <2>5. CASE ShutDownHealth \/ BeginStop \/ StopStep
    BY <2>5 DEF ShutDownHealth, BeginStop, StopStep, StopWith, GracefulStop, CloseListener, WaitForServe, RemoveSocket
  <2>6. CASE UNCHANGED gvVars
    BY <2>6 DEF gvVars
  <2> QED
    BY <2>1, <2>2, <2>3, <2>4, <2>5, <2>6 DEF GvNext
<1> USE <1>0 DEF GvIInv, GvTypeOK, ListenerOwned, FailedIsNotStarted, gvServerVars
<1>1. CASE KillServerProcess
  BY <1>1 DEF KillServerProcess
<1>2. CASE NewServer \/ RegisterServices \/ FinishBootstrap
  BY <1>2 DEF NewServer, RegisterServices, FinishBootstrap
<1>3. CASE Listen \/ SetMode
  BY <1>3 DEF Listen, SetMode
<1>4. CASE StartFails
  <2>1. CASE gvStart = "chmod"
    <3>1. /\ gvListener' = "closed" /\ gvSocket' = "none" /\ gvStarted' = FALSE /\ gvStart' = "failed"
          /\ UNCHANGED <<gvBoot, gvHealth, gvClosed, gvStop, gvKnown, gvServe, gvGrpc>>
      BY <1>4, <2>1 DEF StartFails
    <3>2. gvServe = "none" /\ ~gvKnown
      BY <2>1
    <3> QED
      BY <3>1, <3>2, ZenonT(40)
  <2>2. CASE gvStart = "listen"
    <3>1. /\ gvListener' = gvListener /\ gvSocket' = gvSocket /\ gvStarted' = FALSE /\ gvStart' = "failed"
          /\ UNCHANGED <<gvBoot, gvHealth, gvClosed, gvStop, gvKnown, gvServe, gvGrpc>>
      BY <1>4, <2>2 DEF StartFails
    <3>2. gvServe = "none" /\ gvListener = "none" /\ gvSocket # "own" /\ ~gvKnown
      BY <2>2
    <3> QED
      BY <3>1, <3>2, ZenonT(40)
  <2> QED
    BY <1>4, <2>1, <2>2 DEF StartFails
<1>5. CASE BeginServe
  BY <1>5 DEF BeginServe
<1>6. CASE ServeEnds
  BY <1>6 DEF ServeEnds
<1>7. CASE BeginRpc \/ EndRpc
  BY <1>7 DEF BeginRpc, EndRpc
<1>8. CASE ShutDownHealth
  BY <1>8 DEF ShutDownHealth
<1>13. CASE BeginStop
  BY <1>13 DEF BeginStop
<1>14. CASE BeginStart
  BY <1>14 DEF BeginStart
<1>9. CASE GracefulStop \/ WaitForServe
  BY <1>9 DEF GracefulStop, WaitForServe, StopWith
<1>10. CASE CloseListener
  <2>1. CASE gvKnown
    <3>1. /\ gvListener' = "closed" /\ gvSocket' \in {gvSocket, "none"} /\ (gvListener = "open" => gvSocket' = "none")
          /\ gvStop' = "wait" /\ gvStart = "done"
          /\ UNCHANGED <<gvBoot, gvHealth, gvStarted, gvClosed, gvStart, gvKnown, gvServe, gvGrpc>>
      BY <1>10, <2>1 DEF CloseListener, StopWith
    <3> QED
      BY <3>1
  <2>2. CASE ~gvKnown
    BY <1>10, <2>2 DEF CloseListener, StopWith
  <2> QED
    BY <2>1, <2>2
<1>11. CASE RemoveSocket
  BY <1>11 DEF RemoveSocket, StopWith
<1>12. CASE UNCHANGED gvVars
  BY <1>12 DEF gvVars
<1> QED
  BY <1>1, <1>2, <1>3, <1>4, <1>5, <1>6, <1>7, <1>8, <1>9, <1>10, <1>11, <1>12, <1>13, <1>14 DEF GvNext, StartStep, StopStep

\* Whatever order Start, Serve and Stop run in, and wherever the process dies, nothing
\* listens when they are through and a failed Start leaves nothing (server.go:148, :267).
THEOREM ServerStaysClean == GvSpec => []ServerLeavesNothing
<1>1. GvIInv => ServerLeavesNothing
  BY DEF GvIInv, GvTypeOK, ListenerOwned, FailedIsNotStarted, ServerLeavesNothing, NothingListens, FailedStartIsClean
<1> QED
  BY GvInitIInv, GvStep, <1>1, PTL DEF GvSpec
-----------------------------------------------------------------------------
(* The clients.                                                            *)

Monitors == [pc : {"top", "watch", "dial", "gone"}, seen : 0..MaxConns, cancelled : BOOLEAN]
ConnStates == {"ready", "failed", "closed"}

\* RcTypeOK but for the count of the monitors, which OneMonitor gives.
RcTypes ==
    /\ rcConns \in Seq(ConnStates) /\ rcConn \in 0..Len(rcConns) /\ Len(rcConns) <= MaxConns
    /\ rcMonitors \in Seq(Monitors)
    /\ rcCalls \in [RcCallers -> {"idle", "dial", "start", "reset", "redial"}]
    /\ rcClose \in {"no", "wait", "close", "forget", "done"}
    /\ rcAttempts \in 0..MaxReconnects /\ rcDials \in 0..MaxDials /\ rcFlaps \in 0..MaxFlaps
    /\ rcClosed \in BOOLEAN /\ rcCancel \in BOOLEAN /\ rcGaveUp \in BOOLEAN /\ rcLate \in BOOLEAN

\* The monitors: one at most is not cancelled, and there is one exactly while
\* reconnectCancel is set.
OneMonitor ==
    /\ \A m, k \in DOMAIN rcMonitors : ~rcMonitors[m].cancelled /\ ~rcMonitors[k].cancelled => m = k
    /\ rcCancel <=> \E m \in DOMAIN rcMonitors : ~rcMonitors[m].cancelled

\* While the client is open no monitor was stopped, and a connection without a
\* monitor belongs to a Dial that is about to start one.
OpenIsWatched ==
    ~rcClosed =>
        /\ rcClose = "no"
        /\ \A m \in DOMAIN rcMonitors :
             ~rcMonitors[m].cancelled /\ (rcMonitors[m].pc = "gone" => rcGaveUp)
        /\ rcConn # 0 /\ rcMonitors = << >> => \E t \in RcCallers : rcCalls[t] = "start"

\* A client that closes without a call in it: no monitor outlives the wait of Close.
ClosingIsQuiet ==
    rcClosed /\ ~rcLate =>
        /\ rcClose # "no" /\ \A t \in RcCallers : rcCalls[t] = "idle"
        /\ rcClose \in {"close", "forget", "done"} => \A m \in DOMAIN rcMonitors : rcMonitors[m].pc = "gone"
        /\ rcClose = "done" => rcConn = 0

ConnIsClosed == rcConn # 0 => rcConns[rcConn] = "closed"

\* A client that was dialed once: its call ends before its only monitor starts,
\* and who dials again has closed what there was.
Alone == rcDials <= 1 /\ ~rcLate

AloneIsOrderly ==
    Alone =>
        /\ Len(rcMonitors) <= 1
        /\ \A t, u \in RcCallers : rcCalls[t] # "idle" /\ rcCalls[u] # "idle" => t = u
        /\ \A t \in RcCallers :
             rcCalls[t] # "idle" =>
                 /\ rcDials = 1 /\ rcMonitors = << >> /\ ~rcClosed
                 /\ rcCalls[t] # "start" => rcConns = << >>
        /\ rcDials = 0 => rcConns = << >> /\ rcMonitors = << >>
        /\ \A m \in DOMAIN rcMonitors : rcMonitors[m].pc = "dial" => ConnIsClosed
        /\ rcClose = "forget" => ConnIsClosed

\* The inductive invariant: who may start and stop monitors, and what a lone call
\* has left behind when its monitor starts.
RcIInv ==
    /\ RcTypes /\ OneMonitor /\ OpenIsWatched /\ ClosingIsQuiet /\ AloneIsOrderly /\ NoLeakAlone

\* A monitor that goes on, seeing a connection or not, leaves the others alone and
\* its cancellation as it was.
LEMMA MonitorGoes ==
    ASSUME rcMonitors \in Seq(Monitors), rcConn \in 0..MaxConns, NEW m \in DOMAIN rcMonitors,
           NEW p \in {"top", "watch", "dial", "gone"},
           \/ rcMonitors' = [rcMonitors EXCEPT ![m].pc = p]
           \/ rcMonitors' = [rcMonitors EXCEPT ![m].pc = p, ![m].seen = rcConn]
    PROVE  /\ rcMonitors' \in Seq(Monitors) /\ Len(rcMonitors') = Len(rcMonitors) /\ DOMAIN rcMonitors' = DOMAIN rcMonitors
           /\ rcMonitors'[m].pc = p /\ rcMonitors'[m].cancelled = rcMonitors[m].cancelled
           /\ \A k \in DOMAIN rcMonitors \ {m} : rcMonitors'[k] = rcMonitors[k]
<1>1. DOMAIN rcMonitors = 1..Len(rcMonitors) /\ rcMonitors[m] \in Monitors
  BY LenProperties, ElementOfSeq
<1>2. PICK r \in Monitors : /\ r.pc = p /\ r.cancelled = rcMonitors[m].cancelled
                            /\ rcMonitors' = [rcMonitors EXCEPT ![m] = r]
  <2>1. CASE rcMonitors' = [rcMonitors EXCEPT ![m].pc = p]
    <3>1. [rcMonitors[m] EXCEPT !.pc = p] \in Monitors
      BY <1>1 DEF Monitors
    <3> QED
      BY <1>1, <2>1, <3>1 DEF Monitors
  <2>2. CASE rcMonitors' = [rcMonitors EXCEPT ![m].pc = p, ![m].seen = rcConn]
    <3>1. [rcMonitors[m] EXCEPT !.pc = p, !.seen = rcConn] \in Monitors
      BY <1>1 DEF Monitors
    <3> QED
      BY <1>1, <2>2, <3>1 DEF Monitors
  <2> QED
    BY <2>1, <2>2
<1>3. /\ rcMonitors' \in Seq(Monitors) /\ Len(rcMonitors') = Len(rcMonitors)
      /\ \A k \in 1..Len(rcMonitors) : rcMonitors'[k] = IF k = m THEN r ELSE rcMonitors[k]
  BY <1>1, <1>2, ExceptSeq
<1>4. DOMAIN rcMonitors' = 1..Len(rcMonitors')
  BY <1>3, LenProperties
<1> QED
  BY <1>1, <1>2, <1>3, <1>4

\* A connection that changes its state leaves the others alone.
LEMMA ConnGoes ==
    ASSUME NEW s \in Seq(ConnStates), NEW c \in DOMAIN s, NEW v \in ConnStates
    PROVE  /\ [s EXCEPT ![c] = v] \in Seq(ConnStates)
           /\ Len([s EXCEPT ![c] = v]) = Len(s) /\ DOMAIN [s EXCEPT ![c] = v] = DOMAIN s
           /\ \A d \in DOMAIN s : [s EXCEPT ![c] = v][d] = IF d = c THEN v ELSE s[d]
<1>1. DOMAIN s = 1..Len(s)
  BY LenProperties
<1>2. [s EXCEPT ![c] = v] \in Seq(ConnStates) /\ Len([s EXCEPT ![c] = v]) = Len(s)
  BY <1>1, ExceptSeq
<1> QED
  BY <1>1, <1>2, LenProperties

\* A client that never dialled satisfies it.
LEMMA RcInitIInv == RcInit => RcIInv
<1> SUFFICES ASSUME RcInit PROVE RcIInv
  OBVIOUS
<1>1. RcTypes
  <2>1. rcConns \in Seq(ConnStates) /\ rcMonitors \in Seq(Monitors) /\ Len(rcConns) = 0
    BY EmptySeq DEF RcInit
  <2>2. /\ rcConn \in 0..Len(rcConns) /\ Len(rcConns) <= MaxConns
        /\ rcAttempts \in 0..MaxReconnects /\ rcDials \in 0..MaxDials /\ rcFlaps \in 0..MaxFlaps
    BY <2>1, RcAssumption DEF RcInit
  <2> QED
    BY <2>1, <2>2 DEF RcInit, RcTypes
<1>2. DOMAIN rcMonitors = {} /\ DOMAIN rcConns = {} /\ Len(rcMonitors) = 0
  BY DEF RcInit
<1> QED
  BY <1>1, <1>2 DEF RcInit, RcIInv, OneMonitor, OpenIsWatched, ClosingIsQuiet, AloneIsOrderly, NoLeakAlone,
     Alone, ConnIsClosed

\* Every step preserves the types.
LEMMA RcTypesStep == RcIInv /\ [RcNext]_rcVars => RcTypes'
<1> SUFFICES ASSUME RcIInv, [RcNext]_rcVars PROVE RcTypes'
  OBVIOUS
<1>0. RcTypes
  BY DEF RcIInv
<1> USE RcAssumption DEF RcTypes
<1>1. /\ DOMAIN rcConns = 1..Len(rcConns) /\ DOMAIN rcMonitors = 1..Len(rcMonitors)
      /\ Len(rcConns) \in Nat
  BY <1>0, LenProperties
<1>2. ClosedConn(rcConns, rcConn) \in Seq(ConnStates) /\ Len(ClosedConn(rcConns, rcConn)) = Len(rcConns)
  <2>1. CASE rcConn = 0
    BY <1>0, <2>1 DEF ClosedConn
  <2>2. CASE rcConn # 0
    <3>1. rcConns \in Seq(ConnStates) /\ rcConn \in DOMAIN rcConns /\ "closed" \in ConnStates
      BY <1>0, <1>1, <2>2 DEF ConnStates
    <3>2. ClosedConn(rcConns, rcConn) = [rcConns EXCEPT ![rcConn] = "closed"]
      BY <2>2 DEF ClosedConn
    <3> QED
      BY <3>1, <3>2, ConnGoes
  <2> QED
    BY <2>1, <2>2
<1>3. SetNewConn => /\ rcConns' \in Seq(ConnStates) /\ Len(rcConns') <= MaxConns /\ rcConn' \in 0..Len(rcConns')
  BY <1>0, <1>1, AppendProperties DEF SetNewConn, ConnStates
<1>4. ASSUME NEW c \in DOMAIN rcConns, Flap(c) \/ Recover(c) PROVE RcTypes'
  <2>1. rcConns' \in Seq(ConnStates) /\ Len(rcConns') = Len(rcConns)
    <3>1. PICK v \in ConnStates : rcConns' = [rcConns EXCEPT ![c] = v]
      BY <1>4 DEF Flap, Recover, ConnStates
    <3>2. rcConns \in Seq(ConnStates)
      BY <1>0
    <3> QED
      BY <3>1, <3>2, ConnGoes
  <2>2. rcFlaps' \in 0..MaxFlaps
    BY <1>0, <1>4 DEF Flap, Recover
  <2> QED
    BY <1>0, <1>4, <2>1, <2>2 DEF Flap, Recover
<1>5. ASSUME NEW t \in RcCallers, DialCall(t) \/ DialFails(t) \/ ResetForget(t) \/ ResetDial(t) PROVE RcTypes'
  <2>1. rcDials' \in 0..MaxDials /\ rcConn' \in 0..Len(rcConns)
    BY <1>0, <1>1, <1>5 DEF DialCall, DialFails, ResetForget, ResetDial
  <2>2. rcLate' \in BOOLEAN
    BY <1>0, <1>5 DEF DialCall, DialFails, ResetForget, ResetDial, DialBegin
  <2> QED
    BY <1>0, <1>5, <2>1, <2>2 DEF DialCall, DialFails, ResetForget, ResetDial, DialBegin
<1>6. ASSUME NEW t \in RcCallers, DialConnects(t) PROVE RcTypes'
  BY <1>0, <1>3, <1>6 DEF DialConnects
<1>7. ASSUME NEW t \in RcCallers, StartMonitor(t) PROVE RcTypes'
  <2>1. [pc |-> "top", seen |-> 0, cancelled |-> FALSE] \in Monitors
    BY DEF Monitors
  <2>2. rcMonitors' \in Seq(Monitors)
    BY <1>0, <1>7, <2>1, AppendProperties DEF StartMonitor
  <2> QED
    BY <1>0, <1>7, <2>2 DEF StartMonitor
<1>8. ASSUME NEW t \in RcCallers, ResetClose(t) PROVE RcTypes'
  <2>1. rcDials' \in 0..MaxDials
    BY <1>0, <1>8 DEF ResetClose
  <2> QED
    BY <1>0, <1>2, <1>8, <2>1 DEF ResetClose
<1>9. ASSUME NEW m \in DOMAIN rcMonitors,
             MonitorTop(m) \/ MonitorContent(m) \/ MonitorReconnects(m) \/ MonitorGivesUp(m) \/ MonitorDialed(m)
      PROVE  RcTypes'
  <2>1. rcMonitors' \in Seq(Monitors)
    <3>1. rcConn \in 0..MaxConns
      BY <1>0, <1>1
    <3>2. PICK p \in {"top", "watch", "dial", "gone"} :
             \/ rcMonitors' = [rcMonitors EXCEPT ![m].pc = p]
             \/ rcMonitors' = [rcMonitors EXCEPT ![m].pc = p, ![m].seen = rcConn]
      BY <1>9 DEF MonitorTop, MonitorContent, MonitorReconnects, MonitorGivesUp, MonitorDialed
    <3>3. rcMonitors \in Seq(Monitors)
      BY <1>0
    <3> QED
      BY <3>1, <3>2, <3>3, MonitorGoes
  <2>2. rcAttempts' \in 0..MaxReconnects
    BY <1>0, <1>9 DEF MonitorTop, MonitorContent, MonitorReconnects, MonitorGivesUp, MonitorDialed
  <2>3. /\ rcConns' \in Seq(ConnStates) /\ Len(rcConns') <= MaxConns /\ rcConn' \in 0..Len(rcConns')
    BY <1>0, <1>2, <1>3, <1>9 DEF MonitorTop, MonitorContent, MonitorReconnects, MonitorGivesUp, MonitorDialed
  <2> QED
    BY <1>0, <1>9, <2>1, <2>2, <2>3 DEF MonitorTop, MonitorContent, MonitorReconnects, MonitorGivesUp, MonitorDialed
<1>10. CASE ClientClose
  <2>1. rcMonitors' \in [1..Len(rcMonitors) -> Monitors]
    <3>1. \A m \in DOMAIN rcMonitors : [rcMonitors[m] EXCEPT !.cancelled = TRUE] \in Monitors
      <4> TAKE m \in DOMAIN rcMonitors
      <4>1. rcMonitors[m] \in Monitors
        BY <1>0, <1>1, ElementOfSeq
      <4> QED
        BY <4>1 DEF Monitors
    <3> QED
      BY <1>1, <1>10, <3>1 DEF ClientClose
  <2>2. rcMonitors' \in Seq(Monitors)
    BY <1>0, <1>1, <2>1, LenProperties
  <2> QED
    BY <1>0, <1>10, <2>2 DEF ClientClose
<1>11. CASE CloseWaited \/ CloseForget
  BY <1>0, <1>1, <1>11 DEF CloseWaited, CloseForget
<1>12. CASE CloseConn
  BY <1>0, <1>2, <1>12 DEF CloseConn
<1>13. CASE UNCHANGED rcVars
  BY <1>0, <1>13 DEF rcVars
<1> QED
  BY <1>4, <1>5, <1>6, <1>7, <1>8, <1>9, <1>10, <1>11, <1>12, <1>13 DEF RcNext

\* A sequence is empty when it has no places.
LEMMA EmptyWhenNoPlaces ==
    ASSUME NEW S, NEW s \in Seq(S)
    PROVE  /\ DOMAIN s = 1..Len(s) /\ Len(s) \in Nat
           /\ s = << >> <=> Len(s) = 0
  BY LenProperties, EmptySeq

\* Every step preserves the invariant.
LEMMA RcStep == RcIInv /\ [RcNext]_rcVars => RcIInv'
<1> SUFFICES ASSUME RcIInv, [RcNext]_rcVars PROVE RcIInv'
  OBVIOUS
<1> DEFINE Parts == OneMonitor /\ OpenIsWatched /\ ClosingIsQuiet /\ AloneIsOrderly /\ NoLeakAlone
<1>1. RcTypes /\ RcTypes'
  BY RcTypesStep DEF RcIInv
<1>2. Parts
  BY DEF RcIInv
<1>3. /\ DOMAIN rcConns = 1..Len(rcConns) /\ Len(rcConns) \in Nat /\ (rcConns = << >> <=> Len(rcConns) = 0)
      /\ DOMAIN rcMonitors = 1..Len(rcMonitors) /\ Len(rcMonitors) \in Nat /\ (rcMonitors = << >> <=> Len(rcMonitors) = 0)
      /\ rcConn \in 0..Len(rcConns)
  BY <1>1, EmptyWhenNoPlaces DEF RcTypes
<1>4. /\ DOMAIN rcConns' = 1..Len(rcConns') /\ Len(rcConns') \in Nat /\ (rcConns' = << >> <=> Len(rcConns') = 0)
      /\ DOMAIN rcMonitors' = 1..Len(rcMonitors') /\ Len(rcMonitors') \in Nat /\ (rcMonitors' = << >> <=> Len(rcMonitors') = 0)
      /\ rcConn' \in 0..Len(rcConns')
  BY <1>1, EmptyWhenNoPlaces DEF RcTypes
<1>5. rcDials \in Nat /\ rcConn \in 0..MaxConns
  BY <1>1, <1>3, RcAssumption DEF RcTypes
\* What closing the connection does to the connections.
<1>6. LET closed == ClosedConn(rcConns, rcConn) IN
      /\ Len(closed) = Len(rcConns)
      /\ \A d \in DOMAIN rcConns : closed[d] = IF d = rcConn THEN "closed" ELSE rcConns[d]
  <2>1. CASE rcConn = 0
    BY <1>3, <2>1 DEF ClosedConn
  <2>2. CASE rcConn # 0
    <3>1. rcConns \in Seq(ConnStates) /\ rcConn \in DOMAIN rcConns /\ "closed" \in ConnStates
      BY <1>1, <1>3, <2>2 DEF ConnStates, RcTypes
    <3>2. ClosedConn(rcConns, rcConn) = [rcConns EXCEPT ![rcConn] = "closed"]
      BY <2>2 DEF ClosedConn
    <3> QED
      BY <3>1, <3>2, ConnGoes
  <2> QED
    BY <2>1, <2>2
\* What a new connection does to them.
<1>7. SetNewConn =>
        /\ rcConn' = Len(rcConns) + 1 /\ Len(rcConns') = Len(rcConns) + 1
        /\ \A d \in DOMAIN rcConns : rcConns'[d] = rcConns[d]
  BY <1>1, <1>3, AppendProperties DEF SetNewConn, RcTypes, ConnStates
<1>8. rcMonitors \in Seq(Monitors)
  BY <1>1 DEF RcTypes
<1> SUFFICES Parts'
  BY <1>1 DEF RcIInv
<1> USE DEF OneMonitor, OpenIsWatched, ClosingIsQuiet, AloneIsOrderly, NoLeakAlone, Alone, ConnIsClosed
<1>10. ASSUME NEW c \in DOMAIN rcConns, Flap(c) \/ Recover(c) PROVE Parts'
  <2>1. /\ Len(rcConns') = Len(rcConns) /\ rcConns[c] # "closed"
        /\ \A d \in DOMAIN rcConns \ {c} : rcConns'[d] = rcConns[d]
    <3>1. PICK v \in ConnStates : rcConns' = [rcConns EXCEPT ![c] = v]
      BY <1>10 DEF Flap, Recover, ConnStates
    <3>2. rcConns \in Seq(ConnStates)
      BY <1>1 DEF RcTypes
    <3>3. Len(rcConns') = Len(rcConns) /\ \A d \in DOMAIN rcConns : rcConns'[d] = IF d = c THEN v ELSE rcConns[d]
      BY <3>1, <3>2, ConnGoes
    <3> QED
      BY <1>10, <3>3 DEF Flap, Recover
  <2>2. UNCHANGED <<rcConn, rcClosed, rcCancel, rcMonitors, rcCalls, rcClose, rcDials, rcGaveUp, rcLate>>
    BY <1>10 DEF Flap, Recover
  <2> QED
    BY <1>2, <1>3, <1>4, <2>1, <2>2
<1>11. ASSUME NEW t \in RcCallers, DialCall(t) PROVE Parts'
  <2>1. /\ rcCalls[t] = "idle" /\ \A u \in RcCallers \ {t} : rcCalls'[u] = rcCalls[u]
        /\ rcCalls'[t] \in {"idle", "dial"}
        /\ (~rcLate' => ~rcLate /\ ~rcClosed) /\ rcDials' = rcDials + 1 /\ (rcDials' <= 1 => rcDials = 0 /\ rcDials' = 1)
        /\ UNCHANGED <<rcConn, rcConns, rcClosed, rcCancel, rcMonitors, rcClose, rcGaveUp>>
    BY <1>1, <1>5, <1>11 DEF DialCall, DialBegin, RcTypes
  <2>10. OneMonitor'
    BY <1>2, <1>3, <1>4, <1>5, <2>1
  <2>11. OpenIsWatched'
    BY <1>2, <1>3, <1>4, <1>5, <2>1
  <2>12. ClosingIsQuiet'
    BY <1>2, <1>3, <1>4, <1>5, <2>1
  <2>13. AloneIsOrderly'
    BY <1>2, <1>3, <1>4, <1>5, <2>1
  <2>14. NoLeakAlone'
    BY <1>2, <1>3, <1>4, <1>5, <2>1
  <2> QED
    BY <2>10, <2>11, <2>12, <2>13, <2>14
<1>12. ASSUME NEW t \in RcCallers, DialConnects(t) PROVE Parts'
  <2>1. /\ rcCalls[t] = "dial" /\ rcCalls'[t] = "start" /\ \A u \in RcCallers \ {t} : rcCalls'[u] = rcCalls[u]
        /\ (~rcLate' => ~rcLate /\ ~rcClosed) /\ SetNewConn
        /\ UNCHANGED <<rcClosed, rcCancel, rcMonitors, rcClose, rcDials, rcGaveUp>>
    BY <1>1, <1>12 DEF DialConnects, RcTypes
  <2>10. OneMonitor'
    BY <1>2, <1>3, <1>4, <1>5, <1>7, <2>1
  <2>11. OpenIsWatched'
    BY <1>2, <1>3, <1>4, <1>5, <1>7, <2>1
  <2>12. ClosingIsQuiet'
    BY <1>2, <1>3, <1>4, <1>5, <1>7, <2>1
  <2>13. AloneIsOrderly'
    BY <1>2, <1>3, <1>4, <1>5, <1>7, <2>1
  <2>14. NoLeakAlone'
    BY <1>2, <1>3, <1>4, <1>5, <1>7, <2>1
  <2> QED
    BY <2>10, <2>11, <2>12, <2>13, <2>14
<1>13. ASSUME NEW t \in RcCallers, DialFails(t) PROVE Parts'
  <2>1. /\ rcCalls[t] = "dial" /\ rcCalls'[t] = "idle" /\ \A u \in RcCallers \ {t} : rcCalls'[u] = rcCalls[u]
        /\ UNCHANGED <<rcConn, rcConns, rcClosed, rcCancel, rcMonitors, rcClose, rcDials, rcGaveUp, rcLate>>
    BY <1>1, <1>13 DEF DialFails, RcTypes
  <2> QED
    BY <1>2, <1>3, <1>4, <1>5, <2>1
<1>14. ASSUME NEW t \in RcCallers, StartMonitor(t) PROVE Parts'
  <2>1. /\ rcCalls[t] = "start" /\ rcCalls'[t] = "idle" /\ \A u \in RcCallers \ {t} : rcCalls'[u] = rcCalls[u]
        /\ rcCancel' = TRUE /\ (~rcLate' => ~rcLate /\ ~rcClosed)
        /\ UNCHANGED <<rcConn, rcConns, rcClosed, rcClose, rcDials, rcGaveUp>>
    BY <1>1, <1>14 DEF StartMonitor, RcTypes
  <2>2. CASE rcCancel
    <3>1. rcMonitors' = rcMonitors
      BY <1>14, <2>2 DEF StartMonitor
    <3>10. OneMonitor'
      BY <1>2, <1>3, <1>4, <1>5, <2>1, <2>2, <3>1
    <3>11. OpenIsWatched'
      BY <1>2, <1>3, <1>4, <1>5, <2>1, <2>2, <3>1
    <3>12. ClosingIsQuiet'
      BY <1>2, <1>3, <1>4, <1>5, <2>1, <2>2, <3>1
    <3>13. AloneIsOrderly'
      BY <1>2, <1>3, <1>4, <1>5, <2>1, <2>2, <3>1
    <3>14. NoLeakAlone'
      BY <1>2, <1>3, <1>4, <1>5, <2>1, <2>2, <3>1
    <3> QED
      BY <3>10, <3>11, <3>12, <3>13, <3>14
  <2>3. CASE ~rcCancel
    <3> DEFINE r == [pc |-> "top", seen |-> 0, cancelled |-> FALSE]
    <3>1. rcMonitors' = Append(rcMonitors, r) /\ r \in Monitors
      <4>1. r \in Monitors
        BY RcAssumption DEF Monitors
      <4> QED
        BY <1>14, <2>3, <4>1 DEF StartMonitor
    <3>2. r.pc = "top" /\ r.cancelled = FALSE
      OBVIOUS
    <3> HIDE DEF r
    <3>3. /\ Len(rcMonitors') = Len(rcMonitors) + 1 /\ rcMonitors'[Len(rcMonitors) + 1] = r
          /\ \A k \in DOMAIN rcMonitors : rcMonitors'[k] = rcMonitors[k]
      BY <1>3, <1>8, <3>1, AppendProperties
    <3>4. OneMonitor'
      BY <1>2, <1>3, <1>4, <2>1, <2>3, <3>2, <3>3
    <3>5. OpenIsWatched' /\ ClosingIsQuiet'
      BY <1>2, <1>3, <1>4, <1>5, <2>1, <2>3, <3>2, <3>3
    <3>6. AloneIsOrderly' /\ NoLeakAlone'
      BY <1>2, <1>3, <1>4, <1>5, <2>1, <2>3, <3>2, <3>3
    <3> QED
      BY <3>4, <3>5, <3>6
  <2> QED
    BY <2>2, <2>3
<1>15. ASSUME NEW t \in RcCallers, ResetClose(t) PROVE Parts'
  <2>1. /\ rcCalls[t] = "idle" /\ rcCalls'[t] = "reset" /\ \A u \in RcCallers \ {t} : rcCalls'[u] = rcCalls[u]
        /\ (~rcLate' => ~rcLate /\ ~rcClosed) /\ rcDials' = rcDials + 1 /\ (rcDials' <= 1 => rcDials = 0 /\ rcDials' = 1) /\ rcConns' = ClosedConn(rcConns, rcConn)
        /\ UNCHANGED <<rcConn, rcClosed, rcCancel, rcMonitors, rcClose, rcGaveUp>>
    BY <1>1, <1>5, <1>15 DEF ResetClose, RcTypes
  <2>10. OneMonitor'
    BY <1>2, <1>3, <1>4, <1>5, <1>6, <2>1
  <2>11. OpenIsWatched'
    BY <1>2, <1>3, <1>4, <1>5, <1>6, <2>1
  <2>12. ClosingIsQuiet'
    BY <1>2, <1>3, <1>4, <1>5, <1>6, <2>1
  <2>13. AloneIsOrderly'
    BY <1>2, <1>3, <1>4, <1>5, <1>6, <2>1
  <2>14. NoLeakAlone'
    BY <1>2, <1>3, <1>4, <1>5, <1>6, <2>1
  <2> QED
    BY <2>10, <2>11, <2>12, <2>13, <2>14
<1>16. ASSUME NEW t \in RcCallers, ResetForget(t) PROVE Parts'
  <2>1. /\ rcCalls[t] = "reset" /\ rcCalls'[t] = "redial" /\ \A u \in RcCallers \ {t} : rcCalls'[u] = rcCalls[u]
        /\ rcConn' = 0
        /\ UNCHANGED <<rcConns, rcClosed, rcCancel, rcMonitors, rcClose, rcDials, rcGaveUp, rcLate>>
    BY <1>1, <1>16 DEF ResetForget, RcTypes
  <2> QED
    BY <1>2, <1>3, <1>4, <1>5, <2>1
<1>17. ASSUME NEW t \in RcCallers, ResetDial(t) PROVE Parts'
  <2>1. /\ rcCalls[t] = "redial" /\ \A u \in RcCallers \ {t} : rcCalls'[u] = rcCalls[u]
        /\ rcCalls'[t] \in {"idle", "dial"}
        /\ (~rcLate' => ~rcLate /\ ~rcClosed)
        /\ UNCHANGED <<rcConn, rcConns, rcClosed, rcCancel, rcMonitors, rcClose, rcDials, rcGaveUp>>
    BY <1>1, <1>17 DEF ResetDial, DialBegin, RcTypes
  <2> QED
    BY <1>2, <1>3, <1>4, <1>5, <2>1
<1>18. ASSUME NEW m \in DOMAIN rcMonitors,
              MonitorTop(m) \/ MonitorContent(m) \/ MonitorReconnects(m) \/ MonitorGivesUp(m) \/ MonitorDialed(m)
       PROVE  Parts'
  <2>0. UNCHANGED <<rcClosed, rcCancel, rcCalls, rcClose, rcDials, rcLate>>
    BY <1>18 DEF MonitorTop, MonitorContent, MonitorReconnects, MonitorGivesUp, MonitorDialed
  <2> DEFINE Moves(p) == /\ Len(rcMonitors') = Len(rcMonitors)
                         /\ rcMonitors'[m].pc = p /\ rcMonitors'[m].cancelled = rcMonitors[m].cancelled
                         /\ \A k \in DOMAIN rcMonitors \ {m} : rcMonitors'[k] = rcMonitors[k]
  <2>1. CASE MonitorTop(m)
    <3>1. PICK p \in {"watch", "gone"} :
            /\ \/ rcMonitors' = [rcMonitors EXCEPT ![m].pc = p]
               \/ rcMonitors' = [rcMonitors EXCEPT ![m].pc = p, ![m].seen = rcConn]
            /\ p = "gone" => Stops(m)
      BY <2>1 DEF MonitorTop
    <3>2. Moves(p)
      BY <1>5, <1>8, <3>1, MonitorGoes
    <3>3. rcMonitors[m].pc = "top" /\ UNCHANGED <<rcConn, rcConns, rcGaveUp>>
      BY <2>1 DEF MonitorTop
    <3> QED
      BY <1>2, <1>3, <1>4, <2>0, <3>1, <3>2, <3>3 DEF Stops
  <2>2. CASE MonitorContent(m)
    <3>1. rcMonitors' = [rcMonitors EXCEPT ![m].pc = "top"] /\ rcMonitors[m].pc = "watch" /\ UNCHANGED <<rcConn, rcConns, rcGaveUp>>
      BY <2>2 DEF MonitorContent
    <3>2. Moves("top")
      BY <1>5, <1>8, <3>1, MonitorGoes
    <3> QED
      BY <1>2, <1>3, <1>4, <2>0, <3>1, <3>2
  <2>3. CASE MonitorReconnects(m)
    <3>1. /\ rcMonitors' = [rcMonitors EXCEPT ![m].pc = "dial"] /\ rcMonitors[m].pc = "watch"
          /\ rcConns' = ClosedConn(rcConns, rcConn) /\ UNCHANGED <<rcConn, rcGaveUp>>
      BY <2>3 DEF MonitorReconnects
    <3>2. Moves("dial")
      BY <1>5, <1>8, <3>1, MonitorGoes
    <3> QED
      BY <1>2, <1>3, <1>4, <1>6, <2>0, <3>1, <3>2
  <2>4. CASE MonitorGivesUp(m)
    <3>1. /\ rcMonitors' = [rcMonitors EXCEPT ![m].pc = "gone"] /\ rcMonitors[m].pc = "watch"
          /\ UNCHANGED <<rcConn, rcConns>> /\ rcGaveUp' = TRUE
      BY <2>4 DEF MonitorGivesUp
    <3>2. Moves("gone")
      BY <1>5, <1>8, <3>1, MonitorGoes
    <3> QED
      BY <1>2, <1>3, <1>4, <2>0, <3>1, <3>2
  <2>5. CASE MonitorDialed(m)
    <3>1. /\ rcMonitors' = [rcMonitors EXCEPT ![m].pc = "top"] /\ rcMonitors[m].pc = "dial"
          /\ SetNewConn \/ UNCHANGED <<rcConn, rcConns>>
          /\ rcGaveUp' = rcGaveUp
      BY <2>5 DEF MonitorDialed
    <3>2. Moves("top")
      BY <1>5, <1>8, <3>1, MonitorGoes
    <3>10. OneMonitor'
      BY <1>2, <1>3, <1>4, <1>7, <2>0, <3>1, <3>2
    <3>11. OpenIsWatched'
      BY <1>2, <1>3, <1>4, <1>7, <2>0, <3>1, <3>2
    <3>12. ClosingIsQuiet'
      BY <1>2, <1>3, <1>4, <1>7, <2>0, <3>1, <3>2
    <3>20. Alone => /\ \A k \in DOMAIN rcMonitors : k = m
                    /\ ConnIsClosed /\ rcDials # 0 /\ rcClose # "forget" /\ \A t \in RcCallers : rcCalls[t] = "idle"
      BY <1>2, <1>3, <3>1
    <3>13. AloneIsOrderly'
      BY <1>2, <1>3, <1>4, <2>0, <3>1, <3>2, <3>20
    <3>14. NoLeakAlone'
      <4>1. CASE SetNewConn
        <5>1. Alone => \A d \in DOMAIN rcConns : rcConns'[d] = "closed"
          BY <1>2, <1>7, <3>20, <4>1
        <5>2. \A d \in DOMAIN rcConns' : d # rcConn' => d \in DOMAIN rcConns
          BY <1>3, <1>4, <1>7, <4>1
        <5> QED
          BY <2>0, <5>1, <5>2
      <4>2. CASE UNCHANGED <<rcConn, rcConns>>
        BY <1>2, <2>0, <4>2
      <4> QED
        BY <3>1, <4>1, <4>2
    <3> QED
      BY <3>10, <3>11, <3>12, <3>13, <3>14
  <2> QED
    BY <1>18, <2>1, <2>2, <2>3, <2>4, <2>5
<1>19. CASE ClientClose
  <2>1. /\ Len(rcMonitors') = Len(rcMonitors)
        /\ \A k \in DOMAIN rcMonitors : rcMonitors'[k].pc = rcMonitors[k].pc /\ rcMonitors'[k].cancelled = TRUE
    <3>1. \A k \in DOMAIN rcMonitors : rcMonitors[k] \in Monitors
      BY <1>3, <1>8, ElementOfSeq
    <3>2. DOMAIN rcMonitors' = DOMAIN rcMonitors
      BY <1>19 DEF ClientClose
    <3>3. \A k \in DOMAIN rcMonitors : rcMonitors'[k].pc = rcMonitors[k].pc /\ rcMonitors'[k].cancelled = TRUE
      BY <1>19, <3>1 DEF ClientClose, Monitors
    <3>4. Len(rcMonitors') = Len(rcMonitors)
      <4>1. 1..Len(rcMonitors') = 1..Len(rcMonitors)
        BY <1>3, <1>4, <3>2
      <4>2. Len(rcMonitors) \in Nat /\ Len(rcMonitors') \in Nat
        BY <1>3, <1>4
      <4> QED
        BY <4>1, <4>2
    <3> QED
      BY <3>3, <3>4
  <2>2. /\ rcClose = "no" /\ rcClose' = "wait" /\ rcClosed' = TRUE /\ rcCancel' = FALSE
        /\ rcLate' = (rcLate \/ \E t \in RcCallers : rcCalls[t] # "idle")
        /\ UNCHANGED <<rcConn, rcConns, rcCalls, rcDials, rcGaveUp>>
    BY <1>19 DEF ClientClose
  <2> QED
    BY <1>2, <1>3, <1>4, <2>1, <2>2
<1>20. CASE CloseWaited
  BY <1>2, <1>3, <1>4, <1>20 DEF CloseWaited, MonitorAlive
<1>21. CASE CloseConn
  BY <1>2, <1>3, <1>4, <1>6, <1>21 DEF CloseConn
<1>22. CASE CloseForget
  BY <1>2, <1>3, <1>4, <1>22 DEF CloseForget
<1>23. CASE UNCHANGED rcVars
  BY <1>2, <1>23 DEF rcVars
<1> QED
  BY <1>10, <1>11, <1>12, <1>13, <1>14, <1>15, <1>16, <1>17, <1>18, <1>19, <1>20, <1>21, <1>22, <1>23 DEF RcNext

\* However calls, monitors and Close overlap: one live monitor at most, no connection
\* leaked by a client that dials once, an open client watched, and a closed one gone
\* for good (client.go:173, :213, :322, :358).
THEOREM ClientStaysLinked == RcSpec => []ClientKeepsOneLink
<1>1. RcIInv => ClientKeepsOneLink
  <2> SUFFICES ASSUME RcIInv PROVE ClientKeepsOneLink
    OBVIOUS
  <2> DEFINE live == {m \in DOMAIN rcMonitors : ~rcMonitors[m].cancelled}
  <2>1. IsFiniteSet(live) /\ Cardinality(live) <= 1
    <3>1. \A m, k \in live : m = k
      BY DEF RcIInv, OneMonitor
    <3>2. CASE live = {}
      BY <3>2, FS_EmptySet
    <3>3. ASSUME NEW m \in live PROVE IsFiniteSet(live) /\ Cardinality(live) <= 1
      <4>1. live = {m}
        BY <3>1, <3>3
      <4> QED
        <5>1. IsFiniteSet({m}) /\ Cardinality({m}) = 1
          BY FS_Singleton
        <5> HIDE DEF live
        <5> QED
          BY <4>1, <5>1
    <3> QED
      BY <3>2, <3>3
  <2>2. RcTypeOK
    <3>1. Cardinality(live) <= 1
      BY <2>1
    <3> QED
      BY <3>1 DEF RcIInv, RcTypes, RcTypeOK, ConnStates, Monitors
  <2>3. Watched
    <3>1. CASE rcConn # 0 /\ ~rcClosed /\ \A t \in RcCallers : rcCalls[t] # "start"
      <4>1. /\ rcMonitors # << >>
            /\ \A m \in DOMAIN rcMonitors : ~rcMonitors[m].cancelled /\ (rcMonitors[m].pc = "gone" => rcGaveUp)
        BY <3>1 DEF RcIInv, OpenIsWatched
      <4>2. 1 \in DOMAIN rcMonitors
        BY <4>1, EmptyWhenNoPlaces DEF RcIInv, RcTypes
      <4> QED
        BY <4>1, <4>2 DEF Watched, MonitorAlive
    <3> QED
      BY <3>1 DEF Watched
  <2>4. ClosedForGood
    <3>1. CASE rcClose = "done" /\ ~rcLate
      <4>1. rcClosed
        BY <3>1 DEF RcIInv, OpenIsWatched
      <4>2. 0 \notin DOMAIN rcConns
        BY EmptyWhenNoPlaces DEF RcIInv, RcTypes
      <4> QED
        BY <3>1, <4>1, <4>2 DEF RcIInv, ClosingIsQuiet, NoLeakAlone, ClosedForGood, MonitorAlive
    <3> QED
      BY <3>1 DEF ClosedForGood
  <2> QED
    BY <2>2, <2>3, <2>4 DEF ClientKeepsOneLink, RcIInv
<1> QED
  BY RcInitIInv, RcStep, <1>1, PTL DEF RcSpec

-----------------------------------------------------------------------------
(* The streams of a session.                                               *)

Found == IF ssSet = 0 THEN {} ELSE ssMembers[ssSet]
Registered == {x \in ChatStreams : ssOpen[x] = "registered"}

\* A sender has found a set, sends to what it found, and counts as failed what was
\* broken or had ended.
SendersKeepTheirs ==
    \A p \in ChatSenders :
        /\ ssSend[p].pc = "walk" => ssSend[p].of \in 1..MaxSets
        /\ ssSend[p].pc \in {"new", "walk"} => ssSend[p].found = {}
        /\ ssSend[p].pc # "send" => ssSend[p].left = {}
        /\ ssSend[p].left \subseteq ssSend[p].found
        /\ \A x \in ssSend[p].failed : x \in ssBroken \/ ssOpen[x] = "ended"
        /\ \A x \in ssSend[p].found \ ssSend[p].left : p \in ssGot[x] \/ x \in ssBroken \/ ssOpen[x] = "ended"
        /\ \A x \in ChatStreams : p \in ssGot[x] => x \in ssSend[p].found
        /\ ssSend[p].pc = "done" => (ssResult[p] = "sent" <=> \E x \in ssSend[p].found : p \in ssGot[x])

\* The inductive invariant: whoever a sender takes out of the set is broken or has
\* ended, so that the working ones stay found.
SsIInv == SsTypeOK /\ OpenIsFound /\ SendersKeepTheirs

\* Before the first call there is no stream.
LEMMA SsInitIInv == SsInit => SsIInv
  BY SsAssumption DEF SsInit, SsIInv, SsTypeOK, OpenIsFound, SendersKeepTheirs

\* Taking streams that no longer work, or whose handler returns, out of the set.
LEMMA LeaveKeeps ==
    ASSUME SsTypeOK, NEW gone \in SUBSET ChatStreams, LeaveSet(gone)
    PROVE  /\ ssSet' \in {0, ssMade} /\ ssMembers' \in [1..MaxSets -> SUBSET ChatStreams]
           /\ ssSet' # 0 => ssMembers'[ssSet'] # {}
           /\ Found' = Found \ gone
<1>1. CASE ssSet = 0
  BY <1>1 DEF SsTypeOK, LeaveSet, Found
<1>2. CASE ssSet # 0
  <2>1. ssSet \in 1..MaxSets /\ ssMade \in 1..MaxSets
    <3>1. ssSet = ssMade /\ ssMade \in 0..MaxSets
      BY <1>2 DEF SsTypeOK
    <3> QED
      BY <1>2, <3>1, SsAssumption
  <2>2. /\ ssMembers' = [ssMembers EXCEPT ![ssSet] = @ \ gone]
        /\ ssSet' = IF ssMembers'[ssSet] = {} THEN 0 ELSE ssSet
    BY <1>2 DEF LeaveSet
  <2>3. ssMembers' \in [1..MaxSets -> SUBSET ChatStreams] /\ ssMembers'[ssSet] = ssMembers[ssSet] \ gone
    BY <2>1, <2>2 DEF SsTypeOK
  <2>4. ssSet' \in {0, ssSet} /\ (ssSet' = 0 <=> ssMembers'[ssSet] = {})
    BY <2>1, <2>2
  <2> QED
    BY <1>2, <2>1, <2>3, <2>4 DEF Found, SsTypeOK
<1> QED
  BY <1>1, <1>2

\* Every step preserves the invariant.
LEMMA SsStep == SsIInv /\ [SsNext]_ssVars => SsIInv'
<1> SUFFICES ASSUME SsIInv, [SsNext]_ssVars PROVE SsIInv'
  OBVIOUS
<1> DEFINE Sends == [pc : {"new", "walk", "send", "done"}, of : 0..MaxSets, found : SUBSET ChatStreams,
                     left : SUBSET ChatStreams, failed : SUBSET ChatStreams]
           Streams == /\ ssOpen' \in [ChatStreams -> {"unused", "first", "registered", "ended"}]
                      /\ ssBroken' \subseteq ChatStreams
                      /\ ssTracked' = {x \in ChatStreams : ssOpen'[x] \in {"first", "registered"}}
                      /\ ssSession' \in BOOLEAN
           Sets == /\ ssMade' \in 0..MaxSets /\ ssSet' \in {0, ssMade'}
                   /\ ssMembers' \in [1..MaxSets -> SUBSET ChatStreams]
                   /\ ssSet' # 0 => ssMembers'[ssSet'] # {}
                   /\ Registered' \ ssBroken' \subseteq Found' /\ Found' \subseteq Registered'
           Senders == /\ ssSend' \in [ChatSenders -> Sends]
                      /\ ssGot' \in [ChatStreams -> SUBSET ChatSenders]
                      /\ ssResult' \in [ChatSenders -> {"none", "no stream", "sent", "unsent"}]
                      /\ SendersKeepTheirs'
<1>1. /\ ssOpen \in [ChatStreams -> {"unused", "first", "registered", "ended"}]
      /\ ssBroken \subseteq ChatStreams
      /\ ssTracked = {x \in ChatStreams : ssOpen[x] \in {"first", "registered"}}
      /\ ssSession \in BOOLEAN /\ ssAlive \in BOOLEAN
  BY DEF SsIInv, SsTypeOK
<1>2. /\ ssMade \in 0..MaxSets /\ ssSet \in {0, ssMade}
      /\ ssMembers \in [1..MaxSets -> SUBSET ChatStreams]
      /\ ssSet # 0 => ssMembers[ssSet] # {}
      /\ Registered \ ssBroken \subseteq Found /\ Found \subseteq Registered
  BY DEF SsIInv, SsTypeOK, OpenIsFound, Found, Registered
<1>3. /\ ssSend \in [ChatSenders -> Sends]
      /\ ssGot \in [ChatStreams -> SUBSET ChatSenders]
      /\ ssResult \in [ChatSenders -> {"none", "no stream", "sent", "unsent"}]
      /\ SendersKeepTheirs
  BY DEF SsIInv, SsTypeOK
<1>4. SsTypeOK
  BY DEF SsIInv
<1>5. ASSUME UNCHANGED <<ssSend, ssGot, ssResult>>, ssBroken \subseteq ssBroken',
             \A x \in ChatStreams : ssOpen[x] = "ended" => ssOpen'[x] = "ended"
      PROVE  Senders
  BY <1>3, <1>5 DEF SendersKeepTheirs
<1>6. ASSUME NEW x \in ChatStreams, OpenChat(x) PROVE Streams /\ Sets /\ Senders
  <2>1. Streams
    BY <1>1, <1>6 DEF OpenChat
  <2>2. Registered' = Registered /\ UNCHANGED <<ssMade, ssSet, ssMembers, ssBroken, ssSend, ssGot, ssResult>>
    BY <1>1, <1>6 DEF OpenChat, Registered
  <2>3. Sets
    BY <1>2, <2>2 DEF Found
  <2>4. Senders
    BY <1>1, <1>5, <1>6, <2>2 DEF OpenChat
  <2> QED
    BY <2>1, <2>3, <2>4
<1>7. ASSUME NEW x \in ChatStreams, RegisterChat(x) PROVE Streams /\ Sets /\ Senders
  <2>1. Streams
    BY <1>1, <1>7 DEF RegisterChat
  <2>2. Registered' = Registered \cup {x} /\ UNCHANGED <<ssBroken, ssSend, ssGot, ssResult>>
    BY <1>1, <1>7 DEF RegisterChat, Registered
  <2>3. Sets
    <3>1. CASE ssSet = 0
      <4>1. /\ ssMade' = ssMade + 1 /\ ssSet' = ssMade + 1 /\ ssMade + 1 \in 1..MaxSets
            /\ ssMembers' = [ssMembers EXCEPT ![ssMade + 1] = {x}]
        BY <1>2, <1>7, <3>1, SsAssumption DEF RegisterChat
      <4>2. ssMembers' \in [1..MaxSets -> SUBSET ChatStreams] /\ ssMembers'[ssSet'] = {x} /\ ssSet' # 0
        BY <1>2, <4>1
      <4>3. Found' = {x}
        BY <4>2 DEF Found
      <4>4. Registered \ ssBroken = {}
        BY <1>2, <3>1 DEF Found
      <4> QED
        BY <2>2, <4>1, <4>2, <4>3, <4>4
    <3>2. CASE ssSet # 0
      <4>1. /\ ssMade' = ssMade /\ ssSet' = ssSet /\ ssSet \in 1..MaxSets
            /\ ssMembers' = [ssMembers EXCEPT ![ssSet] = @ \cup {x}]
        BY <1>2, <1>7, <3>2, SsAssumption DEF RegisterChat
      <4>2. ssMembers' \in [1..MaxSets -> SUBSET ChatStreams] /\ ssMembers'[ssSet] = ssMembers[ssSet] \cup {x}
        BY <1>2, <4>1
      <4>3. Found' = Found \cup {x}
        BY <3>2, <4>1, <4>2 DEF Found
      <4> QED
        BY <1>2, <2>2, <4>1, <4>2, <4>3
    <3> QED
      BY <3>1, <3>2
  <2>4. Senders
    BY <1>1, <1>5, <1>7, <2>2 DEF RegisterChat
  <2> QED
    BY <2>1, <2>3, <2>4
<1>8. ASSUME NEW x \in ChatStreams, EndChat(x) PROVE Streams /\ Sets /\ Senders
  <2>1. Streams
    BY <1>1, <1>8 DEF EndChat
  <2>2. Registered' = Registered \ {x} /\ UNCHANGED <<ssMade, ssBroken, ssSend, ssGot, ssResult>>
    BY <1>1, <1>8 DEF EndChat, Registered
  <2>3. Sets
    <3>1. CASE ssOpen[x] = "registered"
      <4>1. LeaveSet({x})
        BY <1>8, <3>1 DEF EndChat
      <4>2. /\ ssSet' \in {0, ssMade} /\ ssMembers' \in [1..MaxSets -> SUBSET ChatStreams]
            /\ ssSet' # 0 => ssMembers'[ssSet'] # {}
            /\ Found' = Found \ {x}
        BY <1>4, <4>1, LeaveKeeps
      <4> QED
        BY <1>2, <2>2, <4>2
    <3>2. CASE ssOpen[x] # "registered"
      <4>1. UNCHANGED <<ssMembers, ssSet>> /\ Registered' = Registered
        BY <1>8, <2>2, <3>2 DEF EndChat, Registered
      <4> QED
        BY <1>2, <2>2, <4>1 DEF Found
    <3> QED
      BY <3>1, <3>2
  <2>4. Senders
    BY <1>1, <1>5, <1>8, <2>2 DEF EndChat
  <2> QED
    BY <2>1, <2>3, <2>4
<1>9. ASSUME NEW x \in ChatStreams, BreakChat(x) PROVE Streams /\ Sets /\ Senders
  <2>1. Streams
    BY <1>1, <1>9 DEF BreakChat
  <2>2. Registered' = Registered /\ ssBroken' = ssBroken \cup {x}
        /\ UNCHANGED <<ssMade, ssSet, ssMembers, ssSend, ssGot, ssResult>>
    BY <1>9 DEF BreakChat, Registered
  <2>3. Sets
    BY <1>2, <2>2 DEF Found
  <2>4. Senders
    BY <1>5, <1>9, <2>2 DEF BreakChat
  <2> QED
    BY <2>1, <2>3, <2>4
<1>10. ASSUME CloseChatSession \/ (\E p \in ChatSenders : WalkMeetsWrite(p)) \/ UNCHANGED ssVars
       PROVE  Streams /\ Sets /\ Senders
  <2>1. UNCHANGED <<ssOpen, ssBroken, ssTracked, ssSet, ssMade, ssMembers, ssSend, ssGot, ssResult>>
    BY <1>10 DEF CloseChatSession, WalkMeetsWrite, ssVars
  <2>2. Streams
    BY <1>1, <1>10, <2>1 DEF CloseChatSession, WalkMeetsWrite, ssVars
  <2>3. Sets
    BY <1>2, <2>1 DEF Found, Registered
  <2>4. Senders
    BY <1>5, <2>1
  <2> QED
    BY <2>2, <2>3, <2>4
\* A sender moves and no other does.
<1>11. ASSUME NEW p \in ChatSenders, GetSet(p) \/ WalkSet(p) PROVE Streams /\ Sets /\ Senders
  <2>1. /\ UNCHANGED <<ssOpen, ssBroken, ssTracked, ssSet, ssMade, ssMembers, ssGot, ssSession>>
    BY <1>11 DEF GetSet, WalkSet
  <2>2. Streams /\ Sets
    BY <1>1, <1>2, <2>1 DEF Found, Registered
  <2>3. /\ ssSend[p] \in Sends /\ \A q \in ChatSenders \ {p} : ssSend'[q] = ssSend[q] /\ ssResult'[q] = ssResult[q]
    BY <1>3, <1>11 DEF GetSet, WalkSet
  <2>4. ssResult' \in [ChatSenders -> {"none", "no stream", "sent", "unsent"}]
    BY <1>3, <1>11 DEF GetSet, WalkSet
  <2>5. /\ ssSend' \in [ChatSenders -> Sends]
        /\ ssSend'[p].pc = "walk" => ssSend'[p].of \in 1..MaxSets
        /\ ssSend'[p].pc \in {"new", "walk"} => ssSend'[p].found = {}
        /\ ssSend'[p].pc # "send" => ssSend'[p].left = {}
        /\ ssSend'[p].left \subseteq ssSend'[p].found
        /\ ssSend'[p].failed = ssSend[p].failed
        /\ ssSend'[p].found \ ssSend'[p].left = {} /\ ssSend[p].found = {}
        /\ ssSend'[p].pc = "done" => ssSend'[p].found = {} /\ ssResult'[p] = "no stream"
    <3>1. CASE GetSet(p)
      <4> DEFINE r == [ssSend[p] EXCEPT !.pc = IF ssSet = 0 THEN "done" ELSE "walk", !.of = ssSet]
      <4>1. /\ r \in Sends /\ r.pc = (IF ssSet = 0 THEN "done" ELSE "walk") /\ r.of = ssSet
            /\ r.found = ssSend[p].found /\ r.left = ssSend[p].left /\ r.failed = ssSend[p].failed
        <5>1. ssSet \in 0..MaxSets
          BY <1>2, SsAssumption
        <5> QED
          BY <2>3, <5>1
      <4>2. ssSend' = [ssSend EXCEPT ![p] = r] /\ ssSend[p].pc = "new"
            /\ ssResult' = IF ssSet = 0 THEN [ssResult EXCEPT ![p] = "no stream"] ELSE ssResult
        BY <1>3, <3>1 DEF GetSet
      <4> HIDE DEF r
      <4>3. ssSend' \in [ChatSenders -> Sends] /\ ssSend'[p] = r
        BY <1>3, <4>1, <4>2
      <4>4. ssSend[p].found = {} /\ ssSend[p].left = {}
        BY <1>3, <4>2 DEF SendersKeepTheirs
      <4>5. ssSet # 0 => ssSet \in 1..MaxSets
        BY <1>2, SsAssumption
      <4>6. ssSet = 0 => ssResult'[p] = "no stream"
        BY <1>3, <4>2
      <4> QED
        BY <4>1, <4>3, <4>4, <4>5, <4>6
    <3>2. CASE WalkSet(p)
      <4> DEFINE found == ssMembers[ssSend[p].of]
                 r == [ssSend[p] EXCEPT !.pc = IF found = {} THEN "done" ELSE "send", !.found = found, !.left = found]
      <4>1. ssSend[p].pc = "walk" /\ found \in SUBSET ChatStreams
        BY <1>2, <1>3, <3>2 DEF WalkSet, SendersKeepTheirs
      <4>2. /\ r \in Sends /\ r.pc = (IF found = {} THEN "done" ELSE "send")
            /\ r.found = found /\ r.left = found /\ r.failed = ssSend[p].failed
        BY <2>3, <4>1
      <4>3. ssSend' = [ssSend EXCEPT ![p] = r]
            /\ ssResult' = IF found = {} THEN [ssResult EXCEPT ![p] = "no stream"] ELSE ssResult
        BY <1>3, <3>2 DEF WalkSet
      <4> HIDE DEF r, found
      <4>4. ssSend' \in [ChatSenders -> Sends] /\ ssSend'[p] = r
        BY <1>3, <4>2, <4>3
      <4>5. ssSend[p].found = {}
        BY <1>3, <4>1 DEF SendersKeepTheirs
      <4>6. found = {} => ssResult'[p] = "no stream"
        BY <1>3, <4>3
      <4> QED
        BY <4>2, <4>4, <4>5, <4>6
    <3> QED
      BY <1>11, <3>1, <3>2
  <2>6. \A x \in ChatStreams : p \notin ssGot[x]
    BY <1>3, <2>5 DEF SendersKeepTheirs
  <2>7. SendersKeepTheirs'
    <3> SUFFICES ASSUME NEW q \in ChatSenders
                 PROVE  (/\ ssSend[q].pc = "walk" => ssSend[q].of \in 1..MaxSets
                         /\ ssSend[q].pc \in {"new", "walk"} => ssSend[q].found = {}
                         /\ ssSend[q].pc # "send" => ssSend[q].left = {}
                         /\ ssSend[q].left \subseteq ssSend[q].found
                         /\ \A x \in ssSend[q].failed : x \in ssBroken \/ ssOpen[x] = "ended"
                         /\ \A x \in ssSend[q].found \ ssSend[q].left : q \in ssGot[x] \/ x \in ssBroken \/ ssOpen[x] = "ended"
                         /\ \A x \in ChatStreams : q \in ssGot[x] => x \in ssSend[q].found
                         /\ ssSend[q].pc = "done" => (ssResult[q] = "sent" <=> \E x \in ssSend[q].found : q \in ssGot[x]))'
      BY DEF SendersKeepTheirs
    <3>1. CASE q = p
      BY <1>3, <2>1, <2>5, <2>6, <3>1 DEF SendersKeepTheirs
    <3>2. CASE q # p
      BY <1>3, <2>1, <2>3, <3>2, ZenonT(40) DEF SendersKeepTheirs
    <3> QED
      BY <3>1, <3>2
  <2> QED
    BY <1>3, <2>1, <2>2, <2>4, <2>5, <2>7
<1>12. ASSUME NEW p \in ChatSenders, NEW x \in ChatStreams, SendTo(p, x) PROVE Streams /\ Sets /\ Senders
  <2> DEFINE fails == x \in ssBroken \/ ssOpen[x] = "ended"
             r == [ssSend[p] EXCEPT !.left = @ \ {x}, !.failed = IF fails THEN @ \cup {x} ELSE @]
  <2>1. /\ UNCHANGED <<ssOpen, ssBroken, ssTracked, ssSet, ssMade, ssMembers, ssResult, ssSession>>
    BY <1>12 DEF SendTo
  <2>2. Streams /\ Sets
    BY <1>1, <1>2, <2>1 DEF Found, Registered
  <2>3. /\ ssSend[p] \in Sends /\ ssSend[p].pc = "send" /\ x \in ssSend[p].left
        /\ ssSend' = [ssSend EXCEPT ![p] = r]
        /\ ssGot' = IF fails THEN ssGot ELSE [ssGot EXCEPT ![x] = @ \cup {p}]
    <3>1. /\ ssSend[p].pc = "send" /\ x \in ssSend[p].left
          /\ ssGot' = IF fails THEN ssGot ELSE [ssGot EXCEPT ![x] = @ \cup {p}]
      BY <1>12 DEF SendTo
    <3>2. ssSend[p] \in Sends
      BY <1>3
    <3>3. ssSend' = [ssSend EXCEPT ![p] = r]
      BY <1>3, <1>12, <3>2 DEF SendTo
    <3> QED
      BY <3>1, <3>2, <3>3
  <2>4. /\ r \in Sends /\ r.pc = "send" /\ r.found = ssSend[p].found /\ r.left = ssSend[p].left \ {x}
        /\ r.failed = IF fails THEN ssSend[p].failed \cup {x} ELSE ssSend[p].failed
    BY <2>3
  <2> HIDE DEF r
  <2>5. ssSend' \in [ChatSenders -> Sends] /\ ssSend'[p] = r /\ \A q \in ChatSenders \ {p} : ssSend'[q] = ssSend[q]
    BY <1>3, <2>3, <2>4
  <2>6. /\ ssGot' \in [ChatStreams -> SUBSET ChatSenders]
        /\ \A y \in ChatStreams : \A q \in ChatSenders \ {p} : q \in ssGot'[y] <=> q \in ssGot[y]
        /\ \A y \in ChatStreams : p \in ssGot'[y] <=> p \in ssGot[y] \/ (y = x /\ ~fails)
    <3>1. CASE fails
      BY <1>3, <2>3, <3>1
    <3>2. CASE ~fails
      BY <1>3, <2>3, <3>2
    <3> QED
      BY <3>1, <3>2
  <2>7. SendersKeepTheirs'
    <3> SUFFICES ASSUME NEW q \in ChatSenders
                 PROVE  (/\ ssSend[q].pc = "walk" => ssSend[q].of \in 1..MaxSets
                         /\ ssSend[q].pc \in {"new", "walk"} => ssSend[q].found = {}
                         /\ ssSend[q].pc # "send" => ssSend[q].left = {}
                         /\ ssSend[q].left \subseteq ssSend[q].found
                         /\ \A y \in ssSend[q].failed : y \in ssBroken \/ ssOpen[y] = "ended"
                         /\ \A y \in ssSend[q].found \ ssSend[q].left : q \in ssGot[y] \/ y \in ssBroken \/ ssOpen[y] = "ended"
                         /\ \A y \in ChatStreams : q \in ssGot[y] => y \in ssSend[q].found
                         /\ ssSend[q].pc = "done" => (ssResult[q] = "sent" <=> \E y \in ssSend[q].found : q \in ssGot[y]))'
      BY DEF SendersKeepTheirs
    <3>0. ssSend[q] \in Sends
      BY <1>3
    <3>1. CASE q = p
      <4>1. /\ ssSend'[p].pc = "send" /\ ssSend'[p].found = ssSend[p].found
            /\ ssSend'[p].left = ssSend[p].left \ {x}
            /\ ssSend'[p].failed = IF fails THEN ssSend[p].failed \cup {x} ELSE ssSend[p].failed
        BY <2>4, <2>5
      <4>0. /\ ssSend[p].left \subseteq ssSend[p].found
            /\ \A y \in ssSend[p].failed : y \in ssBroken \/ ssOpen[y] = "ended"
            /\ \A y \in ssSend[p].found \ ssSend[p].left : p \in ssGot[y] \/ y \in ssBroken \/ ssOpen[y] = "ended"
            /\ \A y \in ChatStreams : p \in ssGot[y] => y \in ssSend[p].found
            /\ ssSend[p].found \subseteq ChatStreams
            /\ x \in ssSend[p].left
        BY <1>3, <2>3 DEF SendersKeepTheirs
      <4>2. ssSend'[p].left \subseteq ssSend'[p].found
        BY <4>0, <4>1
      <4>3. \A y \in ssSend'[p].failed : y \in ssBroken' \/ ssOpen'[y] = "ended"
        BY <2>1, <4>0, <4>1
      <4>4. \A y \in ssSend'[p].found \ ssSend'[p].left : p \in ssGot'[y] \/ y \in ssBroken' \/ ssOpen'[y] = "ended"
        BY <2>1, <2>6, <4>0, <4>1
      <4>5. \A y \in ChatStreams : p \in ssGot'[y] => y \in ssSend'[p].found
        BY <2>6, <4>0, <4>1
      <4> QED
        BY <3>1, <4>1, <4>2, <4>3, <4>4, <4>5
    <3>2. CASE q # p
      BY <1>3, <2>1, <2>5, <2>6, <3>0, <3>2, ZenonT(40) DEF SendersKeepTheirs
    <3> QED
      BY <3>1, <3>2
  <2> QED
    BY <1>3, <2>1, <2>2, <2>5, <2>6, <2>7
<1>13. ASSUME NEW p \in ChatSenders, EndSend(p) PROVE Streams /\ Sets /\ Senders
  <2>1. /\ UNCHANGED <<ssOpen, ssBroken, ssTracked, ssMade, ssGot, ssSession>>
        /\ ssSend[p] \in Sends /\ ssSend[p].pc = "send" /\ ssSend[p].left = {} /\ LeaveSet(ssSend[p].failed)
    BY <1>3, <1>13 DEF EndSend, SenderGoes
  <2>2. /\ ssSet' \in {0, ssMade} /\ ssMembers' \in [1..MaxSets -> SUBSET ChatStreams]
        /\ ssSet' # 0 => ssMembers'[ssSet'] # {}
        /\ Found' = Found \ ssSend[p].failed
    BY <1>4, <2>1, LeaveKeeps
  <2>3. \A x \in ssSend[p].failed : x \in ssBroken \/ x \notin Registered
    BY <1>3, <2>1 DEF SendersKeepTheirs, Registered
  <2>4. Streams /\ Sets
    <3>1. Registered' = Registered
      BY <2>1 DEF Registered
    <3> QED
      BY <1>1, <1>2, <2>1, <2>2, <2>3, <3>1
  <2> DEFINE r == [ssSend[p] EXCEPT !.pc = "done"]
  <2>5. r \in Sends /\ r.pc = "done" /\ r.found = ssSend[p].found /\ r.left = {} /\ r.failed = ssSend[p].failed
    BY <2>1
  <2>6. ssSend' = [ssSend EXCEPT ![p] = r]
    BY <1>3, <1>13 DEF EndSend, SenderGoes
  <2> HIDE DEF r
  <2>7. ssSend' \in [ChatSenders -> Sends] /\ ssSend'[p] = r /\ \A q \in ChatSenders \ {p} : ssSend'[q] = ssSend[q]
    BY <1>3, <2>5, <2>6
  <2>8. /\ ssResult' \in [ChatSenders -> {"none", "no stream", "sent", "unsent"}]
        /\ \A q \in ChatSenders \ {p} : ssResult'[q] = ssResult[q]
        /\ ssResult'[p] = "sent" <=> \E x \in ChatStreams : p \in ssGot[x]
    BY <1>3, <1>13 DEF EndSend
  <2>9. (\E x \in ChatStreams : p \in ssGot[x]) <=> (\E x \in ssSend[p].found : p \in ssGot[x])
    BY <1>3, <2>1 DEF SendersKeepTheirs
  <2>10. SendersKeepTheirs'
    <3> SUFFICES ASSUME NEW q \in ChatSenders
                 PROVE  (/\ ssSend[q].pc = "walk" => ssSend[q].of \in 1..MaxSets
                         /\ ssSend[q].pc \in {"new", "walk"} => ssSend[q].found = {}
                         /\ ssSend[q].pc # "send" => ssSend[q].left = {}
                         /\ ssSend[q].left \subseteq ssSend[q].found
                         /\ \A y \in ssSend[q].failed : y \in ssBroken \/ ssOpen[y] = "ended"
                         /\ \A y \in ssSend[q].found \ ssSend[q].left : q \in ssGot[y] \/ y \in ssBroken \/ ssOpen[y] = "ended"
                         /\ \A y \in ChatStreams : q \in ssGot[y] => y \in ssSend[q].found
                         /\ ssSend[q].pc = "done" => (ssResult[q] = "sent" <=> \E y \in ssSend[q].found : q \in ssGot[y]))'
      BY DEF SendersKeepTheirs
    <3>1. CASE q = p
      BY <1>3, <2>1, <2>5, <2>7, <2>8, <2>9, <3>1, ZenonT(40) DEF SendersKeepTheirs
    <3>2. CASE q # p
      BY <1>3, <2>1, <2>7, <2>8, <3>2, ZenonT(40) DEF SendersKeepTheirs
    <3> QED
      BY <3>1, <3>2
  <2> QED
    BY <1>3, <2>1, <2>4, <2>7, <2>8, <2>10
<1>14. Streams /\ Sets /\ Senders
  BY <1>6, <1>7, <1>8, <1>9, <1>10, <1>11, <1>12, <1>13 DEF SsNext, HandlerStep, SenderStep
<1>15. ssAlive' \in BOOLEAN
  BY <1>1 DEF SsNext, WalkMeetsWrite, ssVars
<1>16. OpenIsFound'
  BY <1>14 DEF OpenIsFound, Found, Registered
<1>17. SsTypeOK'
  BY <1>14, <1>15 DEF SsTypeOK
<1> QED
  BY <1>14, <1>16, <1>17 DEF SsIInv

-----------------------------------------------------------------------------
(* A session of the gateway service.                                       *)

\* The streams the entry counts.
Held == {x \in gsCounted : gsCall[x] \in {"open", "leaving"}} \cup gsLeaked

\* Before the session is in the registry no stream has found it and no call closes it.
NothingBeforeEntry ==
    /\ gsEntry = "none" <=> gsCreate \in {"new", "created"}
    /\ gsCreate = "new" <=> gsOrch = "none"
    /\ gsEntry = "none" =>
         /\ gsCounted = {} /\ gsCount = 0
         /\ \A x \in StreamCalls : gsCall[x] \in {"unused", "tracked", "ended"}
         /\ \A c \in CloseCalls : gsClose[c] = "new"

\* Streams are counted when they open, and leak when they end.  As long as the session
\* is in the registry, every open stream is counted.
CountedWhenOpen ==
    /\ \A x \in gsCounted : gsCall[x] \in {"open", "leaving", "ended"}
    /\ \A x \in gsLeaked : gsCall[x] = "ended"
    /\ gsEntry = "active" =>
         /\ \A x \in StreamCalls : gsCall[x] \in {"open", "leaving"} => x \in gsCounted
         /\ gsCount = Cardinality(Held)

\* A call that is past the orchestrator session found it closed or closed it; the one
\* that took the session out of the registry is the only one to report it.
OneCloses ==
    /\ \A c \in CloseCalls : gsClose[c] \in {"closing", "closed"} => gsOrch \in {"closed", "deleted"}
    /\ gsEntry # "removed" => \A c \in CloseCalls : gsClose[c] # "closed"
    /\ gsEntry = "removed" =>
         /\ gsOrch \in {"closed", "deleted"}
         /\ \E c \in CloseCalls : \A d \in CloseCalls : gsClose[d] = "closed" <=> d = c

\* The inductive invariant.
GsIInv == GsTypeOK /\ NothingBeforeEntry /\ CountedWhenOpen /\ OneCloses

\* A service without agents and streams satisfies it.
LEMMA GsInitIInv == GsInit => GsIInv
<1> SUFFICES ASSUME GsInit PROVE GsIInv
  OBVIOUS
<1>1. Cardinality(StreamCalls) \in Nat
  BY GsAssumption, FS_CardinalityType DEF StreamCalls
<1>2. GsTypeOK
  BY <1>1 DEF GsInit, GsTypeOK
<1> QED
  BY <1>2 DEF GsInit, GsIInv, NothingBeforeEntry, CountedWhenOpen, OneCloses

\* No more streams are counted than there are, and one more or less is one.
LEMMA HeldIsFinite ==
    ASSUME NEW H \in SUBSET StreamCalls
    PROVE  /\ IsFiniteSet(H)
           /\ Cardinality(H) \in 0..Cardinality(StreamCalls)
           /\ Cardinality(StreamCalls) \in Nat
           /\ \A x \in H : Cardinality(H) > 0 /\ Cardinality(H \ {x}) = Cardinality(H) - 1
           /\ \A x \in StreamCalls \ H : Cardinality(H \cup {x}) = Cardinality(H) + 1
<1>1. IsFiniteSet(StreamCalls)
  BY GsAssumption DEF StreamCalls
<1>2. IsFiniteSet(H) /\ Cardinality(H) <= Cardinality(StreamCalls)
  BY <1>1, FS_Subset
<1>3. Cardinality(H) \in Nat /\ Cardinality(StreamCalls) \in Nat
  BY <1>1, <1>2, FS_CardinalityType
<1>4. ASSUME NEW x \in H PROVE Cardinality(H) > 0 /\ Cardinality(H \ {x}) = Cardinality(H) - 1
  <2>1. Cardinality(H \ {x}) = Cardinality(H) - 1
    BY <1>2, FS_RemoveElement
  <2>2. Cardinality(H) # 0
    BY <1>2, FS_EmptySet
  <2> QED
    BY <1>3, <2>1, <2>2
<1>5. ASSUME NEW x \in StreamCalls \ H PROVE Cardinality(H \cup {x}) = Cardinality(H) + 1
  BY <1>2, FS_AddElement
<1> QED
  BY <1>2, <1>3, <1>4, <1>5

\* Every step preserves the invariant.
LEMMA GsStep == GsIInv /\ [GsNext]_gsVars => GsIInv'
<1> SUFFICES ASSUME GsIInv, [GsNext]_gsVars PROVE GsIInv'
  OBVIOUS
<1> DEFINE Calls == {"unused", "tracked", "found", "open", "leaving", "ended"}
           Running == {x \in StreamCalls : gsCall[x] \in {"tracked", "found", "open"}}
           Streams == /\ gsCall' \in [StreamCalls -> Calls]
                      /\ gsCounted' \subseteq StreamCalls /\ gsLeaked' \subseteq gsCounted'
                      /\ gsServing' \in BOOLEAN
                      /\ gsStreams' \subseteq Running' /\ (gsServing' => gsStreams' = Running')
           Count == gsCount' \in 0..Cardinality(StreamCalls) /\ CountedWhenOpen'
           Session == /\ gsCreate' \in {"new", "created", "entered", "answered", "refused"}
                      /\ gsOrch' \in {"none", "open", "closed", "deleted"}
                      /\ gsEntry' \in {"none", "active", "removed"}
                      /\ gsClose' \in [CloseCalls -> {"new", "found", "closing", "closed", "failed"}]
                      /\ OneCloses' /\ NothingBeforeEntry'
<1>1. /\ gsCall \in [StreamCalls -> Calls]
      /\ gsCounted \subseteq StreamCalls /\ gsLeaked \subseteq gsCounted
      /\ gsServing \in BOOLEAN
      /\ gsStreams \subseteq Running /\ (gsServing => gsStreams = Running)
  BY DEF GsIInv, GsTypeOK
<1>2. gsCount \in 0..Cardinality(StreamCalls) /\ CountedWhenOpen
  BY DEF GsIInv, GsTypeOK
<1>3. /\ gsCreate \in {"new", "created", "entered", "answered", "refused"}
      /\ gsOrch \in {"none", "open", "closed", "deleted"}
      /\ gsEntry \in {"none", "active", "removed"}
      /\ gsClose \in [CloseCalls -> {"new", "found", "closing", "closed", "failed"}]
      /\ OneCloses /\ NothingBeforeEntry
  BY DEF GsIInv, GsTypeOK
<1>4. Held \subseteq StreamCalls
  BY <1>1 DEF Held
<1>5. /\ IsFiniteSet(Held) /\ Cardinality(Held) \in 0..Cardinality(StreamCalls)
      /\ Cardinality(StreamCalls) \in Nat
  BY <1>4, HeldIsFinite
\* Steps that leave the streams alone.
<1>6. ASSUME UNCHANGED <<gsCount, gsCall, gsCounted, gsLeaked, gsStreams, gsServing>>,
             gsEntry' = "active" => gsEntry = "active" \/ gsEntry = "none"
      PROVE  Streams /\ Count
  <2>1. Streams
    BY <1>1, <1>6
  <2>2. Held' = Held
    BY <1>6 DEF Held
  <2>3. CASE gsEntry = "none"
    <3>1. gsCounted = {} /\ gsCount = 0 /\ \A x \in StreamCalls : gsCall[x] \in {"unused", "tracked", "ended"}
      BY <1>3, <2>3 DEF NothingBeforeEntry
    <3>2. Held = {}
      BY <1>1, <3>1 DEF Held
    <3>3. Cardinality(Held) = 0
      BY <3>2, FS_EmptySet
    <3> QED
      BY <1>2, <1>6, <2>1, <2>2, <3>1, <3>3 DEF CountedWhenOpen
  <2>4. CASE gsEntry # "none"
    BY <1>2, <1>6, <2>1, <2>2, <2>4 DEF CountedWhenOpen
  <2> QED
    BY <2>3, <2>4
<1>7. ASSUME CreateOrchSession PROVE Streams /\ Count /\ Session
  BY <1>3, <1>6, <1>7 DEF CreateOrchSession, gsStreamVars, OneCloses, NothingBeforeEntry
<1>8. ASSUME AddGatewaySession PROVE Streams /\ Count /\ Session
  BY <1>3, <1>6, <1>8 DEF AddGatewaySession, gsStreamVars, OneCloses, NothingBeforeEntry
<1>9. ASSUME AnswerCreate PROVE Streams /\ Count /\ Session
  BY <1>3, <1>6, <1>9 DEF AnswerCreate, gsStreamVars, gsSessionVars, OneCloses, NothingBeforeEntry
<1>10. ASSUME NEW to \in {"closed", "deleted"}, OrchSessionChanges(to) PROVE Streams /\ Count /\ Session
  BY <1>3, <1>6, <1>10 DEF OrchSessionChanges, gsStreamVars, OneCloses, NothingBeforeEntry
<1>11. ASSUME NEW c \in CloseCalls, FindForClose(c) PROVE Streams /\ Count /\ Session
  <2>1. /\ \A d \in CloseCalls : gsClose'[d] # gsClose[d] => gsClose'[d] \in {"found", "failed"} /\ gsClose[d] = "new"
        /\ gsClose' \in [CloseCalls -> {"new", "found", "closing", "closed", "failed"}]
    BY <1>3, <1>11 DEF FindForClose, CloseGoes
  <2>2. gsEntry # "none" /\ UNCHANGED <<gsCreate, gsOrch, gsEntry>> /\ UNCHANGED gsStreamVars /\ UNCHANGED gsCount
    BY <1>11 DEF FindForClose, gsSessionVars
  <2>3. Streams /\ Count
    BY <1>6, <2>2 DEF gsStreamVars
  <2>4. OneCloses'
    BY <1>3, <2>1, <2>2 DEF OneCloses
  <2> QED
    BY <1>3, <2>1, <2>2, <2>3, <2>4 DEF NothingBeforeEntry
<1>12. ASSUME NEW c \in CloseCalls, CloseOrchSession(c) PROVE Streams /\ Count /\ Session
  <2>1. /\ \A d \in CloseCalls : gsClose'[d] # gsClose[d] => gsClose'[d] \in {"closing", "failed"} /\ gsClose[d] = "found"
        /\ gsClose' \in [CloseCalls -> {"new", "found", "closing", "closed", "failed"}]
        /\ gsClose[c] = "found" /\ (gsClose'[c] = "closing" => gsOrch # "deleted")
        /\ \A d \in CloseCalls : d # c => gsClose'[d] = gsClose[d]
    BY <1>3, <1>12 DEF CloseOrchSession, CloseGoes
  <2>2. /\ UNCHANGED <<gsCreate, gsEntry>> /\ UNCHANGED gsStreamVars /\ UNCHANGED gsCount
        /\ gsOrch' = IF gsOrch = "open" THEN "closed" ELSE gsOrch
    BY <1>12 DEF CloseOrchSession
  <2>3. gsEntry # "none" /\ gsOrch # "none" /\ gsOrch' \in {"closed", "deleted"}
    BY <1>3, <2>1, <2>2 DEF NothingBeforeEntry
  <2>4. Streams /\ Count
    BY <1>6, <2>2 DEF gsStreamVars
  <2>5. OneCloses'
    BY <1>3, <2>1, <2>2, <2>3 DEF OneCloses
  <2> QED
    BY <1>3, <2>1, <2>2, <2>3, <2>4, <2>5 DEF NothingBeforeEntry
<1>13. ASSUME NEW c \in CloseCalls, RemoveGatewaySession(c) PROVE Streams /\ Count /\ Session
  <2>1. /\ gsClose' \in [CloseCalls -> {"new", "found", "closing", "closed", "failed"}]
        /\ gsClose[c] = "closing" /\ gsClose'[c] = IF gsEntry = "active" THEN "closed" ELSE "failed"
        /\ \A d \in CloseCalls : d # c => gsClose'[d] = gsClose[d]
    BY <1>3, <1>13 DEF RemoveGatewaySession, CloseGoes
  <2>2. /\ UNCHANGED <<gsCreate, gsOrch>> /\ UNCHANGED gsStreamVars /\ UNCHANGED gsCount /\ gsEntry' = "removed"
    BY <1>13 DEF RemoveGatewaySession
  <2>3. gsEntry # "none" /\ gsOrch \in {"closed", "deleted"}
    BY <1>3, <2>1 DEF NothingBeforeEntry, OneCloses
  <2>4. Streams /\ Count
    BY <1>6, <2>2 DEF gsStreamVars
  <2>5. \E d \in CloseCalls : \A e \in CloseCalls : gsClose'[e] = "closed" <=> e = d
    <3>1. CASE gsEntry = "active"
      <4>1. \A e \in CloseCalls : gsClose'[e] = "closed" <=> e = c
        BY <1>3, <2>1, <3>1 DEF OneCloses
      <4> QED
        BY <4>1
    <3>2. CASE gsEntry = "removed"
      <4>1. PICK d \in CloseCalls : \A e \in CloseCalls : gsClose[e] = "closed" <=> e = d
        BY <1>3, <3>2 DEF OneCloses
      <4>2. \A e \in CloseCalls : gsClose'[e] = "closed" <=> e = d
        BY <2>1, <3>2, <4>1
      <4> QED
        BY <4>2
    <3> QED
      BY <1>3, <2>3, <3>1, <3>2
  <2>6. OneCloses'
    BY <1>3, <2>1, <2>2, <2>3, <2>5 DEF OneCloses
  <2> QED
    BY <1>3, <2>1, <2>2, <2>3, <2>4, <2>6 DEF NothingBeforeEntry
<1>14. ASSUME CloseGatewayService PROVE Streams /\ Count /\ Session
  <2>1. /\ UNCHANGED <<gsCreate, gsOrch, gsEntry, gsCount, gsCall, gsCounted, gsLeaked, gsClose>>
        /\ gsServing' = FALSE /\ gsStreams' = {}
    BY <1>14 DEF CloseGatewayService, gsSessionVars
  <2>2. Held' = Held
    BY <2>1 DEF Held
  <2>3. Streams
    BY <1>1, <2>1
  <2>4. Count
    BY <1>2, <2>1, <2>2 DEF CountedWhenOpen
  <2>5. Session
    BY <1>3, <2>1 DEF OneCloses, NothingBeforeEntry
  <2> QED
    BY <2>3, <2>4, <2>5
<1>15. ASSUME UNCHANGED gsVars PROVE Streams /\ Count /\ Session
  <2>1. UNCHANGED <<gsCreate, gsOrch, gsEntry, gsCount, gsCall, gsCounted, gsLeaked, gsClose, gsServing, gsStreams>>
    BY <1>15 DEF gsVars, gsSessionVars, gsStreamVars
  <2>2. Streams /\ Count
    BY <1>6, <2>1
  <2>3. Session
    BY <1>3, <2>1 DEF OneCloses, NothingBeforeEntry
  <2> QED
    BY <2>2, <2>3
\* Steps of a stream leave the session alone.
<1>16. ASSUME UNCHANGED <<gsCreate, gsOrch, gsEntry, gsClose>>,
              gsEntry = "none" => /\ gsCounted' = {} /\ gsCount' = 0
                                  /\ \A x \in StreamCalls : gsCall'[x] \in {"unused", "tracked", "ended"}
       PROVE  Session
  BY <1>3, <1>16 DEF OneCloses, NothingBeforeEntry
<1>17. ASSUME NEW x \in StreamCalls,
              TrackChat(x) \/ FindForChat(x) \/ FindForResponses(x)
       PROVE  Streams /\ Count /\ Session
  <2>1. /\ UNCHANGED <<gsCreate, gsOrch, gsEntry, gsClose, gsCount, gsCounted, gsLeaked, gsServing>>
        /\ gsStreams' \subseteq gsStreams \cup {x} /\ (gsServing => gsStreams' = gsStreams \cup {x})
        /\ gsCall[x] \in {"unused", "tracked"} /\ gsCall'[x] \in {"tracked", "found"}
        /\ gsCall'[x] = "found" => gsEntry = "active"
        /\ \A y \in StreamCalls : y # x => gsCall'[y] = gsCall[y]
        /\ gsCall' \in [StreamCalls -> Calls]
    <3>1. CASE TrackChat(x)
      BY <1>1, <3>1 DEF TrackChat, StreamGoes, gsSessionVars
    <3>2. CASE FindForChat(x)
      BY <1>1, <3>2 DEF FindForChat, StreamGoes, gsSessionVars
    <3>3. CASE FindForResponses(x)
      BY <1>1, <3>3 DEF FindForResponses, StreamGoes, gsSessionVars
    <3> QED
      BY <1>17, <3>1, <3>2, <3>3
  <2>2. Streams
    BY <1>1, <2>1
  <2>3. x \notin gsCounted
    BY <1>2, <2>1 DEF CountedWhenOpen
  <2>4. Held' = Held
    BY <1>1, <2>1, <2>3 DEF Held
  <2>5. Count
    BY <1>1, <1>2, <2>1, <2>3, <2>4 DEF CountedWhenOpen
  <2>6. Session
    BY <1>3, <1>16, <2>1 DEF NothingBeforeEntry
  <2> QED
    BY <2>2, <2>5, <2>6
<1>18. ASSUME NEW x \in StreamCalls, CountStream(x) PROVE Streams /\ Count /\ Session
  <2>1. /\ UNCHANGED <<gsCreate, gsOrch, gsEntry, gsClose, gsLeaked, gsServing, gsStreams>>
        /\ gsCall[x] = "found" /\ gsCall'[x] = "open"
        /\ \A y \in StreamCalls : y # x => gsCall'[y] = gsCall[y]
        /\ gsCall' \in [StreamCalls -> Calls]
    BY <1>1, <1>18 DEF CountStream, StreamGoes, gsSessionVars
  <2>2. gsEntry # "none"
    BY <1>3, <2>1 DEF NothingBeforeEntry
  <2>3. x \notin gsCounted
    BY <1>2, <2>1 DEF CountedWhenOpen
  <2>4. Session
    BY <1>16, <2>1, <2>2
  <2>5. CASE gsEntry = "active"
    <3>1. gsCount' = gsCount + 1 /\ gsCounted' = gsCounted \cup {x}
      BY <1>18, <2>5 DEF CountStream
    <3>2. Held' = Held \cup {x} /\ x \notin Held
      BY <1>1, <2>1, <2>3, <3>1 DEF Held
    <3>3. Held' \subseteq StreamCalls
      BY <1>4, <3>2
    <3>4. Cardinality(Held') \in 0..Cardinality(StreamCalls) /\ Cardinality(Held') = Cardinality(Held) + 1
      BY <1>4, <3>2, <3>3, HeldIsFinite
    <3>5. gsCount' = Cardinality(Held')
      BY <1>2, <2>5, <3>1, <3>4 DEF CountedWhenOpen
    <3>6. Streams
      BY <1>1, <2>1, <3>1
    <3>7. CountedWhenOpen'
      <4>1. (Cardinality(Held))' = Cardinality(Held')
        OBVIOUS
      <4> QED
        BY <1>1, <1>2, <2>1, <2>5, <3>1, <3>5, <4>1 DEF CountedWhenOpen
    <3> QED
      BY <2>4, <3>4, <3>5, <3>6, <3>7
  <2>6. CASE gsEntry # "active"
    <3>1. gsCount' = gsCount /\ gsCounted' = gsCounted
      BY <1>18, <2>6 DEF CountStream
    <3>2. Streams
      BY <1>1, <2>1, <3>1
    <3>3. Count
      BY <1>1, <1>2, <2>1, <2>3, <2>6, <3>1 DEF CountedWhenOpen
    <3> QED
      BY <2>4, <3>2, <3>3
  <2> QED
    BY <2>5, <2>6
\* A stream ends, or leaves.
<1>19. ASSUME NEW x \in StreamCalls,
              UNCHANGED <<gsCreate, gsOrch, gsEntry, gsClose, gsCounted, gsLeaked, gsServing>>,
              gsCall[x] \in {"open", "leaving"}, gsCall' = [gsCall EXCEPT ![x] = "ended"],
              gsStreams' = gsStreams \ {x}, gsCount' = Decremented
       PROVE  Streams /\ Count /\ Session
  <2>1. /\ gsCall'[x] = "ended" /\ \A y \in StreamCalls : y # x => gsCall'[y] = gsCall[y]
        /\ gsCall' \in [StreamCalls -> Calls]
    BY <1>1, <1>19
  <2>2. gsEntry # "none"
    BY <1>3, <1>19 DEF NothingBeforeEntry
  <2>3. Session
    BY <1>16, <1>19, <2>2
  <2>4. Streams
    BY <1>1, <1>19, <2>1
  <2>5. x \notin gsLeaked
    BY <1>2, <1>19 DEF CountedWhenOpen
  <2>6. CASE gsEntry = "active"
    <3>1. x \in Held /\ Held' = Held \ {x} /\ gsCount = Cardinality(Held)
      BY <1>1, <1>2, <1>19, <2>1, <2>5, <2>6 DEF Held, CountedWhenOpen
    <3>2. Held' \subseteq StreamCalls
      BY <1>4, <3>1
    <3>3. Cardinality(Held) > 0 /\ Cardinality(Held \ {x}) = Cardinality(Held) - 1
      BY <1>4, <3>1, HeldIsFinite
    <3>4. Cardinality(Held') = Cardinality(Held) - 1
      BY <3>1, <3>3
    <3>5. gsCount' = gsCount - 1
      BY <1>19, <2>6, <3>1, <3>3 DEF Decremented
    <3>6. gsCount' = Cardinality(Held') /\ gsCount' \in 0..Cardinality(StreamCalls)
      BY <1>2, <1>5, <3>1, <3>3, <3>4, <3>5
    <3>7. CountedWhenOpen'
      BY <1>2, <1>19, <2>1, <2>6, <3>6 DEF CountedWhenOpen
    <3> QED
      BY <2>3, <2>4, <3>6, <3>7
  <2>7. CASE gsEntry # "active"
    BY <1>1, <1>2, <1>19, <2>1, <2>3, <2>4, <2>7 DEF CountedWhenOpen, Decremented
  <2> QED
    BY <2>6, <2>7
<1>20. ASSUME NEW x \in StreamCalls, ClientEnds(x) PROVE Streams /\ Count /\ Session
  <2>1. /\ UNCHANGED <<gsCreate, gsOrch, gsEntry, gsClose, gsCounted, gsLeaked, gsServing>>
        /\ gsCall[x] \in {"tracked", "open"} /\ gsCall' = [gsCall EXCEPT ![x] = "ended"]
        /\ gsStreams' = gsStreams \ {x}
        /\ gsCount' = IF gsCall[x] = "open" THEN Decremented ELSE gsCount
    BY <1>20 DEF ClientEnds, gsSessionVars
  <2>2. CASE gsCall[x] = "open"
    BY <1>19, <2>1, <2>2
  <2>3. CASE gsCall[x] = "tracked"
    <3>1. /\ gsCall'[x] = "ended" /\ \A y \in StreamCalls : y # x => gsCall'[y] = gsCall[y]
          /\ gsCall' \in [StreamCalls -> Calls] /\ gsCount' = gsCount
      BY <1>1, <2>1, <2>3
    <3>2. x \notin gsCounted
      BY <1>2, <2>3 DEF CountedWhenOpen
    <3>3. Held' = Held
      BY <1>1, <2>1, <3>1, <3>2 DEF Held
    <3>4. Streams
      BY <1>1, <2>1, <3>1
    <3>5. Count
      BY <1>1, <1>2, <2>1, <3>1, <3>2, <3>3 DEF CountedWhenOpen
    <3>6. Session
      BY <1>3, <1>16, <2>1, <3>1 DEF NothingBeforeEntry
    <3> QED
      BY <3>4, <3>5, <3>6
  <2> QED
    BY <2>1, <2>2, <2>3
<1>21. ASSUME NEW x \in StreamCalls, ChatEnds(x) PROVE Streams /\ Count /\ Session
  <2>1. /\ UNCHANGED <<gsCreate, gsOrch, gsEntry, gsClose, gsCount, gsCounted, gsServing>>
        /\ gsCall[x] = "open" /\ gsCall'[x] = "ended"
        /\ \A y \in StreamCalls : y # x => gsCall'[y] = gsCall[y]
        /\ gsCall' \in [StreamCalls -> Calls]
        /\ gsStreams' = gsStreams \ {x} /\ gsLeaked' = gsLeaked \cup (gsCounted \cap {x})
    BY <1>1, <1>21 DEF ChatEnds, StreamGoes, gsSessionVars
  <2>2. gsEntry # "none"
    BY <1>3, <2>1 DEF NothingBeforeEntry
  <2>3. Held' = Held
    BY <1>1, <2>1 DEF Held
  <2>4. Streams
    BY <1>1, <2>1
  <2>5. Count
    BY <1>1, <1>2, <2>1, <2>3 DEF CountedWhenOpen
  <2>6. Session
    BY <1>16, <2>1, <2>2
  <2> QED
    BY <2>4, <2>5, <2>6
<1>22. ASSUME NEW x \in StreamCalls, ResponsesEnd(x) PROVE Streams /\ Count /\ Session
  <2>1. /\ UNCHANGED <<gsCreate, gsOrch, gsEntry, gsClose, gsCount, gsCounted, gsLeaked, gsServing>>
        /\ gsCall[x] = "open" /\ gsCall'[x] = "leaving"
        /\ \A y \in StreamCalls : y # x => gsCall'[y] = gsCall[y]
        /\ gsCall' \in [StreamCalls -> Calls] /\ gsStreams' = gsStreams \ {x}
    BY <1>1, <1>22 DEF ResponsesEnd, StreamGoes, gsSessionVars
  <2>2. gsEntry # "none"
    BY <1>3, <2>1 DEF NothingBeforeEntry
  <2>3. Held' = Held
    BY <1>1, <2>1 DEF Held
  <2>4. Streams
    BY <1>1, <2>1
  <2>5. Count
    BY <1>1, <1>2, <2>1, <2>3 DEF CountedWhenOpen
  <2>6. Session
    BY <1>16, <2>1, <2>2
  <2> QED
    BY <2>4, <2>5, <2>6
<1>23. ASSUME NEW x \in StreamCalls, UncountResponses(x) PROVE Streams /\ Count /\ Session
  <2>1. /\ UNCHANGED <<gsCreate, gsOrch, gsEntry, gsClose, gsCounted, gsLeaked, gsServing>>
        /\ gsCall[x] = "leaving" /\ gsCall' = [gsCall EXCEPT ![x] = "ended"]
        /\ gsStreams' = gsStreams /\ gsCount' = Decremented
    BY <1>23 DEF UncountResponses, StreamGoes, gsSessionVars
  <2>2. gsStreams' = gsStreams \ {x}
    BY <1>1, <2>1
  <2> QED
    BY <1>19, <2>1, <2>2
<1>24. Streams /\ Count /\ Session
  <2>1. CASE \E c \in CloseCalls : FindForClose(c) \/ CloseOrchSession(c) \/ RemoveGatewaySession(c)
    BY <1>11, <1>12, <1>13, <2>1
  <2>2. CASE \E x \in StreamCalls : \/ TrackChat(x) \/ FindForChat(x) \/ FindForResponses(x) \/ CountStream(x)
                                    \/ ClientEnds(x) \/ ChatEnds(x) \/ ResponsesEnd(x) \/ UncountResponses(x)
    BY <1>17, <1>18, <1>20, <1>21, <1>22, <1>23, <2>2
  <2> HIDE DEF Streams, Count, Session
  <2> QED
    BY <1>7, <1>8, <1>9, <1>10, <1>14, <1>15, <2>1, <2>2 DEF GsNext
<1>25. GsTypeOK'
  BY <1>24 DEF GsTypeOK
<1> QED
  BY <1>24, <1>25 DEF GsIInv

-----------------------------------------------------------------------------
(* The fields of an object.                                                *)

\* The inductive invariant: a field the client sent is stored as it was read and never
\* moves; one that the program moves holds what the program gives it.  What a client was
\* shown comes from a stored value.
WfIInv ==
    \/ /\ wfField \in SentFields /\ wfSent \in WireValues(wfField)
       /\ wfStored = Read(wfField, wfSent)
       /\ wfSeen \in {"", Show(wfField, wfStored)}
    \/ /\ wfField \in MovedFields /\ wfStored \in Assigned(wfField)
       /\ wfSeen = "" \/ \E v \in Assigned(wfField) : wfSeen = Show(wfField, v)

\* Every step preserves it.
LEMMA WfStep == WfIInv /\ [WfNext]_wfVars => WfIInv'
<1> SUFFICES ASSUME WfIInv, [WfNext]_wfVars PROVE WfIInv'
  OBVIOUS
<1>1. SentFields \cap MovedFields = {}
  BY DEF SentFields, MovedFields
<1>2. CASE ShowField
  BY <1>2 DEF ShowField, WfIInv
<1>3. ASSUME NEW v, MoveField(v) PROVE WfIInv'
  BY <1>1, <1>3 DEF MoveField, WfIInv
<1>4. CASE UNCHANGED wfVars
  BY <1>4 DEF wfVars, WfIInv
<1> QED
  BY <1>2, <1>3, <1>4 DEF WfNext

\* What a client sends comes back to it but for the known gaps.
LEMMA SentIsShown ==
    ASSUME NEW f \in SentFields, NEW w \in WireValues(f)
    PROVE  \/ Show(f, Read(f, w)) = w
           \/ w = Unnamed /\ Show(f, Read(f, w)) = Unspecified
           \/ f = "role" /\ w \in {Unspecified, Unnamed} /\ Show(f, Read(f, w)) = "user"
           \/ f \in {"duration", "pidsLimit"} /\ w = "negative" /\ Show(f, Read(f, w)) = "zero"
<1>1. CASE f = "duration"
  <2>1. w \in {"negative", "zero", "positive"}
    BY <1>1 DEF WireValues, Amounts
  <2>2. Read(f, w) = Positive(w)
    BY <1>1 DEF Read, protoToSessionConfig
  <2>3. Show(f, Read(f, w)) = Positive(Positive(w))
    BY <1>1, <2>2 DEF Show
  <2> QED
    BY <1>1, <2>1, <2>3 DEF Positive
<1>2. CASE f = "pidsLimit"
  <2>1. w \in {"negative", "zero", "positive"}
    BY <1>2 DEF WireValues, Amounts
  <2>2. Read(f, w) = Positive(w)
    BY <1>2 DEF Read, protoToResourceLimits
  <2>3. Show(f, Read(f, w)) = Positive(w)
    BY <1>2, <2>2 DEF Show
  <2> QED
    BY <1>2, <2>1, <2>3 DEF Positive
<1>3. CASE f = "role"
  <2>1. w \in MessageRoles \cup {Unspecified, Unnamed}
    BY <1>3 DEF WireValues, OnWire
  <2>2. Read(f, w) = IF w \in MessageRoles THEN w ELSE "user"
    BY <1>3 DEF Read, protoToMessageRole, FromProto
  <2>3. Read(f, w) \in MessageRoles
    BY <2>2 DEF MessageRoles
  <2>4. Show(f, Read(f, w)) = Read(f, w)
    BY <1>3, <2>3 DEF Show, ToProto
  <2> QED
    BY <1>3, <2>1, <2>2, <2>4
<1>4. ASSUME NEW names, names \in {AgentTypes, TaskTypes, Priorities}, w \in names \cup {Unspecified, Unnamed},
             Read(f, w) = FromProto(names, w, "unspecified"), Show(f, Read(f, w)) = ToProto(names, Read(f, w))
      PROVE  Show(f, Read(f, w)) = w \/ (w = Unnamed /\ Show(f, Read(f, w)) = Unspecified)
  <2>1. "unspecified" \notin names /\ Unspecified \notin names /\ Unnamed \notin names
    BY <1>4 DEF AgentTypes, TaskTypes, Priorities, Unspecified, Unnamed
  <2> QED
    BY <1>4, <2>1 DEF FromProto, ToProto
<1>5. CASE f = "agentType"
  <2>1. w \in AgentTypes \cup {Unspecified, Unnamed} /\ Read(f, w) = FromProto(AgentTypes, w, "unspecified")
    BY <1>5 DEF WireValues, OnWire, Read, protoToAgentType
  <2>2. Show(f, Read(f, w)) = ToProto(AgentTypes, Read(f, w))
    BY <1>5 DEF Show
  <2> QED
    BY <1>4, <2>1, <2>2
<1>6. CASE f = "taskType"
  <2>1. w \in TaskTypes \cup {Unspecified, Unnamed} /\ Read(f, w) = FromProto(TaskTypes, w, "unspecified")
    BY <1>6 DEF WireValues, OnWire, Read, protoToTaskType
  <2>2. Show(f, Read(f, w)) = ToProto(TaskTypes, Read(f, w))
    BY <1>6 DEF Show
  <2> QED
    BY <1>4, <2>1, <2>2
<1>7. CASE f = "taskPriority"
  <2>1. w \in Priorities \cup {Unspecified, Unnamed} /\ Read(f, w) = FromProto(Priorities, w, "unspecified")
    BY <1>7 DEF WireValues, OnWire, Read, protoToTaskPriority
  <2>2. Show(f, Read(f, w)) = ToProto(Priorities, Read(f, w))
    BY <1>7 DEF Show
  <2> QED
    BY <1>4, <2>1, <2>2
<1> QED
  BY <1>1, <1>2, <1>3, <1>5, <1>6, <1>7 DEF SentFields

\* What the program gives a field is shown as such, but for the two gaps.
LEMMA MovedIsShown ==
    ASSUME NEW f \in MovedFields, NEW v \in Assigned(f)
    PROVE  \/ Show(f, v) \in Assigned(f)
           \/ Show(f, v) = Unspecified /\ f \in {"taskState", "eventType"}
<1>1. CASE f = "state"
  BY <1>1 DEF Assigned, Show, ToProto
<1>2. CASE f = "status"
  BY <1>2 DEF Assigned, Show, ToProto
<1>3. CASE f = "agentState"
  BY <1>3 DEF Assigned, Show, ToProto, AgentStates
<1>4. CASE f = "taskState"
  BY <1>4 DEF Assigned, Show, ToProto
<1>5. CASE f = "eventType"
  BY <1>5 DEF Assigned, Show, ToProto
<1>6. CASE f = "eventPriority"
  BY <1>6 DEF Assigned, Show, ToProto
<1> QED
  BY <1>1, <1>2, <1>3, <1>4, <1>5, <1>6 DEF MovedFields

\* However streams, senders, closing and creation overlap: a working stream is found and
\* reached, the count of a gateway session is its open and leaked streams, it closes with
\* its orchestrator session, and clients are shown what was sent or stored but for the
\* known gaps (orchestrator_service.go:92, :507; gateway_service.go:484, :635, :706;
\* convert.go:140, :271, :472, :706, :995).
THEOREM ClientStreamsStaySafe == SsSpec /\ GsSpec /\ WfSpec => []ClientStreamsSafe
<1>1. SsIInv => SsTypeOK /\ OpenIsFound /\ ReachesTheRest
  BY DEF SsIInv, SendersKeepTheirs, ReachesTheRest
<1>2. GsIInv => GsTypeOK /\ CountIsOpenAndLeaked /\ ClosedTogether
  <2> SUFFICES ASSUME GsIInv PROVE CountIsOpenAndLeaked /\ ClosedTogether
    BY DEF GsIInv
  <2>1. CountIsOpenAndLeaked
    BY DEF GsIInv, CountedWhenOpen, CountIsOpenAndLeaked, Held
  <2>2. ASSUME gsEntry = "removed"
        PROVE  Cardinality({c \in CloseCalls : gsClose[c] = "closed"}) = 1
    <3>1. PICK c \in CloseCalls : \A d \in CloseCalls : gsClose[d] = "closed" <=> d = c
      BY <2>2 DEF GsIInv, OneCloses
    <3>2. {d \in CloseCalls : gsClose[d] = "closed"} = {c}
      BY <3>1
    <3>3. Cardinality({c}) = 1
      BY FS_Singleton
    <3> QED
      BY <3>2, <3>3
  <2> QED
    BY <2>1, <2>2 DEF GsIInv, OneCloses, ClosedTogether
<1>3. WfIInv => ShownAsSent /\ ShownAsMoved /\ FilterFindsAsked
  <2> SUFFICES ASSUME WfIInv PROVE ShownAsSent /\ ShownAsMoved /\ FilterFindsAsked
    OBVIOUS
  <2>1. SentFields \cap MovedFields = {} /\ "state" \in MovedFields
    BY DEF SentFields, MovedFields
  <2>2. ShownAsSent
    BY <2>1, SentIsShown DEF WfIInv, ShownAsSent
  <2>3. ShownAsMoved
    <3> SUFFICES ASSUME wfField \in MovedFields, wfSeen # ""
                 PROVE  \/ wfSeen \in Assigned(wfField)
                        \/ wfSeen = Unspecified /\ wfField \in {"taskState", "eventType"}
      BY DEF ShownAsMoved
    <3>1. PICK v \in Assigned(wfField) : wfSeen = Show(wfField, v)
      BY <2>1 DEF WfIInv
    <3> QED
      BY <3>1, MovedIsShown
  <2>4. ASSUME wfField = "state", NEW w \in OnWire(SessionStates), Selects(w, wfStored)
        PROVE  w \in {Unspecified, Show("state", wfStored)} \/ (w = Unnamed /\ wfStored = "initializing")
    <3>1. wfStored \in SessionStates
      BY <2>1, <2>4 DEF WfIInv, Assigned
    <3>2. Show("state", wfStored) = wfStored
      BY <3>1 DEF Show, ToProto
    <3>3. w = Unspecified \/ wfStored = (IF w \in SessionStates THEN w ELSE "initializing")
      BY <2>4 DEF Selects, protoToSessionState, FromProto
    <3> QED
      BY <3>2, <3>3 DEF OnWire
  <2>5. FilterFindsAsked
    BY <2>4 DEF FilterFindsAsked
  <2> QED
    BY <2>2, <2>3, <2>5
<1>4. WfInit => WfIInv
  BY DEF WfInit, WfIInv
<1>5. SsIInv /\ GsIInv /\ WfIInv => ClientStreamsSafe
  BY <1>1, <1>2, <1>3 DEF ClientStreamsSafe
<1> QED
  BY SsInitIInv, SsStep, GsInitIInv, GsStep, WfStep, <1>4, <1>5, PTL DEF SsSpec, GsSpec, WfSpec

-----------------------------------------------------------------------------
(* The life of the orchestrator.                                           *)

\* A shutdown that began has one caller, whose place tells what state it is in.
OneShutter ==
    \/ shutState = "running" /\ \A c \in Callers : shutter[c] = "none"
    \/ \E c \in Callers :
          /\ \/ shutState = "initiated" /\ shutter[c] = "pre"
             \/ shutState = "stopping" /\ shutter[c] \in {"close", "hung", "post"}
             \/ shutState = "complete" /\ shutter[c] = "done"
          /\ \A d \in Callers \ {c} : shutter[d] \in {"none", "refused"}

\* Nobody shuts down a process that does not wait for it yet, and a process that has
\* ended runs nothing.
ShutsWhenWaiting ==
    /\ main \notin {"waiting", "exited"} => shutState = "running"
    /\ main \in {"off", "boot", "exited"} => up = {}
    /\ main \in {"off", "boot", "failed", "hung", "exited"} => ~serving

\* All subsystems are up between Initialize and Close, which nobody is past
\* while the server runs.
UpUntilClosed ==
    /\ main \in {"skills", "grpc", "assistant", "worker", "registry"} => Subsystems \subseteq up
    /\ main = "exit" => Subsystems \subseteq up \/ ~serving
    /\ main = "waiting" /\ shutState \in {"running", "initiated"} => Subsystems \subseteq up
    /\ shutState \in {"stopping", "complete"} => ~serving

\* What the process created it knows how to remove, and it has removed the container of
\* the gateway once it is closed.
CreatedIsKnown ==
    ~excused => /\ mine \subseteq known
                /\ \A c \in Callers : shutter[c] \in {"post", "done"} => "gateway" \notin mine
                /\ main \in {"off", "exited"} => mine \subseteq {"gateway"}

OlTypes ==
    /\ main \in MainAt /\ up \subseteq Subsystems \cup {"gateway"}
    /\ oStarted \in BOOLEAN /\ oClosed \in BOOLEAN /\ serving \in BOOLEAN /\ excused \in BOOLEAN
    /\ boxes \subseteq Agents \cup {"gateway"} /\ mine \subseteq boxes
    /\ shutState \in {"running", "initiated", "stopping", "complete"}
    /\ shutter \in [Callers -> ShutAt]

\* The inductive invariant of the orchestrator's life.
OlIInv == OlTypes /\ OneShutter /\ ShutsWhenWaiting /\ UpUntilClosed /\ CreatedIsKnown /\ LadderComplete

\* The server needs two of the subsystems.
LEMMA ServerNeeds == {"bus", "sessions"} \subseteq Subsystems
<1>1. Len(Order) = 9 /\ Order[2] = "bus" /\ Order[4] = "sessions"
  BY DEF Order
<1> QED
  BY <1>1 DEF Subsystems

\* No process runs at first.
LEMMA OlInit == LifeInit => OlIInv
BY DEF LifeInit, OlIInv, OlTypes, OneShutter, ShutsWhenWaiting, UpUntilClosed, CreatedIsKnown, LadderComplete,
       MainAt, ShutAt, Agents

\* Containers are created and removed with what is known of them.
LEMMA OlBoxes ==
    ASSUME OlIInv, NEW names \in SUBSET (Agents \cup {"gateway"}),
           (Created(names) /\ UNCHANGED excused) \/ Removed(names)
    PROVE  /\ boxes' \subseteq Agents \cup {"gateway"} /\ mine' \subseteq boxes' /\ excused' \in BOOLEAN
           /\ ~excused' => ~excused /\ mine' \subseteq known'
           /\ Removed(names) /\ ~excused' => mine' = mine \ names
           /\ mine' \subseteq mine \cup names
<1>1. CASE Created(names) /\ UNCHANGED excused
  <2>1. boxes' = boxes \cup names /\ mine' = mine \cup names /\ known' = known \cup names /\ excused' = excused
    BY <1>1 DEF Created
  <2>3. Removed(names) /\ ~excused' => mine' = mine \ names
    <3> SUFFICES ASSUME Removed(names), ~excused' PROVE mine' = mine \ names
      OBVIOUS
    <3>1. PICK gone \in SUBSET (names \cap known) :
              mine' = mine \ gone /\ known' = known \ names /\ excused' = (excused \/ gone # names \cap known)
      BY DEF Removed
    <3> QED
      BY <2>1, <3>1 DEF OlIInv, CreatedIsKnown
  <2> QED
    BY <2>1, <2>3 DEF OlIInv, OlTypes, CreatedIsKnown
<1>2. CASE Removed(names)
  <2>1. PICK gone \in SUBSET (names \cap known) :
            /\ boxes' = boxes \ gone /\ mine' = mine \ gone /\ known' = known \ names
            /\ excused' = (excused \/ gone # names \cap known)
    BY <1>2 DEF Removed
  <2>2. boxes' \subseteq Agents \cup {"gateway"} /\ mine' \subseteq boxes' /\ mine' \subseteq mine \cup names
    BY <2>1 DEF OlIInv, OlTypes
  <2>3. excused' \in BOOLEAN
    BY <2>1
  <2>4. ASSUME ~excused' PROVE ~excused /\ mine' \subseteq known' /\ mine' = mine \ names
    BY <2>1, <2>4 DEF OlIInv, CreatedIsKnown
  <2> QED
    BY <2>2, <2>3, <2>4
<1> QED
  BY <1>1, <1>2

\* Bootstrap, as far as it gets, and a process that starts.
LEMMA OlBoot ==
    ASSUME OlIInv, StartProcess \/ InitializeFails \/ Initialize \/ BootstrapFails
    PROVE  OlIInv'
<1> USE DEF OlIInv, processVars, boxVars
<1>1. CASE StartProcess
  <2>1. /\ main' = "boot" /\ oStarted' = FALSE /\ oClosed' = FALSE /\ shutState' = "running"
        /\ shutter' = [c \in Callers |-> "none"] /\ mine' = {} /\ known' = {} /\ excused' = FALSE
        /\ UNCHANGED <<up, serving, boxes>> /\ main \in {"off", "exited"}
    BY <1>1 DEF StartProcess
  <2>2. up = {} /\ ~serving
    BY <2>1 DEF ShutsWhenWaiting
  <2> QED
    BY <2>1, <2>2 DEF OlTypes, OneShutter, ShutsWhenWaiting, UpUntilClosed, CreatedIsKnown, LadderComplete,
                      MainAt, ShutAt
<1>2. CASE InitializeFails
  <2>1. main = "boot" /\ main' = "failed" /\ up' = {} /\ UNCHANGED <<serving, processVars, boxVars>>
    BY <1>2 DEF InitializeFails, Ladder
  <2> QED
    BY <2>1 DEF OlTypes, OneShutter, ShutsWhenWaiting, UpUntilClosed, CreatedIsKnown, LadderComplete, MainAt
<1>3. CASE Initialize
  <2>1. /\ main = "boot" /\ oStarted' = TRUE /\ main' \in {"failed", "skills"}
        /\ Subsystems \subseteq up' /\ up' \subseteq Subsystems \cup {"gateway"}
        /\ UNCHANGED <<serving, oClosed, shutState, shutter, boots, excused>>
        /\ UNCHANGED <<boxes, mine, known>> \/ Created({"gateway"})
    BY <1>3 DEF Initialize
  <2>2. /\ boxes' \subseteq Agents \cup {"gateway"} /\ mine' \subseteq boxes' /\ excused' \in BOOLEAN
        /\ ~excused' => mine' \subseteq known'
    <3>1. CASE UNCHANGED <<boxes, mine, known>>
      BY <2>1, <3>1 DEF OlTypes, CreatedIsKnown
    <3>2. CASE Created({"gateway"})
      BY <2>1, <3>2, OlBoxes
    <3> QED
      BY <2>1, <3>1, <3>2
  <2>3. \A c \in Callers : shutter[c] = "none"
    BY <2>1 DEF ShutsWhenWaiting, OneShutter
  <2> QED
    BY <2>1, <2>2, <2>3 DEF OlTypes, OneShutter, ShutsWhenWaiting, UpUntilClosed, CreatedIsKnown, LadderComplete, MainAt
<1>4. CASE BootstrapFails
  <2>1. /\ main = "failed" /\ Removed({"gateway"}) /\ UNCHANGED <<serving, shutState, shutter, boots>>
        /\ \/ main' = "exit" /\ up' = {} /\ oStarted' = FALSE /\ oClosed' = TRUE
           \/ main' = "hung" /\ up' \subseteq up /\ UNCHANGED <<oStarted, oClosed>>
    BY <1>4 DEF BootstrapFails, Close, CloseHangs
  <2>2. /\ boxes' \subseteq Agents \cup {"gateway"} /\ mine' \subseteq boxes' /\ excused' \in BOOLEAN
        /\ ~excused' => mine' \subseteq known'
    BY <2>1, OlBoxes
  <2>3. \A c \in Callers : shutter[c] = "none"
    BY <2>1 DEF ShutsWhenWaiting, OneShutter
  <2>4. up' \subseteq up /\ (up' # {} => oStarted') /\ oStarted' \in BOOLEAN /\ oClosed' \in BOOLEAN /\ main' \in {"exit", "hung"}
    <3>1. CASE main' = "exit" /\ up' = {} /\ oStarted' = FALSE /\ oClosed' = TRUE
      BY <3>1
    <3>2. CASE main' = "hung" /\ up' \subseteq up /\ UNCHANGED <<oStarted, oClosed>>
      <4>1. up' \subseteq up /\ oStarted' = oStarted /\ oClosed' = oClosed
        BY <3>2
      <4>2. up' # {} => up # {}
        BY <4>1
      <4> QED
        BY <3>2, <4>1, <4>2 DEF LadderComplete, OlTypes
    <3> QED
      BY <2>1, <3>1, <3>2
  <2>5. shutState = "running" /\ ~serving
    BY <2>1 DEF ShutsWhenWaiting
  <2>6. OlTypes'
    BY <2>1, <2>2, <2>4 DEF OlTypes, MainAt
  <2>7. ShutsWhenWaiting' /\ UpUntilClosed' /\ LadderComplete'
    BY <2>1, <2>4, <2>5 DEF ShutsWhenWaiting, UpUntilClosed, LadderComplete
  <2>8. OneShutter' /\ CreatedIsKnown'
    BY <2>1, <2>2, <2>3, <2>4, <2>5 DEF OneShutter, CreatedIsKnown
  <2> QED
    BY <2>6, <2>7, <2>8
<1> QED
  BY <1>1, <1>2, <1>3, <1>4

\* The rest of main, with or without a shutdown.
LEMMA OlMain ==
    ASSUME OlIInv, StartService \/ (\E a \in Agents : StartAgent(a)) \/ Exit
    PROVE  OlIInv'
<1> USE DEF OlIInv, processVars, boxVars
<1>1. CASE StartService
  <2>1. /\ main \in {"skills", "grpc", "registry"} /\ main' \in {"grpc", "assistant", "waiting", "exit"}
        /\ serving' \in BOOLEAN /\ UNCHANGED <<up, processVars, boxVars>>
    BY <1>1 DEF StartService, OlTypes
  <2>2. shutState = "running" /\ Subsystems \subseteq up
    BY <2>1 DEF ShutsWhenWaiting, UpUntilClosed
  <2> QED
    BY <2>1, <2>2 DEF OlTypes, OneShutter, ShutsWhenWaiting, UpUntilClosed, CreatedIsKnown, LadderComplete, MainAt
<1>2. ASSUME NEW a \in Agents, StartAgent(a) PROVE OlIInv'
  <2>1. /\ main = a /\ main' \in {"worker", "registry", "exit"} /\ UNCHANGED <<up, serving, processVars>>
        /\ \/ Created({a}) /\ UNCHANGED excused
           \/ UNCHANGED boxVars
           \/ boxes' = boxes \cup {a} /\ mine' = mine \cup {a} /\ excused' = TRUE /\ UNCHANGED known
    BY <1>2 DEF StartAgent
  <2>2. main \in {"assistant", "worker"} /\ shutState = "running" /\ Subsystems \subseteq up
    BY <2>1 DEF Agents, ShutsWhenWaiting, UpUntilClosed
  <2>3. /\ boxes' \subseteq Agents \cup {"gateway"} /\ mine' \subseteq boxes' /\ excused' \in BOOLEAN
        /\ ~excused' => mine' \subseteq known'
    <3>1. CASE Created({a}) /\ UNCHANGED excused
      BY <3>1, OlBoxes
    <3>2. CASE UNCHANGED boxVars
      BY <3>2 DEF OlTypes, CreatedIsKnown
    <3>3. CASE boxes' = boxes \cup {a} /\ mine' = mine \cup {a} /\ excused' = TRUE /\ UNCHANGED known
      BY <3>3 DEF OlTypes
    <3> QED
      BY <2>1, <3>1, <3>2, <3>3
  <2>4. \A c \in Callers : shutter[c] = "none"
    BY <2>2 DEF OneShutter
  <2> QED
    BY <2>1, <2>2, <2>3, <2>4 DEF OlTypes, OneShutter, ShutsWhenWaiting, UpUntilClosed, CreatedIsKnown, LadderComplete, MainAt
<1>3. CASE Exit
  <2>1. /\ Removed(Agents) /\ main' = "exited" /\ up' = {} /\ serving' = FALSE
        /\ UNCHANGED processVars
    BY <1>3 DEF Exit
  <2>2. /\ boxes' \subseteq Agents \cup {"gateway"} /\ mine' \subseteq boxes' /\ excused' \in BOOLEAN
        /\ ~excused' => ~excused /\ mine' \subseteq known' /\ mine' = mine \ Agents
    BY <2>1, OlBoxes
  <2>3. ~excused' => mine' \subseteq {"gateway"} /\ mine' \subseteq mine
    BY <2>2 DEF OlTypes
  <2> QED
    BY <2>1, <2>2, <2>3 DEF OlTypes, OneShutter, ShutsWhenWaiting, UpUntilClosed, CreatedIsKnown, LadderComplete, MainAt
<1> QED
  BY <1>1, <1>2, <1>3

\* A step of the shutdown by its caller.
LEMMA OlShuts ==
    ASSUME OlIInv, NEW c \in Callers, PreShutdown(c) \/ CloseOrchestrator(c) \/ PostShutdown(c)
    PROVE  OlIInv'
<1> USE DEF OlIInv, processVars, boxVars
<1> DEFINE next == IF shutter[c] = "pre" THEN {"close"} ELSE IF shutter[c] = "close" THEN {"hung", "post"} ELSE {"done"}
<1>1. /\ main = "waiting" /\ main' = main /\ shutter[c] \in {"pre", "close", "post"}
      /\ \E at \in next : shutter' = [shutter EXCEPT ![c] = at]
      /\ shutState' = IF shutter[c] = "pre" THEN "stopping" ELSE IF shutter[c] = "close" THEN shutState ELSE "complete"
  BY DEF PreShutdown, CloseOrchestrator, PostShutdown
<1>2. /\ Removed(IF shutter[c] = "close" THEN {"gateway"} ELSE Agents)
      /\ IF shutter[c] = "close"
         THEN /\ serving' = serving /\ up' \subseteq up /\ oClosed' \in BOOLEAN
              /\ (up' = {} /\ oStarted' = FALSE) \/ oStarted' = oStarted
         ELSE serving' = FALSE /\ UNCHANGED <<up, oStarted, oClosed>>
  BY DEF PreShutdown, CloseOrchestrator, PostShutdown, ExecuteHooks, Close, CloseHangs, OlTypes
<1>3. /\ boxes' \subseteq Agents \cup {"gateway"} /\ mine' \subseteq boxes' /\ excused' \in BOOLEAN
      /\ ~excused' => /\ ~excused /\ mine' \subseteq known'
                      /\ mine' = mine \ (IF shutter[c] = "close" THEN {"gateway"} ELSE Agents)
  BY <1>2, OlBoxes
<1>4. /\ \A d \in Callers \ {c} : shutter[d] \in {"none", "refused"} /\ shutter'[d] = shutter[d]
      /\ shutter'[c] \in next
      /\ shutState = IF shutter[c] = "pre" THEN "initiated" ELSE "stopping"
  BY <1>1 DEF OneShutter, OlTypes
<1>5. OlTypes'
  BY <1>1, <1>2, <1>3 DEF OlTypes, ShutAt
<1>6. OneShutter'
  <2>1. \/ shutState' = "stopping" /\ shutter'[c] \in {"close", "hung", "post"}
        \/ shutState' = "complete" /\ shutter'[c] = "done"
    BY <1>1, <1>4
  <2>2. \A d \in Callers \ {c} : shutter'[d] \in {"none", "refused"}
    BY <1>4
  <2> QED
    BY <2>1, <2>2 DEF OneShutter
<1>7. shutState' \in {"stopping", "complete"} /\ serving' = FALSE
  BY <1>1, <1>2, <1>4 DEF UpUntilClosed, OlTypes
<1>8. ShutsWhenWaiting' /\ UpUntilClosed' /\ LadderComplete'
  BY <1>1, <1>2, <1>7 DEF ShutsWhenWaiting, UpUntilClosed, LadderComplete
<1>9. CreatedIsKnown'
  <2> SUFFICES ASSUME ~excused' PROVE /\ mine' \subseteq known'
                                      /\ \A d \in Callers : shutter'[d] \in {"post", "done"} => "gateway" \notin mine'
    BY <1>1 DEF CreatedIsKnown
  <2>1. shutter'[c] \in {"post", "done"} => "gateway" \notin mine'
    BY <1>1, <1>3, <1>4 DEF CreatedIsKnown
  <2> QED
    BY <1>3, <1>4, <2>1
<1> QED
  BY <1>5, <1>6, <1>8, <1>9

\* The other steps, and all together.
LEMMA OlNext == OlIInv /\ [LifeNext]_lifeVars => OlIInv'
<1> SUFFICES ASSUME OlIInv, [LifeNext]_lifeVars PROVE OlIInv'
  OBVIOUS
<1> USE DEF OlIInv, processVars, boxVars
<1>1. ASSUME NEW c \in Callers, Shutdown(c) PROVE OlIInv'
  <2>1. main = "waiting" /\ UNCHANGED <<main, up, oStarted, oClosed, serving, boxVars, boots>> /\ shutter[c] = "none"
    BY <1>1 DEF Shutdown
  <2>2. CASE shutState = "running"
    <3>1. shutState' = "initiated" /\ shutter' = [shutter EXCEPT ![c] = "pre"] /\ \A d \in Callers : shutter[d] = "none"
      BY <1>1, <2>2 DEF Shutdown, MayShutDown, OneShutter
    <3> QED
      BY <2>1, <2>2, <3>1 DEF OlTypes, OneShutter, ShutsWhenWaiting, UpUntilClosed, CreatedIsKnown, LadderComplete, ShutAt
  <2>3. CASE shutState # "running"
    <3>1. shutState' = shutState /\ shutter' = [shutter EXCEPT ![c] = "refused"]
      BY <1>1, <2>3 DEF Shutdown, MayShutDown
    <3>2. \A d \in Callers : shutter'[d] = IF d = c THEN "refused" ELSE shutter[d]
      BY <3>1 DEF OlTypes
    <3>3. OneShutter'
      BY <2>1, <2>3, <3>1, <3>2 DEF OneShutter
    <3> QED
      BY <2>1, <3>1, <3>2, <3>3 DEF OlTypes, ShutsWhenWaiting, UpUntilClosed, CreatedIsKnown, LadderComplete, ShutAt
  <2> QED
    BY <2>2, <2>3
<1>2. CASE KillProcess
  BY <1>2 DEF KillProcess, OlTypes, OneShutter, ShutsWhenWaiting, UpUntilClosed, CreatedIsKnown, LadderComplete, MainAt
<1>3. CASE RemoveLeftover
  BY <1>3 DEF RemoveLeftover, OlTypes, OneShutter, ShutsWhenWaiting, UpUntilClosed, CreatedIsKnown, LadderComplete
<1>4. CASE UNCHANGED lifeVars
  BY <1>4 DEF lifeVars, OlTypes, OneShutter, ShutsWhenWaiting, UpUntilClosed, CreatedIsKnown, LadderComplete
<1> QED
  BY <1>1, <1>2, <1>3, <1>4, OlBoot, OlMain, OlShuts DEF LifeNext

\* The invariant implies what is promised.
LEMMA OlSafe == OlIInv => OrchestratorLeavesNothing
<1> SUFFICES ASSUME OlIInv PROVE OrchestratorLeavesNothing
  OBVIOUS
<1> USE DEF OlIInv
<1>1. LifeTypeOK
  <2> DEFINE busy == {c \in Callers : shutter[c] \notin {"none", "refused"}}
  <2>1. busy = {} \/ \E c \in Callers : busy = {c}
    BY DEF OneShutter
  <2>2. Cardinality(busy) <= 1
    <3> HIDE DEF busy
    <3>1. CASE busy = {}
      BY <3>1, FS_EmptySet
    <3>2. ASSUME NEW c \in Callers, busy = {c} PROVE Cardinality(busy) <= 1
      <4>1. Cardinality(busy) = 1
        BY <3>2, FS_Singleton
      <4> QED
        BY <4>1
    <3> QED
      BY <2>1, <3>1, <3>2
  <2> QED
    BY <2>2 DEF OlTypes, LifeTypeOK
<1>2. ServerStopsFirst
  BY ServerNeeds DEF ServerStopsFirst, ShutsWhenWaiting, UpUntilClosed, OlTypes, MainAt
<1>3. NothingLeft
  <2> SUFFICES ASSUME main = "exited", ~excused PROVE mine \subseteq (IF shutState = "complete" THEN {} ELSE {"gateway"})
    BY DEF NothingLeft
  <2>1. shutState = "complete" => \E c \in Callers : shutter[c] = "done"
    BY DEF OneShutter
  <2> QED
    BY <2>1 DEF CreatedIsKnown
<1> QED
  BY <1>1, <1>2, <1>3 DEF OrchestratorLeavesNothing

\* Initialization that fails anywhere, and shutdowns that overlap, for any number
\* of signals and starts, leave no subsystem and no container, and the server
\* stops before what its handlers use (orchestrator.go, shutdown.go, main.go).
THEOREM OrchestratorStaysClean == LifeSpec => []OrchestratorLeavesNothing
<1>1. LifeSpec => []OlIInv
  BY OlInit, OlNext, PTL DEF LifeSpec
<1> QED
  BY <1>1, OlSafe, PTL

-----------------------------------------------------------------------------
(* The shutdown hooks of the assistant.                                    *)

\* The caller that runs the shutdown awaits a hook of the phase its state says.
RunsAHook ==
    shRunner # 0 =>
        /\ shCaller[shRunner] = "running"
        /\ shAt \in [phase : Phases, hook : Hooks]
        /\ shState = IF shAt.phase = "pre" THEN "initiated" ELSE "stopping"
        /\ shHook[shAt.phase][shAt.hook] = "running"
        /\ shFailures <= shAt.hook - 1

\* The hooks behind the awaited one have ended well, unless a failure was counted, and
\* those before it have not begun.
HooksInTurn ==
    /\ shRunner # 0 =>
          /\ \A h \in Hooks : h < shAt.hook /\ shFailures = 0 => shHook[shAt.phase][h] = "ended"
          /\ \A h \in Hooks : h > shAt.hook => shHook[shAt.phase][h] = "no"
    /\ shState \in {"running", "initiated"} => \A h \in Hooks : shHook["post"][h] = "no"
    /\ shState \in {"stopping", "complete"} => \A h \in Hooks : shHook["pre"][h] = "ended"

\* While the state says running nothing has begun, and a shutdown that left the state
\* in the middle threw.
BegunOnce ==
    /\ shState = "running" => shRunner = 0 /\ shFailures = 0 /\ \A h \in Hooks : shHook["pre"][h] = "no"
    /\ shState \in {"initiated", "stopping"} /\ shRunner = 0 => \E d \in Stoppers : shCaller[d] = "threw"
    /\ shState = "complete" =>
          /\ shRunner = 0
          /\ \A h \in Hooks : shHook["post"][h] = "ended"
          /\ \A c \in ShCallers : shCaller[c] # "waiting"

\* The inductive invariant of the shutdown.
ShIInv == ShTypeOK /\ RunsAHook /\ HooksInTurn /\ BegunOnce

\* What a step of the hooks does to a caller that awaits one of them.
HookAt(p, h, how) == [shHook EXCEPT ![p][h] = how]

\* One entry of the hooks changes.
LEMMA HookChanges ==
    ASSUME ShTypeOK, NEW p \in Phases, NEW h \in Hooks,
           NEW how \in {"no", "running", "ended", "failed", "abandoned", "late"}
    PROVE  /\ HookAt(p, h, how) \in [Phases -> [Hooks -> {"no", "running", "ended", "failed", "abandoned", "late"}]]
           /\ \A q \in Phases, k \in Hooks :
                 HookAt(p, h, how)[q][k] = IF q = p /\ k = h THEN how ELSE shHook[q][k]
BY DEF ShTypeOK, HookAt, Phases

\* Nothing has begun at first.
LEMMA ShStarts == ShInit => ShIInv
BY StoppersAssumption DEF ShInit, ShIInv, ShTypeOK, RunsAHook, HooksInTurn, BegunOnce, ShCallers, Phases

\* A shutdown begins, or is refused.
LEMMA ShBegins == ASSUME ShIInv, NEW c \in Stoppers, ShutdownBegins(c) PROVE ShIInv'
<1> USE DEF ShIInv
<1>1. /\ shCaller[c] = "no" /\ shRunner = 0 /\ UNCHANGED <<shFailures, shAborted, shPromise>>
      /\ c \in ShCallers /\ shCaller \in [ShCallers -> {"no", "running", "waiting", "returned", "threw"}]
      /\ Last \in Nat /\ 1 \in Hooks /\ Hooks = 1..Last /\ c # 0
  BY StoppersAssumption DEF ShutdownBegins, ShCallers, ShTypeOK
<1>2. CASE shState # "running"
  <2>1. shCaller' = [shCaller EXCEPT ![c] = "threw"] /\ UNCHANGED <<shState, shRunner, shAt, shHook>>
    BY <1>2 DEF ShutdownBegins
  <2>2. \A d \in ShCallers : shCaller'[d] = IF d = c THEN "threw" ELSE shCaller[d]
    BY <1>1, <2>1
  <2>3. ShTypeOK'
    BY <1>1, <2>1, <2>2 DEF ShTypeOK, ShCallers
  <2>4. RunsAHook' /\ HooksInTurn' /\ BegunOnce'
    BY <1>1, <1>2, <2>1, <2>2 DEF RunsAHook, HooksInTurn, BegunOnce
  <2> QED
    BY <2>3, <2>4
<1>3. CASE shState = "running"
  <2>1. /\ shState' = "initiated" /\ shRunner' = c /\ shCaller' = [shCaller EXCEPT ![c] = "running"]
        /\ shAt' = [phase |-> "pre", hook |-> 1] /\ shHook' = HookAt("pre", 1, "running")
    BY <1>3 DEF ShutdownBegins, HookAt
  <2>2. \A d \in ShCallers : shCaller'[d] = IF d = c THEN "running" ELSE shCaller[d]
    BY <1>1, <2>1
  <2>3. /\ shHook' \in [Phases -> [Hooks -> {"no", "running", "ended", "failed", "abandoned", "late"}]]
        /\ \A q \in Phases, k \in Hooks : shHook'[q][k] = IF q = "pre" /\ k = 1 THEN "running" ELSE shHook[q][k]
    BY <1>1, <2>1, HookChanges DEF Phases
  <2>4. \A d \in Stoppers : shCaller[d] # "running"
    BY <1>1, StoppersAssumption DEF ShTypeOK
  <2>5. shFailures = 0
    BY <1>3 DEF BegunOnce
  <2>6. ShTypeOK'
    BY <1>1, <2>1, <2>2, <2>3, <2>4 DEF ShTypeOK, ShCallers
  <2>7. RunsAHook'
    BY <1>1, <2>1, <2>2, <2>3, <2>5 DEF RunsAHook, Phases
  <2>8. \A h \in Hooks : (h > 1 => shHook'["pre"][h] = "no") /\ shHook'["post"][h] = "no"
    <3>1. \A h \in Hooks : shHook["pre"][h] = "no" /\ shHook["post"][h] = "no"
      BY <1>3 DEF HooksInTurn, BegunOnce
    <3> QED
      BY <1>1, <2>3, <3>1 DEF Phases
  <2>9. HooksInTurn'
    BY <1>1, <2>1, <2>8 DEF HooksInTurn
  <2>10. BegunOnce'
    BY <1>1, <2>1, StoppersAssumption DEF BegunOnce
  <2> QED
    BY <2>6, <2>7, <2>9, <2>10
<1> QED
  BY <1>2, <1>3

\* Callers that come meanwhile, wait and give up, and hooks that end late.
LEMMA ShWaiters ==
    ASSUME ShIInv,
           \/ \E c \in Stoppers : ShutdownJoins(c)
           \/ \E c \in Waiters : WaitCompletion(c)
           \/ \E c \in ShCallers : WaitTimesOut(c)
    PROVE  ShIInv'
<1> USE DEF ShIInv
<1>1. PICK c \in ShCallers, to \in {"returned", "waiting", "threw"} :
          /\ shCaller[c] \in {"no", "waiting"}
          /\ shCaller' = [shCaller EXCEPT ![c] = to]
          /\ to = "waiting" => shState # "complete"
          /\ UNCHANGED <<shState, shRunner, shAt, shFailures, shAborted, shHook>>
  <2>1. ASSUME NEW c \in Stoppers, ShutdownJoins(c)
        PROVE  /\ shCaller[c] = "no" /\ shState # "complete" /\ c \in ShCallers
               /\ \/ shCaller' = [shCaller EXCEPT ![c] = "waiting"]
                  \/ shCaller' = [shCaller EXCEPT ![c] = "returned"]
               /\ UNCHANGED <<shState, shRunner, shAt, shFailures, shAborted, shHook>>
    BY <2>1 DEF ShutdownJoins, BegunOnce, ShCallers
  <2>2. ASSUME NEW c \in Waiters, WaitCompletion(c)
        PROVE  /\ shCaller[c] = "no" /\ c \in ShCallers
               /\ \/ shCaller' = [shCaller EXCEPT ![c] = "waiting"] /\ shState # "complete"
                  \/ shCaller' = [shCaller EXCEPT ![c] = "returned"]
               /\ UNCHANGED <<shState, shRunner, shAt, shFailures, shAborted, shHook>>
    BY <2>2 DEF WaitCompletion, ShCallers
  <2>3. ASSUME NEW c \in ShCallers, WaitTimesOut(c)
        PROVE  /\ shCaller[c] = "waiting" /\ shCaller' = [shCaller EXCEPT ![c] = "threw"]
               /\ UNCHANGED <<shState, shRunner, shAt, shFailures, shAborted, shHook>>
    BY <2>3 DEF WaitTimesOut
  <2> QED
    BY <2>1, <2>2, <2>3
<1>2. /\ shCaller' \in [ShCallers -> {"no", "running", "waiting", "returned", "threw"}]
      /\ \A d \in ShCallers : shCaller'[d] = IF d = c THEN to ELSE shCaller[d]
  BY <1>1 DEF ShTypeOK
<1>3. shRunner # 0 => shRunner \in ShCallers /\ shRunner # c
  BY <1>1 DEF RunsAHook, ShTypeOK, ShCallers
<1>4. ShTypeOK'
  BY <1>1, <1>2, <1>3 DEF ShTypeOK, ShCallers
<1>5. RunsAHook' /\ HooksInTurn'
  BY <1>1, <1>2, <1>3 DEF RunsAHook, HooksInTurn
<1>6. BegunOnce'
  BY <1>1, <1>2 DEF BegunOnce, ShCallers
<1> QED
  BY <1>4, <1>5, <1>6

\* The awaited hook returns: what the next state is, without the hooks.
LEMMA ShReturns ==
    ASSUME ShIInv, NEW how \in {"ended", "failed", "abandoned"}, HookReturns(how)
    PROVE  ShIInv' /\ \A p \in Phases, h \in Hooks :
                        shHook[p][h] # "no" => shHook'[p][h] # "running" \/ shHook[p][h] = "running"
<1> USE DEF ShIInv
<1> DEFINE p == shAt.phase
           k == shAt.hook
           hooks == HookAt(p, k, how)
           counted == IF how = "ended" THEN shFailures ELSE shFailures + 1
           Values == {"no", "running", "ended", "failed", "abandoned", "late"}
<1>1. /\ shRunner # 0 /\ p \in Phases /\ k \in Hooks /\ shHook[p][k] = "running" /\ shCaller[shRunner] = "running"
      /\ shState = (IF p = "pre" THEN "initiated" ELSE "stopping") /\ shAborted' = shAborted
      /\ shAt = [phase |-> p, hook |-> k] /\ shFailures <= k - 1 /\ shFailures \in Nat
      /\ k \in Nat /\ k >= 1 /\ k <= Last /\ Last \in Nat /\ Hooks = 1..Last /\ 1 \in Hooks
      /\ shRunner \in Stoppers /\ shRunner \in ShCallers
      /\ shCaller \in [ShCallers -> {"no", "running", "waiting", "returned", "threw"}]
      /\ \A c \in Stoppers : shCaller[c] = "running" <=> shRunner = c
  BY StoppersAssumption DEF HookReturns, RunsAHook, ShTypeOK, ShCallers
<1>2. counted \in Nat /\ counted <= k /\ counted <= Last /\ (counted = 0 => shFailures = 0 /\ how = "ended")
  BY <1>1
<1>3. /\ hooks \in [Phases -> [Hooks -> Values]]
      /\ \A q \in Phases, h \in Hooks : hooks[q][h] = IF q = p /\ h = k THEN how ELSE shHook[q][h]
  BY <1>1, HookChanges
<1>4. /\ \A h \in Hooks : h < k /\ shFailures = 0 => shHook[p][h] = "ended"
      /\ \A h \in Hooks : h > k => shHook[p][h] = "no"
      /\ p = "pre" => \A h \in Hooks : shHook["post"][h] = "no"
      /\ p = "post" => \A h \in Hooks : shHook["pre"][h] = "ended"
  BY <1>1 DEF HooksInTurn, Phases
<1>5. \/ Throws /\ shHook' = hooks /\ shFailures' = counted
      \/ k = Last /\ GoOn(hooks, counted) /\ counted = 0
      \/ /\ k # Last /\ shAt' = [shAt EXCEPT !.hook = k + 1] /\ shFailures' = counted
         /\ shHook' = [hooks EXCEPT ![p][k + 1] = "running"]
         /\ UNCHANGED <<shState, shRunner, shPromise, shCaller>>
  BY <1>1, <1>2 DEF HookReturns, HookAt, GoOn
<1> HIDE DEF hooks, counted, p, k
<1>6. ASSUME Throws, shHook' = hooks, shFailures' = counted
      PROVE  ShIInv' /\ \A q \in Phases, h \in Hooks :
                        shHook[q][h] # "no" => shHook'[q][h] # "running" \/ shHook[q][h] = "running"
  <2>1. /\ shRunner' = 0 /\ shCaller' = [shCaller EXCEPT ![shRunner] = "threw"] /\ UNCHANGED <<shState, shPromise>>
    BY <1>6 DEF Throws
  <2>2. \A d \in ShCallers : shCaller'[d] = IF d = shRunner THEN "threw" ELSE shCaller[d]
    BY <1>1, <2>1
  <2>3. ShTypeOK'
    <3>1. \A c \in Stoppers : shCaller'[c] # "running" /\ shRunner' # c
      BY <1>1, <2>1, <2>2, StoppersAssumption DEF ShCallers
    <3>2. shCaller' \in [ShCallers -> {"no", "running", "waiting", "returned", "threw"}]
      BY <1>1, <2>1
    <3> QED
      BY <1>1, <1>2, <1>3, <1>6, <2>1, <3>1, <3>2 DEF ShTypeOK
  <2>4. RunsAHook'
    BY <2>1 DEF RunsAHook
  <2>5. HooksInTurn'
    <3>1. p = "pre" => \A h \in Hooks : shHook'["post"][h] = "no"
      BY <1>3, <1>4, <1>6 DEF Phases
    <3>2. p = "post" => \A h \in Hooks : shHook'["pre"][h] = "ended"
      BY <1>3, <1>4, <1>6 DEF Phases
    <3> QED
      BY <1>1, <2>1, <3>1, <3>2 DEF HooksInTurn, Phases
  <2>6. BegunOnce'
    BY <1>1, <2>1, <2>2 DEF BegunOnce
  <2>7. \A q \in Phases, h \in Hooks : shHook[q][h] # "no" => shHook'[q][h] # "running" \/ shHook[q][h] = "running"
    BY <1>3, <1>6
  <2> QED
    BY <2>3, <2>4, <2>5, <2>6, <2>7
<1>7. ASSUME k # Last, shAt' = [shAt EXCEPT !.hook = k + 1], shFailures' = counted,
             shHook' = [hooks EXCEPT ![p][k + 1] = "running"], UNCHANGED <<shState, shRunner, shPromise, shCaller>>
      PROVE  ShIInv' /\ \A q \in Phases, h \in Hooks :
                        shHook[q][h] # "no" => shHook'[q][h] # "running" \/ shHook[q][h] = "running"
  <2>1. k + 1 \in Hooks /\ shAt' = [phase |-> p, hook |-> k + 1]
    BY <1>1, <1>7
  <2>2. /\ shHook' \in [Phases -> [Hooks -> Values]]
        /\ \A q \in Phases, h \in Hooks : shHook'[q][h] =
              IF q = p /\ h = k + 1 THEN "running" ELSE IF q = p /\ h = k THEN how ELSE shHook[q][h]
    <3>1. /\ shHook' \in [Phases -> [Hooks -> Values]]
          /\ \A q \in Phases, h \in Hooks : shHook'[q][h] = IF q = p /\ h = k + 1 THEN "running" ELSE hooks[q][h]
      BY <1>1, <1>3, <1>7, <2>1
    <3> QED
      BY <1>3, <3>1
  <2>3. ShTypeOK'
    BY <1>1, <1>2, <1>7, <2>2 DEF ShTypeOK
  <2>4. RunsAHook'
    BY <1>1, <1>2, <1>7, <2>1, <2>2 DEF RunsAHook
  <2>5. HooksInTurn'
    <3>1. \A h \in Hooks : h < k + 1 /\ counted = 0 => shHook'[p][h] = "ended"
      <4> SUFFICES ASSUME NEW h \in Hooks, h < k + 1, counted = 0 PROVE shHook'[p][h] = "ended"
        OBVIOUS
      <4>1. CASE h = k
        <5>1. how = "ended"
          BY <1>2, <1>1
        <5>2. shHook'[p][h] = how
          BY <1>1, <2>2, <4>1
        <5> QED
          BY <5>1, <5>2
      <4>2. ASSUME h # k PROVE shHook'[p][h] = "ended"
        <5>1. h < k
          BY <1>1, <4>2, StoppersAssumption
        <5>2. shHook'[p][h] = shHook[p][h]
          BY <1>1, <2>2, <4>2, <5>1
        <5> QED
          BY <1>1, <1>2, <1>4, <5>1, <5>2
      <4> QED
        BY <4>1, <4>2
    <3>2. \A h \in Hooks : h > k + 1 => shHook'[p][h] = "no"
      BY <1>1, <1>4, <2>2
    <3>3. p = "pre" => \A h \in Hooks : shHook'["post"][h] = "no"
      BY <1>4, <2>2 DEF Phases
    <3>4. p = "post" => \A h \in Hooks : shHook'["pre"][h] = "ended"
      BY <1>4, <2>2 DEF Phases
    <3> QED
      BY <1>1, <1>7, <2>1, <3>1, <3>2, <3>3, <3>4 DEF HooksInTurn, Phases
  <2>6. BegunOnce'
    BY <1>1, <1>7 DEF BegunOnce
  <2>7. \A q \in Phases, h \in Hooks : shHook[q][h] # "no" => shHook'[q][h] # "running" \/ shHook[q][h] = "running"
    <3>1. shHook[p][k + 1] = "no"
      BY <1>1, <1>4, <2>1
    <3> QED
      BY <2>2, <3>1
  <2> QED
    BY <2>3, <2>4, <2>5, <2>6, <2>7
<1>8. ASSUME k = Last, GoOn(hooks, counted), counted = 0, p = "pre"
      PROVE  ShIInv' /\ \A q \in Phases, h \in Hooks :
                        shHook[q][h] # "no" => shHook'[q][h] # "running" \/ shHook[q][h] = "running"
  <2>1. /\ shState' = "stopping" /\ shAt' = [phase |-> "post", hook |-> 1]
        /\ shHook' = [hooks EXCEPT !["post"][1] = "running"] /\ shFailures' = 0
        /\ UNCHANGED <<shRunner, shCaller, shPromise>>
    BY <1>8 DEF GoOn, p
  <2>2. /\ shHook' \in [Phases -> [Hooks -> Values]]
        /\ \A q \in Phases, h \in Hooks : shHook'[q][h] =
              IF q = "post" /\ h = 1 THEN "running" ELSE IF q = p /\ h = k THEN how ELSE shHook[q][h]
    <3>1. /\ shHook' \in [Phases -> [Hooks -> Values]]
          /\ \A q \in Phases, h \in Hooks : shHook'[q][h] = IF q = "post" /\ h = 1 THEN "running" ELSE hooks[q][h]
      BY <1>1, <1>3, <2>1 DEF Phases
    <3> QED
      BY <1>3, <3>1
  <2>3. ShTypeOK'
    BY <1>1, <2>1, <2>2 DEF ShTypeOK
  <2>4. RunsAHook'
    BY <1>1, <2>1, <2>2 DEF RunsAHook, Phases
  <2>5. \A h \in Hooks : shHook'["pre"][h] = "ended"
    BY <1>1, <1>2, <1>4, <1>8, <2>2 DEF Phases
  <2>6. \A h \in Hooks : h > 1 => shHook'["post"][h] = "no"
    BY <1>1, <1>4, <1>8, <2>2 DEF Phases
  <2>7. HooksInTurn' /\ BegunOnce'
    BY <1>1, <2>1, <2>5, <2>6 DEF HooksInTurn, BegunOnce
  <2>8. \A q \in Phases, h \in Hooks : shHook[q][h] # "no" => shHook'[q][h] # "running" \/ shHook[q][h] = "running"
    <3>1. shHook["post"][1] = "no"
      BY <1>1, <1>4, <1>8
    <3> QED
      BY <2>2, <3>1
  <2> QED
    BY <2>3, <2>4, <2>7, <2>8
<1>9. ASSUME k = Last, GoOn(hooks, counted), counted = 0, p = "post"
      PROVE  ShIInv' /\ \A q \in Phases, h \in Hooks :
                        shHook[q][h] # "no" => shHook'[q][h] # "running" \/ shHook[q][h] = "running"
  <2>1. /\ shState' = "complete" /\ shRunner' = 0 /\ shHook' = hooks /\ shFailures' = 0
        /\ shCaller' = [c \in ShCallers |-> IF c = shRunner \/ shCaller[c] = "waiting" THEN "returned" ELSE shCaller[c]]
    BY <1>9 DEF GoOn, p
  <2>2. \A d \in ShCallers : shCaller'[d] = IF d = shRunner \/ shCaller[d] = "waiting" THEN "returned" ELSE shCaller[d]
    BY <2>1
  <2>3. ShTypeOK'
    <3>1. \A c \in Stoppers : shCaller'[c] # "running" /\ shRunner' # c
      BY <1>1, <2>1, <2>2, StoppersAssumption DEF ShCallers
    <3>2. shCaller' \in [ShCallers -> {"no", "running", "waiting", "returned", "threw"}]
      BY <1>1, <2>1
    <3>3. shHook' \in [Phases -> [Hooks -> Values]]
      BY <1>3, <2>1
    <3>4. shRunner' \in {0} \cup Stoppers /\ shFailures' \in 0..Last /\ shState' = "complete"
      BY <1>1, <2>1
    <3>5. \A c \in Stoppers : shCaller'[c] = "running" <=> shRunner' = c
      BY <3>1
    <3> QED
      BY <3>2, <3>3, <3>4, <3>5 DEF ShTypeOK
  <2>4. RunsAHook'
    BY <2>1 DEF RunsAHook
  <2>5. \A h \in Hooks : shHook'["post"][h] = "ended" /\ shHook'["pre"][h] = "ended"
    BY <1>1, <1>2, <1>3, <1>4, <1>9, <2>1 DEF Phases
  <2>6. HooksInTurn' /\ BegunOnce'
    BY <2>1, <2>2, <2>5 DEF HooksInTurn, BegunOnce
  <2>7. \A q \in Phases, h \in Hooks : shHook[q][h] # "no" => shHook'[q][h] # "running" \/ shHook[q][h] = "running"
    BY <1>3, <2>1
  <2> QED
    BY <2>3, <2>4, <2>6, <2>7
<1>10. p = "pre" \/ p = "post"
  BY <1>1 DEF Phases
<1> QED
  BY <1>5, <1>6, <1>7, <1>8, <1>9, <1>10

\* All steps together; none makes a hook run a second time.
LEMMA ShNexts ==
    ShIInv /\ [ShNext]_shVars =>
        ShIInv' /\ \A p \in Phases, h \in Hooks :
                      shHook[p][h] # "no" => shHook'[p][h] # "running" \/ shHook[p][h] = "running"
<1> SUFFICES ASSUME ShIInv, [ShNext]_shVars
             PROVE  ShIInv' /\ \A p \in Phases, h \in Hooks :
                                  shHook[p][h] # "no" => shHook'[p][h] # "running" \/ shHook[p][h] = "running"
  OBVIOUS
<1> DEFINE Once == \A p \in Phases, h \in Hooks :
                      shHook[p][h] # "no" => shHook'[p][h] # "running" \/ shHook[p][h] = "running"
<1>1. ASSUME UNCHANGED shHook PROVE Once
  BY <1>1
<1>2. ASSUME NEW c \in Stoppers, ShutdownBegins(c) PROVE Once
  <2>1. shHook' = shHook \/ (shState = "running" /\ shHook' = HookAt("pre", 1, "running"))
    BY <1>2 DEF ShutdownBegins, HookAt
  <2>2. shState = "running" => shHook["pre"][1] = "no" /\ 1 \in Hooks
    BY StoppersAssumption DEF ShIInv, BegunOnce
  <2> QED
    BY <2>1, <2>2, HookChanges DEF ShIInv, Phases
<1>3. ASSUME NEW p \in Phases, NEW h \in Hooks, StragglerEnds(p, h) PROVE ShIInv' /\ Once
  <2>1. /\ shHook[p][h] = "abandoned" /\ shHook' = HookAt(p, h, "late")
        /\ UNCHANGED <<shState, shRunner, shAt, shFailures, shAborted, shPromise, shCaller>>
    BY <1>3 DEF StragglerEnds, HookAt
  <2>2. /\ shHook' \in [Phases -> [Hooks -> {"no", "running", "ended", "failed", "abandoned", "late"}]]
        /\ \A q \in Phases, k \in Hooks : shHook'[q][k] = IF q = p /\ k = h THEN "late" ELSE shHook[q][k]
    BY <2>1, HookChanges DEF ShIInv
  <2>3. \A q \in Phases, k \in Hooks : shHook[q][k] \in {"no", "running", "ended"} => shHook'[q][k] = shHook[q][k]
    BY <2>1, <2>2
  <2>4. "pre" \in Phases /\ "post" \in Phases
    BY DEF Phases
  <2>5. ShTypeOK' /\ RunsAHook'
    BY <2>1, <2>2, <2>3 DEF ShIInv, ShTypeOK, RunsAHook
  <2>6. HooksInTurn'
    BY <2>1, <2>3, <2>4 DEF ShIInv, HooksInTurn, RunsAHook
  <2>7. BegunOnce'
    BY <2>1, <2>3, <2>4 DEF ShIInv, BegunOnce
  <2> QED
    BY <2>2, <2>5, <2>6, <2>7 DEF ShIInv
<1>4. CASE ShutdownTimesOut \/ UNCHANGED shVars
  BY <1>4 DEF ShutdownTimesOut, shVars, ShIInv, ShTypeOK, RunsAHook, HooksInTurn, BegunOnce
<1>5. CASE \/ \E c \in Stoppers : ShutdownJoins(c)
           \/ \E c \in Waiters : WaitCompletion(c)
           \/ \E c \in ShCallers : WaitTimesOut(c)
  BY <1>1, <1>5, ShWaiters DEF ShutdownJoins, WaitCompletion, WaitTimesOut
<1> QED
  BY <1>2, <1>3, <1>4, <1>5, ShBegins, ShReturns DEF ShNext

\* Hooks that fail, hang or end late, for any number of hooks and callers: a
\* shutdown begins once, is complete only when every hook ended well, and
\* releases who waits for it (shutdown.ts).
THEOREM HooksStaySafe == ShSpec => HooksSafe
<1>1. ShIInv => ShTypeOK /\ CompleteMeansHooksRan /\ WaitersAreReleased
  <2> SUFFICES ASSUME ShIInv PROVE CompleteMeansHooksRan /\ WaitersAreReleased
    BY DEF ShIInv
  <2> USE DEF ShIInv
  <2>1. shState \in {"running", "initiated", "stopping", "complete"}
    BY DEF ShTypeOK
  <2>2. CompleteMeansHooksRan
    BY <2>1 DEF HooksInTurn, BegunOnce, CompleteMeansHooksRan, Phases
  <2>3. WaitersAreReleased
    BY <2>1 DEF BegunOnce, WaitersAreReleased
  <2> QED
    BY <2>2, <2>3
<1>2. ShIInv /\ [ShNext]_shVars =>
        [\A p \in Phases, h \in Hooks :
            shHook[p][h] # "no" => shHook'[p][h] # "running" \/ shHook[p][h] = "running"]_shVars
  BY ShNexts
<1>3. ShSpec => []ShIInv
  BY ShStarts, ShNexts, PTL DEF ShSpec
<1>4. ShSpec => NoSecondRun
  BY <1>2, <1>3, PTL DEF ShSpec, NoSecondRun
<1> QED
  BY <1>1, <1>3, <1>4, PTL DEF HooksSafe

-----------------------------------------------------------------------------
(* The life of the assistant.                                              *)

\* Every variable has its type.
AlTypes ==
    /\ alAuto \in BOOLEAN /\ alGlobal \in BOOLEAN
    /\ alBoot \in {"start", "register", "agent", "ready", "cleanup", "failed"}
    /\ alProcess \in {"runs", "closing", "leaving", "unregistering", "gone"} /\ alHurried \in BOOLEAN
    /\ alSessions \in {"none", "open", "closed"} /\ alUnregs \subseteq 0..MaxAttempts
    /\ alAgent \in {"none", "made", "running", "ending", "shut"} /\ alBusy \in BOOLEAN
    /\ alRecord \in BOOLEAN /\ alAgentState \in {"idle", "terminated"} /\ alTimer \in BOOLEAN
    /\ alId \in Nat /\ alIssued \in Nat /\ alMissed \in Nat /\ alOpen \in Nat
    /\ alBeats \in [sent : Nat, flight : Nat] /\ alReconnects \in [connect : Nat, register : Nat]
    /\ alClient \in [set : BOOLEAN, connected : BOOLEAN]
    /\ lmState \in {"uninitialized", "starting", "running", "shutting_down", "terminated", "error"}
    /\ lmStep \in {"no", "busy", "agent", "wait", "registry", "unregister", "sessions"} /\ lmForce \in BOOLEAN
    /\ lmAttempts \in Nat /\ lmLate \in BOOLEAN

\* Every reconnection was begun by a heartbeat that failed, and so was every miss; a
\* client that is connected holds a channel.
BeatsAddUp ==
    /\ alId <= alIssued /\ alIssued <= MaxIssued /\ lmAttempts <= MaxAttempts
    /\ alBeats.sent <= MaxBeats
    /\ alMissed + alBeats.flight <= alBeats.sent
    /\ alReconnects.connect + alReconnects.register + alBeats.flight <= alBeats.sent
    /\ alClient.connected => alOpen > 0
    /\ ~alAuto => alReconnects.connect = 0 /\ alReconnects.register = 0

\* How far bootstrap got tells what there is, until it is ready: nobody else runs yet.
BootTells ==
    /\ alBoot # "ready" =>
          /\ alBeats.sent = 0 /\ alAgentState = "idle" /\ ~alTimer
          /\ lmState = "uninitialized" /\ alProcess \in {"runs", "gone"} /\ alUnregs = {}
    /\ alBoot = "start" => ~alRecord /\ alAgent = "none" /\ alOpen = 0 /\ ~alClient.connected
    /\ alBoot = "register" => ~alRecord /\ alAgent = "none" /\ alOpen = 1 /\ alClient.connected
    /\ alBoot = "agent" => alRecord /\ alAgent = "made" /\ alOpen = 1 /\ alClient.connected
    /\ alBoot = "cleanup" =>
          IF alRecord THEN alAgent = "shut" /\ alOpen = 1 /\ alClient.connected
          ELSE alAgent = "none" /\ alOpen = 0
    /\ alBoot = "ready" => alAgent \in {"running", "ending", "shut"}
    /\ alProcess \notin {"runs", "gone"} => alGlobal /\ alBoot = "ready" /\ alAgent \in {"ending", "shut"}
    /\ alProcess \in {"leaving", "unregistering"} /\ alAgent = "ending" => alHurried

\* How far the lifecycle manager's shutdown got, and the exit, tells what is down already.
EndTells ==
    /\ lmStep # "no" => lmState = "shutting_down"
    /\ lmState = "uninitialized" => lmStep = "no"
    /\ lmStep \in {"wait", "registry", "unregister", "sessions"} => alAgent \in {"ending", "shut"}
    /\ lmStep = "sessions" => ~alRecord
    /\ lmStep = "unregister" /\ lmAttempts \notin alUnregs => ~alRecord
    /\ alProcess = "unregistering" /\ 0 \notin alUnregs => ~alRecord
    /\ ~alAuto /\ alUnregs # {} => ~alTimer

\* Nobody is busy with an agent that does not run.
BusyRuns == alAgent \in {"none", "made", "shut"} => ~alBusy

\* The inductive invariant of the assistant's life.
AlIInv ==
    /\ AlTypes /\ BeatsAddUp /\ BootTells /\ EndTells /\ BusyRuns
    /\ FailedBootLeavesNothing /\ DeadIsSilent /\ TerminatedIsDown /\ ClosedExitIsClean

\* The process starts with nothing.
LEMMA AlStarts == AlInit => AlIInv
<1> SUFFICES ASSUME AlInit PROVE AlIInv
  OBVIOUS
<1>1. /\ alBeats \in [sent : Nat, flight : Nat] /\ alReconnects \in [connect : Nat, register : Nat]
      /\ alClient \in [set : BOOLEAN, connected : BOOLEAN]
  BY DEF AlInit, Disconnected
<1>2. AlTypes
  BY <1>1 DEF AlInit, AlTypes
<1>3. BeatsAddUp
  BY AlAssumption DEF AlInit, BeatsAddUp, Disconnected
<1>4. BootTells /\ EndTells /\ BusyRuns
  BY DEF AlInit, BootTells, EndTells, BusyRuns, Disconnected
<1>5. FailedBootLeavesNothing /\ DeadIsSilent /\ TerminatedIsDown /\ ClosedExitIsClean
  BY DEF AlInit, FailedBootLeavesNothing, DeadIsSilent, TerminatedIsDown, ClosedExitIsClean
<1> QED
  BY <1>2, <1>3, <1>4, <1>5 DEF AlIInv

\* The states a client is in, and what disconnecting and reconnecting make of it.
LEMMA ClientStates ==
    ASSUME AlTypes, BeatsAddUp
    PROVE  /\ Disconnected \in [set : BOOLEAN, connected : BOOLEAN]
           /\ \A b, c \in BOOLEAN : [set |-> b, connected |-> c] \in [set : BOOLEAN, connected : BOOLEAN]
           /\ [alClient EXCEPT !.connected = TRUE] \in [set : BOOLEAN, connected : BOOLEAN]
           /\ Disconnect \/ Reconnect \/ (UNCHANGED <<alClient, alOpen>>) =>
                 alOpen' \in Nat /\ alClient' \in [set : BOOLEAN, connected : BOOLEAN]
<1>1. /\ Disconnected \in [set : BOOLEAN, connected : BOOLEAN]
      /\ \A b, c \in BOOLEAN : [set |-> b, connected |-> c] \in [set : BOOLEAN, connected : BOOLEAN]
      /\ [alClient EXCEPT !.connected = TRUE] \in [set : BOOLEAN, connected : BOOLEAN]
  BY DEF Disconnected, AlTypes
<1>2. alOpen \in Nat /\ alClient \in [set : BOOLEAN, connected : BOOLEAN] /\ (alClient.connected => alOpen - 1 \in Nat)
  BY DEF AlTypes, BeatsAddUp
<1>3. ASSUME Disconnect PROVE alOpen' \in Nat /\ alClient' \in [set : BOOLEAN, connected : BOOLEAN]
  BY <1>1, <1>2, <1>3 DEF Disconnect
<1>4. ASSUME Reconnect PROVE alOpen' \in Nat /\ alClient' \in [set : BOOLEAN, connected : BOOLEAN]
  BY <1>1, <1>2, <1>4 DEF Reconnect
<1> QED
  BY <1>1, <1>2, <1>3, <1>4

\* Bootstrap, up to its end one way or the other.
LEMMA BootSteps ==
    ASSUME AlIInv, NEW ok \in BOOLEAN,
           BootConnect(ok) \/ BootRegister(ok) \/ BootAgent(ok) \/ BootCleanup
    PROVE  AlIInv'
<1> USE AlAssumption DEF AlIInv, bootVars, alAgentVars, recordVars, linkVars, lmVars
<1>1. CASE BootConnect(ok)
  <2>1. AlTypes'
    <3>1. alOpen' \in Nat /\ alClient' \in [set : BOOLEAN, connected : BOOLEAN]
      <4>1. alOpen + 1 \in Nat /\ alOpen \in Nat /\ alClient \in [set : BOOLEAN, connected : BOOLEAN]
        BY DEF AlTypes
      <4>2. \/ alClient' = [set |-> TRUE, connected |-> TRUE] /\ alOpen' = alOpen + 1
            \/ UNCHANGED <<alClient, alOpen>>
        BY <1>1 DEF BootConnect
      <4> QED
        BY <4>1, <4>2, ClientStates
    <3>2. alBeats' \in [sent : Nat, flight : Nat] /\ alReconnects' \in [connect : Nat, register : Nat]
      BY <1>1 DEF BootConnect, AlTypes
    <3>3. alId' \in Nat /\ alIssued' \in Nat /\ alMissed' \in Nat /\ lmAttempts' \in Nat
      BY <1>1 DEF BootConnect, AlTypes
    <3> QED
      BY <3>1, <3>2, <3>3, <1>1 DEF BootConnect, BootGoes, AlTypes
  <2>2. BeatsAddUp'
    BY <1>1 DEF BootConnect, AlTypes, BeatsAddUp
  <2>3. BootTells'
    BY <1>1 DEF BootConnect, BootGoes, BootTells
  <2>4. EndTells' /\ BusyRuns' /\ TerminatedIsDown'
    BY <1>1 DEF BootConnect, BootGoes, BootTells, EndTells, BusyRuns, TerminatedIsDown
  <2>5. FailedBootLeavesNothing' /\ DeadIsSilent' /\ ClosedExitIsClean'
    BY <1>1 DEF BootConnect, BootGoes, FailedBootLeavesNothing, DeadIsSilent, ClosedExitIsClean
  <2> QED
    BY <2>1, <2>2, <2>3, <2>4, <2>5
<1>2. CASE BootRegister(ok)
  <2>1. AlTypes'
    <3>1. alOpen' \in Nat /\ alClient' \in [set : BOOLEAN, connected : BOOLEAN]
      BY <1>2, ClientStates DEF BootRegister, AlTypes
    <3>2. alBeats' \in [sent : Nat, flight : Nat] /\ alReconnects' \in [connect : Nat, register : Nat]
      BY <1>2 DEF BootRegister, AlTypes
    <3>3. alId' \in Nat /\ alIssued' \in Nat /\ alMissed' \in Nat /\ lmAttempts' \in Nat
      BY <1>2 DEF BootRegister, AlTypes
    <3>4. /\ alBoot' \in {"start", "register", "agent", "ready", "cleanup", "failed"}
          /\ alProcess' \in {"runs", "closing", "leaving", "unregistering", "gone"}
          /\ alSessions' \in {"none", "open", "closed"} /\ alUnregs' \subseteq 0..MaxAttempts
          /\ alAgent' \in {"none", "made", "running", "ending", "shut"}
      BY <1>2 DEF BootRegister, BootGoes, AlTypes, BootTells
    <3>5. /\ {alAuto', alGlobal', alHurried', alBusy', alRecord', alTimer', lmForce', lmLate'} \subseteq BOOLEAN
          /\ alAgentState' \in {"idle", "terminated"}
      BY <1>2 DEF BootRegister, BootGoes, AlTypes, BootTells
    <3>6. /\ lmState' \in {"uninitialized", "starting", "running", "shutting_down", "terminated", "error"}
          /\ lmStep' \in {"no", "busy", "agent", "wait", "registry", "unregister", "sessions"}
      BY <1>2 DEF BootRegister, BootGoes, AlTypes, BootTells
    <3> QED
      BY <3>1, <3>2, <3>3, <3>4, <3>5, <3>6 DEF AlTypes
  <2>2. BeatsAddUp'
    BY <1>2 DEF BootRegister, Disconnect, AlTypes, BeatsAddUp, Disconnected
  <2>3. BootTells'
    BY <1>2 DEF BootRegister, BootGoes, Disconnect, BootTells
  <2>4. EndTells' /\ BusyRuns' /\ TerminatedIsDown'
    BY <1>2 DEF BootRegister, BootGoes, BootTells, EndTells, BusyRuns, TerminatedIsDown
  <2>5. FailedBootLeavesNothing' /\ DeadIsSilent' /\ ClosedExitIsClean'
    BY <1>2 DEF BootRegister, BootGoes, FailedBootLeavesNothing, DeadIsSilent, ClosedExitIsClean
  <2> QED
    BY <2>1, <2>2, <2>3, <2>4, <2>5
<1>3. CASE BootAgent(ok)
  <2>1. AlTypes'
    BY <1>3 DEF BootAgent, BootGoes, AlTypes
  <2>2. BeatsAddUp'
    BY <1>3 DEF BootAgent, BootGoes, AlTypes, BeatsAddUp, BootTells
  <2>3. BootTells'
    BY <1>3 DEF BootAgent, BootGoes, BootTells
  <2>4. EndTells' /\ BusyRuns' /\ TerminatedIsDown'
    BY <1>3 DEF BootAgent, BootGoes, BootTells, EndTells, BusyRuns, TerminatedIsDown
  <2>5. FailedBootLeavesNothing' /\ DeadIsSilent' /\ ClosedExitIsClean'
    BY <1>3 DEF BootAgent, BootGoes, Alive, BootTells, FailedBootLeavesNothing, DeadIsSilent, ClosedExitIsClean
  <2> QED
    BY <2>1, <2>2, <2>3, <2>4, <2>5
<1>4. CASE BootCleanup
  <2>1. AlTypes'
    <3>1. alOpen' \in Nat /\ alClient' \in [set : BOOLEAN, connected : BOOLEAN]
      BY <1>4, ClientStates DEF BootCleanup, AlTypes
    <3>2. alBeats' \in [sent : Nat, flight : Nat] /\ alReconnects' \in [connect : Nat, register : Nat]
      BY <1>4 DEF BootCleanup, AlTypes
    <3>3. alId' \in Nat /\ alIssued' \in Nat /\ alMissed' \in Nat /\ lmAttempts' \in Nat
      BY <1>4 DEF BootCleanup, AlTypes
    <3>4. /\ alBoot' \in {"start", "register", "agent", "ready", "cleanup", "failed"}
          /\ alProcess' \in {"runs", "closing", "leaving", "unregistering", "gone"}
          /\ alSessions' \in {"none", "open", "closed"} /\ alUnregs' \subseteq 0..MaxAttempts
          /\ alAgent' \in {"none", "made", "running", "ending", "shut"}
      BY <1>4 DEF BootCleanup, BootGoes, AlTypes, BootTells
    <3>5. /\ {alAuto', alGlobal', alHurried', alBusy', alRecord', alTimer', lmForce', lmLate'} \subseteq BOOLEAN
          /\ alAgentState' \in {"idle", "terminated"}
      BY <1>4 DEF BootCleanup, BootGoes, AlTypes, BootTells
    <3>6. /\ lmState' \in {"uninitialized", "starting", "running", "shutting_down", "terminated", "error"}
          /\ lmStep' \in {"no", "busy", "agent", "wait", "registry", "unregister", "sessions"}
      BY <1>4 DEF BootCleanup, BootGoes, AlTypes, BootTells
    <3> QED
      BY <3>1, <3>2, <3>3, <3>4, <3>5, <3>6 DEF AlTypes
  <2>2. BeatsAddUp'
    BY <1>4 DEF BootCleanup, Disconnect, BeatsAddUp, Disconnected
  <2>3. BootTells'
    BY <1>4 DEF BootCleanup, BootGoes, BootTells
  <2>4. EndTells' /\ BusyRuns' /\ TerminatedIsDown'
    BY <1>4 DEF BootCleanup, EndTells, BusyRuns, TerminatedIsDown
  <2>5. FailedBootLeavesNothing' /\ DeadIsSilent' /\ ClosedExitIsClean'
    BY <1>4 DEF BootCleanup, BootGoes, Disconnect, BootTells, FailedBootLeavesNothing, DeadIsSilent, ClosedExitIsClean
  <2> QED
    BY <2>1, <2>2, <2>3, <2>4, <2>5
<1> QED
  BY <1>1, <1>2, <1>3, <1>4

\* Messages and heartbeats, and the reconnections that they begin.
LEMMA BeatSteps ==
    ASSUME AlIInv,
           \/ AgentWorks \/ SendHeartbeat \/ HeartbeatAnswered \/ HeartbeatFails
           \/ ReconnectFails \/ ReconnectReady \/ ReconnectRegistered \/ ReconnectRefused
    PROVE  AlIInv'
<1> USE AlAssumption DEF AlIInv, bootVars, alAgentVars, recordVars, linkVars, lmVars
<1>1. CASE AgentWorks
  <2>1. AlTypes'
    BY <1>1 DEF AgentWorks, AlTypes
  <2>2. BeatsAddUp'
    BY <1>1 DEF AgentWorks, BeatsAddUp
  <2>3. BootTells'
    BY <1>1 DEF AgentWorks, BootTells
  <2>4. EndTells' /\ BusyRuns' /\ TerminatedIsDown'
    BY <1>1 DEF AgentWorks, EndTells, BusyRuns, TerminatedIsDown
  <2>5. FailedBootLeavesNothing' /\ DeadIsSilent' /\ ClosedExitIsClean'
    BY <1>1 DEF AgentWorks, FailedBootLeavesNothing, DeadIsSilent, ClosedExitIsClean
  <2> QED
    BY <2>1, <2>2, <2>3, <2>4, <2>5
<1>2. CASE SendHeartbeat
  <2>1. AlTypes'
    BY <1>2 DEF SendHeartbeat, AlTypes
  <2>2. BeatsAddUp'
    BY <1>2 DEF SendHeartbeat, AlTypes, BeatsAddUp
  <2>3. BootTells'
    BY <1>2 DEF SendHeartbeat, BootTells
  <2>4. EndTells' /\ BusyRuns' /\ TerminatedIsDown'
    BY <1>2 DEF SendHeartbeat, EndTells, BusyRuns, TerminatedIsDown
  <2>5. FailedBootLeavesNothing' /\ DeadIsSilent' /\ ClosedExitIsClean'
    BY <1>2 DEF SendHeartbeat, FailedBootLeavesNothing, DeadIsSilent, ClosedExitIsClean
  <2> QED
    BY <2>1, <2>2, <2>3, <2>4, <2>5
<1>3. CASE HeartbeatAnswered
  <2>1. AlTypes'
    BY <1>3 DEF HeartbeatAnswered, AlTypes
  <2>2. BeatsAddUp'
    BY <1>3 DEF HeartbeatAnswered, AlTypes, BeatsAddUp
  <2>3. BootTells'
    BY <1>3 DEF HeartbeatAnswered, BootTells
  <2>4. EndTells' /\ BusyRuns' /\ TerminatedIsDown'
    BY <1>3 DEF HeartbeatAnswered, EndTells, BusyRuns, TerminatedIsDown
  <2>5. FailedBootLeavesNothing' /\ DeadIsSilent' /\ ClosedExitIsClean'
    BY <1>3 DEF HeartbeatAnswered, FailedBootLeavesNothing, DeadIsSilent, ClosedExitIsClean
  <2> QED
    BY <2>1, <2>2, <2>3, <2>4, <2>5
<1>4. CASE HeartbeatFails
  <2>1. AlTypes'
    <3>1. alOpen' \in Nat /\ alClient' \in [set : BOOLEAN, connected : BOOLEAN]
      BY <1>4, ClientStates DEF HeartbeatFails, AlTypes
    <3>2. alBeats' \in [sent : Nat, flight : Nat] /\ alReconnects' \in [connect : Nat, register : Nat]
      BY <1>4 DEF HeartbeatFails, Reconnect, AlTypes
    <3>3. alId' \in Nat /\ alIssued' \in Nat /\ alMissed' \in Nat /\ lmAttempts' \in Nat
      BY <1>4 DEF HeartbeatFails, AlTypes
    <3>4. alAgentState' \in {"idle", "terminated"} /\ alTimer' \in BOOLEAN
      BY <1>4 DEF HeartbeatFails, AlTypes
    <3>5. UNCHANGED <<bootVars, alAgentVars, alRecord, alId, alIssued, alUnregs, lmVars>>
      BY <1>4 DEF HeartbeatFails
    <3> QED
      BY <3>1, <3>2, <3>3, <3>4, <3>5 DEF AlTypes
  <2>2. BeatsAddUp'
    BY <1>4 DEF HeartbeatFails, Reconnect, AlTypes, BeatsAddUp
  <2>3. BootTells'
    BY <1>4 DEF HeartbeatFails, AlTypes, BeatsAddUp, BootTells
  <2>4. EndTells' /\ BusyRuns' /\ TerminatedIsDown'
    BY <1>4 DEF HeartbeatFails, EndTells, BusyRuns, TerminatedIsDown
  <2>5. FailedBootLeavesNothing' /\ DeadIsSilent' /\ ClosedExitIsClean'
    BY <1>4 DEF HeartbeatFails, FailedBootLeavesNothing, DeadIsSilent, ClosedExitIsClean
  <2> QED
    BY <2>1, <2>2, <2>3, <2>4, <2>5
<1>5. CASE ReconnectFails
  <2>1. AlTypes'
    BY <1>5 DEF ReconnectFails, Disconnected, AlTypes
  <2>2. BeatsAddUp'
    BY <1>5 DEF ReconnectFails, Disconnected, AlTypes, BeatsAddUp
  <2>3. BootTells'
    BY <1>5 DEF ReconnectFails, AlTypes, BeatsAddUp, BootTells
  <2>4. EndTells' /\ BusyRuns' /\ TerminatedIsDown'
    BY <1>5 DEF ReconnectFails, EndTells, BusyRuns, TerminatedIsDown
  <2>5. FailedBootLeavesNothing' /\ DeadIsSilent' /\ ClosedExitIsClean'
    BY <1>5 DEF ReconnectFails, BeatsAddUp, FailedBootLeavesNothing, DeadIsSilent, ClosedExitIsClean
  <2> QED
    BY <2>1, <2>2, <2>3, <2>4, <2>5
<1>6. CASE ReconnectReady
  <2>1. AlTypes'
    <3>1. alOpen' \in Nat /\ alClient' \in [set : BOOLEAN, connected : BOOLEAN]
      BY <1>6, ClientStates DEF ReconnectReady, AlTypes
    <3>2. alBeats' \in [sent : Nat, flight : Nat] /\ alReconnects' \in [connect : Nat, register : Nat]
      BY <1>6 DEF ReconnectReady, AlTypes
    <3>3. alId' \in Nat /\ alIssued' \in Nat /\ alMissed' \in Nat /\ lmAttempts' \in Nat
      BY <1>6 DEF ReconnectReady, AlTypes
    <3> QED
      BY <3>1, <3>2, <3>3, <1>6 DEF ReconnectReady, AlTypes
  <2>2. BeatsAddUp'
    BY <1>6 DEF ReconnectReady, AlTypes, BeatsAddUp
  <2>3. BootTells'
    BY <1>6 DEF ReconnectReady, AlTypes, BeatsAddUp, BootTells
  <2>4. EndTells' /\ BusyRuns' /\ TerminatedIsDown'
    BY <1>6 DEF ReconnectReady, EndTells, BusyRuns, TerminatedIsDown
  <2>5. FailedBootLeavesNothing' /\ DeadIsSilent' /\ ClosedExitIsClean'
    BY <1>6 DEF ReconnectReady, AlTypes, BeatsAddUp, BootTells, FailedBootLeavesNothing, DeadIsSilent, ClosedExitIsClean
  <2> QED
    BY <2>1, <2>2, <2>3, <2>4, <2>5
<1>7. CASE ReconnectRegistered
  <2>0. alAuto
    BY <1>7 DEF ReconnectRegistered, AlTypes, BeatsAddUp
  <2>1. AlTypes'
    BY <1>7 DEF ReconnectRegistered, AlTypes
  <2>2. BeatsAddUp'
    BY <1>7 DEF ReconnectRegistered, AlTypes, BeatsAddUp
  <2>3. BootTells'
    BY <1>7 DEF ReconnectRegistered, AlTypes, BeatsAddUp, BootTells
  <2>4. EndTells' /\ BusyRuns' /\ TerminatedIsDown'
    BY <1>7, <2>0 DEF ReconnectRegistered, EndTells, BusyRuns, TerminatedIsDown
  <2>5. FailedBootLeavesNothing' /\ DeadIsSilent' /\ ClosedExitIsClean'
    <3>1. (~alRecord /\ ~alTimer => ~alTimer') /\ UNCHANGED <<bootVars, alAgentVars, alRecord, alOpen>>
      BY <1>7 DEF ReconnectRegistered
    <3> QED
      BY <2>0, <3>1 DEF FailedBootLeavesNothing, DeadIsSilent, ClosedExitIsClean
  <2> QED
    BY <2>1, <2>2, <2>3, <2>4, <2>5
<1>8. CASE ReconnectRefused
  <2>1. AlTypes'
    BY <1>8 DEF ReconnectRefused, AlTypes
  <2>2. BeatsAddUp'
    BY <1>8 DEF ReconnectRefused, AlTypes, BeatsAddUp
  <2>3. BootTells'
    BY <1>8 DEF ReconnectRefused, AlTypes, BeatsAddUp, BootTells
  <2>4. EndTells' /\ BusyRuns' /\ TerminatedIsDown'
    BY <1>8 DEF ReconnectRefused, EndTells, BusyRuns, TerminatedIsDown
  <2>5. FailedBootLeavesNothing' /\ DeadIsSilent' /\ ClosedExitIsClean'
    BY <1>8 DEF ReconnectRefused, BeatsAddUp, FailedBootLeavesNothing, DeadIsSilent, ClosedExitIsClean
  <2> QED
    BY <2>1, <2>2, <2>3, <2>4, <2>5
<1> QED
  BY <1>1, <1>2, <1>3, <1>4, <1>5, <1>6, <1>7, <1>8

\* What the first half of unregister leaves: the timer is off, and who does not wait
\* for the answer has dropped the record.
LEMMA UnregisterTypes ==
    ASSUME AlTypes, BeatsAddUp, NEW u \in 0..MaxAttempts,
           BeginUnregister(u) \/ UNCHANGED <<alRecord, alTimer, alUnregs>>
    PROVE  /\ alRecord' \in BOOLEAN /\ alTimer' \in BOOLEAN /\ alUnregs' \subseteq 0..MaxAttempts
           /\ alRecord' => alRecord
           /\ alTimer' => alTimer
<1>1. alRecord \in BOOLEAN /\ alTimer \in BOOLEAN /\ alUnregs \subseteq 0..MaxAttempts /\ alClient.connected \in BOOLEAN
  BY DEF AlTypes
<1>2. CASE BeginUnregister(u)
  BY <1>1, <1>2 DEF BeginUnregister
<1>3. CASE UNCHANGED <<alRecord, alTimer, alUnregs>>
  BY <1>1, <1>3
<1> QED
  BY <1>2, <1>3

\* Signals, the answers to unregister, and the exit after the agent has shut down.
LEMMA SignalSteps ==
    ASSUME AlIInv, NEW u \in 0..MaxAttempts,
           Signal \/ AgentShut \/ UnregisterEnds(u) \/ ExitUnregisters \/ ExitClosed
    PROVE  AlIInv'
<1> USE AlAssumption DEF AlIInv, bootVars, alAgentVars, recordVars, linkVars, lmVars
<1>1. CASE Signal
  <2>1. AlTypes'
    BY <1>1 DEF Signal, AlTypes
  <2>2. BeatsAddUp'
    BY <1>1 DEF Signal, BeatsAddUp
  <2>3. BootTells'
    BY <1>1 DEF Signal, BootTells
  <2>4. EndTells' /\ BusyRuns' /\ TerminatedIsDown'
    BY <1>1 DEF Signal, BootTells, EndTells, BusyRuns, TerminatedIsDown
  <2>5. FailedBootLeavesNothing' /\ DeadIsSilent' /\ ClosedExitIsClean'
    BY <1>1 DEF Signal, BootTells, EndTells, BusyRuns, FailedBootLeavesNothing, DeadIsSilent, ClosedExitIsClean
  <2> QED
    BY <2>1, <2>2, <2>3, <2>4, <2>5
<1>2. CASE AgentShut
  <2>1. AlTypes'
    BY <1>2 DEF AgentShut, AlTypes
  <2>2. BeatsAddUp'
    BY <1>2 DEF AgentShut, BeatsAddUp
  <2>3. BootTells'
    BY <1>2 DEF AgentShut, BootTells
  <2>4. EndTells' /\ BusyRuns' /\ TerminatedIsDown'
    BY <1>2 DEF AgentShut, BootTells, EndTells, BusyRuns, TerminatedIsDown
  <2>5. FailedBootLeavesNothing' /\ DeadIsSilent' /\ ClosedExitIsClean'
    BY <1>2 DEF AgentShut, BootTells, EndTells, BusyRuns, FailedBootLeavesNothing, DeadIsSilent, ClosedExitIsClean
  <2> QED
    BY <2>1, <2>2, <2>3, <2>4, <2>5
<1>3. CASE UnregisterEnds(u)
  <2>1. AlTypes'
    <3>1. alOpen' \in Nat /\ alClient' \in [set : BOOLEAN, connected : BOOLEAN]
      BY <1>3, ClientStates DEF UnregisterEnds, AlTypes
    <3>2. alBeats' \in [sent : Nat, flight : Nat] /\ alReconnects' \in [connect : Nat, register : Nat]
      BY <1>3 DEF UnregisterEnds, AlTypes
    <3>3. alId' \in Nat /\ alIssued' \in Nat /\ alMissed' \in Nat /\ lmAttempts' \in Nat
      BY <1>3 DEF UnregisterEnds, AlTypes
    <3>4. /\ alBoot' \in {"start", "register", "agent", "ready", "cleanup", "failed"}
          /\ alProcess' \in {"runs", "closing", "leaving", "unregistering", "gone"}
          /\ alSessions' \in {"none", "open", "closed"}
          /\ alAgent' \in {"none", "made", "running", "ending", "shut"}
      BY <1>3 DEF UnregisterEnds, AlTypes
    <3>5. /\ {alAuto', alGlobal', alHurried', alBusy', alRecord', alTimer', lmForce', lmLate'} \subseteq BOOLEAN
          /\ alAgentState' \in {"idle", "terminated"}
      BY <1>3, UnregisterTypes DEF UnregisterEnds, AlTypes
    <3>6. /\ lmState' \in {"uninitialized", "starting", "running", "shutting_down", "terminated", "error"}
          /\ lmStep' \in {"no", "busy", "agent", "wait", "registry", "unregister", "sessions"}
      BY <1>3 DEF UnregisterEnds, AlTypes
    <3>7. alUnregs' \subseteq 0..MaxAttempts
      BY <1>3, UnregisterTypes DEF UnregisterEnds, AlTypes, BeatsAddUp
    <3> QED
      BY <3>1, <3>2, <3>3, <3>4, <3>5, <3>6, <3>7 DEF AlTypes
  <2>2. BeatsAddUp'
    BY <1>3 DEF UnregisterEnds, Disconnect, Disconnected, BeatsAddUp
  <2>3. BootTells'
    BY <1>3 DEF UnregisterEnds, Alive, BootTells, EndTells
  <2>4. EndTells' /\ BusyRuns' /\ TerminatedIsDown'
    BY <1>3 DEF UnregisterEnds, BootTells, EndTells, BusyRuns, TerminatedIsDown
  <2>5. FailedBootLeavesNothing' /\ DeadIsSilent' /\ ClosedExitIsClean'
    BY <1>3 DEF UnregisterEnds, Alive, BootTells, EndTells, BusyRuns, FailedBootLeavesNothing, DeadIsSilent, ClosedExitIsClean
  <2> QED
    BY <2>1, <2>2, <2>3, <2>4, <2>5
<1>4. CASE ExitUnregisters
  <2>1. AlTypes'
    <3>1. alOpen' \in Nat /\ alClient' \in [set : BOOLEAN, connected : BOOLEAN]
      BY <1>4, ClientStates DEF ExitUnregisters, BeginUnregister, AlTypes
    <3>2. alBeats' \in [sent : Nat, flight : Nat] /\ alReconnects' \in [connect : Nat, register : Nat]
      BY <1>4 DEF ExitUnregisters, BeginUnregister, AlTypes
    <3>3. alId' \in Nat /\ alIssued' \in Nat /\ alMissed' \in Nat /\ lmAttempts' \in Nat
      BY <1>4 DEF ExitUnregisters, BeginUnregister, AlTypes
    <3>4. /\ alBoot' \in {"start", "register", "agent", "ready", "cleanup", "failed"}
          /\ alProcess' \in {"runs", "closing", "leaving", "unregistering", "gone"}
          /\ alSessions' \in {"none", "open", "closed"}
          /\ alAgent' \in {"none", "made", "running", "ending", "shut"}
      BY <1>4 DEF ExitUnregisters, BeginUnregister, AlTypes
    <3>5. /\ {alAuto', alGlobal', alHurried', alBusy', alRecord', alTimer', lmForce', lmLate'} \subseteq BOOLEAN
          /\ alAgentState' \in {"idle", "terminated"}
      BY <1>4, UnregisterTypes DEF ExitUnregisters, BeginUnregister, AlTypes
    <3>6. /\ lmState' \in {"uninitialized", "starting", "running", "shutting_down", "terminated", "error"}
          /\ lmStep' \in {"no", "busy", "agent", "wait", "registry", "unregister", "sessions"}
      BY <1>4 DEF ExitUnregisters, BeginUnregister, AlTypes
    <3>7. alUnregs' \subseteq 0..MaxAttempts
      <4>1. 0 \in 0..MaxAttempts
        OBVIOUS
      <4> QED
        BY <4>1, <1>4, UnregisterTypes DEF ExitUnregisters
    <3> QED
      BY <3>1, <3>2, <3>3, <3>4, <3>5, <3>6, <3>7 DEF AlTypes
  <2>2. BeatsAddUp'
    BY <1>4 DEF ExitUnregisters, BeginUnregister, Disconnect, Disconnected, BeatsAddUp
  <2>3. BootTells'
    BY <1>4 DEF ExitUnregisters, BeginUnregister, Alive, BootTells, EndTells
  <2>4. EndTells' /\ BusyRuns' /\ TerminatedIsDown'
    BY <1>4 DEF ExitUnregisters, BeginUnregister, BootTells, EndTells, BusyRuns, TerminatedIsDown
  <2>5. FailedBootLeavesNothing' /\ DeadIsSilent' /\ ClosedExitIsClean'
    BY <1>4 DEF ExitUnregisters, BeginUnregister, Alive, BootTells, EndTells, BusyRuns, FailedBootLeavesNothing, DeadIsSilent, ClosedExitIsClean
  <2> QED
    BY <2>1, <2>2, <2>3, <2>4, <2>5
<1>5. CASE ExitClosed
  <2>1. AlTypes'
    BY <1>5 DEF ExitClosed, AlTypes
  <2>2. BeatsAddUp'
    BY <1>5 DEF ExitClosed, BeatsAddUp
  <2>3. BootTells'
    BY <1>5 DEF ExitClosed, BootTells
  <2>4. EndTells' /\ BusyRuns' /\ TerminatedIsDown'
    BY <1>5 DEF ExitClosed, BootTells, EndTells, BusyRuns, TerminatedIsDown
  <2>5. FailedBootLeavesNothing' /\ DeadIsSilent' /\ ClosedExitIsClean'
    BY <1>5 DEF ExitClosed, BootTells, EndTells, BusyRuns, FailedBootLeavesNothing, DeadIsSilent, ClosedExitIsClean
  <2> QED
    BY <2>1, <2>2, <2>3, <2>4, <2>5
<1> QED
  BY <1>1, <1>2, <1>3, <1>4, <1>5

\* The lifecycle manager.
LEMMA LifecycleSteps ==
    ASSUME AlIInv, NEW ok \in BOOLEAN,
           \/ BeginLifecycleEnd(ok) \/ StartLifecycle \/ CheckLifecycle \/ WaitedTooLong
           \/ EndAgent \/ AgentEnded \/ StepTimesOut \/ EndRegistration \/ RegistrationEnded
           \/ RegistrationTimesOut \/ EndSessions
    PROVE  AlIInv'
<1> USE AlAssumption DEF AlIInv, bootVars, alAgentVars, recordVars, linkVars, lmVars
<1>1. CASE BeginLifecycleEnd(ok)
  <2>1. AlTypes'
    <3>1. alOpen' \in Nat /\ alClient' \in [set : BOOLEAN, connected : BOOLEAN]
      BY <1>1 DEF BeginLifecycleEnd, AlTypes
    <3>2. alBeats' \in [sent : Nat, flight : Nat] /\ alReconnects' \in [connect : Nat, register : Nat]
      BY <1>1 DEF BeginLifecycleEnd, AlTypes
    <3>3. alId' \in Nat /\ alIssued' \in Nat /\ alMissed' \in Nat /\ lmAttempts' \in Nat
      BY <1>1 DEF BeginLifecycleEnd, AlTypes
    <3>4. /\ alBoot' \in {"start", "register", "agent", "ready", "cleanup", "failed"}
          /\ alProcess' \in {"runs", "closing", "leaving", "unregistering", "gone"}
          /\ alSessions' \in {"none", "open", "closed"} /\ alUnregs' \subseteq 0..MaxAttempts
          /\ alAgent' \in {"none", "made", "running", "ending", "shut"}
      BY <1>1 DEF BeginLifecycleEnd, AlTypes, BootTells
    <3>5. /\ {alAuto', alGlobal', alHurried', alBusy', alRecord', alTimer', lmForce', lmLate'} \subseteq BOOLEAN
          /\ alAgentState' \in {"idle", "terminated"}
      BY <1>1 DEF BeginLifecycleEnd, AlTypes, BootTells
    <3>6. /\ lmState' \in {"uninitialized", "starting", "running", "shutting_down", "terminated", "error"}
          /\ lmStep' \in {"no", "busy", "agent", "wait", "registry", "unregister", "sessions"}
      BY <1>1 DEF BeginLifecycleEnd, AlTypes, BootTells
    <3> QED
      BY <3>1, <3>2, <3>3, <3>4, <3>5, <3>6 DEF AlTypes
  <2>2. BeatsAddUp'
    BY <1>1 DEF BeginLifecycleEnd, AlTypes, BeatsAddUp
  <2>3. BootTells'
    BY <1>1 DEF BeginLifecycleEnd, BootTells
  <2>4. EndTells' /\ BusyRuns' /\ TerminatedIsDown'
    BY <1>1 DEF BeginLifecycleEnd, EndTells, BusyRuns, TerminatedIsDown
  <2>5. FailedBootLeavesNothing' /\ DeadIsSilent' /\ ClosedExitIsClean'
    BY <1>1 DEF BeginLifecycleEnd, FailedBootLeavesNothing, DeadIsSilent, ClosedExitIsClean
  <2> QED
    BY <2>1, <2>2, <2>3, <2>4, <2>5
<1>2. CASE StartLifecycle
  <2>1. AlTypes'
    BY <1>2 DEF StartLifecycle, AlTypes
  <2>2. BeatsAddUp'
    BY <1>2 DEF StartLifecycle, BeatsAddUp
  <2>3. BootTells'
    BY <1>2 DEF StartLifecycle, BootTells
  <2>4. EndTells' /\ BusyRuns' /\ TerminatedIsDown'
    BY <1>2 DEF StartLifecycle, EndTells, BusyRuns, TerminatedIsDown
  <2>5. FailedBootLeavesNothing' /\ DeadIsSilent' /\ ClosedExitIsClean'
    BY <1>2 DEF StartLifecycle, FailedBootLeavesNothing, DeadIsSilent, ClosedExitIsClean
  <2> QED
    BY <2>1, <2>2, <2>3, <2>4, <2>5
<1>3. CASE CheckLifecycle
  <2>1. AlTypes'
    BY <1>3 DEF CheckLifecycle, AlTypes
  <2>2. BeatsAddUp'
    BY <1>3 DEF CheckLifecycle, BeatsAddUp
  <2>3. BootTells'
    BY <1>3 DEF CheckLifecycle, BootTells
  <2>4. EndTells' /\ BusyRuns' /\ TerminatedIsDown'
    BY <1>3 DEF CheckLifecycle, EndTells, BusyRuns, TerminatedIsDown
  <2>5. FailedBootLeavesNothing' /\ DeadIsSilent' /\ ClosedExitIsClean'
    BY <1>3 DEF CheckLifecycle, FailedBootLeavesNothing, DeadIsSilent, ClosedExitIsClean
  <2> QED
    BY <2>1, <2>2, <2>3, <2>4, <2>5
<1>4. CASE WaitedTooLong
  <2>1. AlTypes'
    BY <1>4 DEF WaitedTooLong, LifecycleGoes, AlTypes
  <2>2. BeatsAddUp'
    BY <1>4 DEF WaitedTooLong, LifecycleGoes, BeatsAddUp
  <2>3. BootTells'
    BY <1>4 DEF WaitedTooLong, LifecycleGoes, BootTells, EndTells
  <2>4. EndTells' /\ BusyRuns' /\ TerminatedIsDown'
    BY <1>4 DEF WaitedTooLong, LifecycleGoes, EndTells, BusyRuns, TerminatedIsDown
  <2>5. FailedBootLeavesNothing' /\ DeadIsSilent' /\ ClosedExitIsClean'
    BY <1>4 DEF WaitedTooLong, LifecycleGoes, FailedBootLeavesNothing, DeadIsSilent, ClosedExitIsClean
  <2> QED
    BY <2>1, <2>2, <2>3, <2>4, <2>5
<1>5. CASE EndAgent
  <2>1. AlTypes'
    BY <1>5 DEF EndAgent, LifecycleGoes, AlTypes
  <2>2. BeatsAddUp'
    BY <1>5 DEF EndAgent, LifecycleGoes, BeatsAddUp
  <2>3. BootTells'
    BY <1>5 DEF EndAgent, LifecycleGoes, BootTells
  <2>4. EndTells' /\ BusyRuns' /\ TerminatedIsDown'
    BY <1>5 DEF EndAgent, LifecycleGoes, BootTells, EndTells, BusyRuns, TerminatedIsDown
  <2>5. FailedBootLeavesNothing' /\ DeadIsSilent' /\ ClosedExitIsClean'
    BY <1>5 DEF EndAgent, LifecycleGoes, FailedBootLeavesNothing, DeadIsSilent, ClosedExitIsClean
  <2> QED
    BY <2>1, <2>2, <2>3, <2>4, <2>5
<1>6. CASE AgentEnded
  <2>1. AlTypes'
    BY <1>6 DEF AgentEnded, LifecycleGoes, AlTypes
  <2>2. BeatsAddUp'
    BY <1>6 DEF AgentEnded, LifecycleGoes, BeatsAddUp
  <2>3. BootTells'
    BY <1>6 DEF AgentEnded, LifecycleGoes, BootTells
  <2>4. EndTells' /\ BusyRuns' /\ TerminatedIsDown'
    BY <1>6 DEF AgentEnded, LifecycleGoes, EndTells, BusyRuns, TerminatedIsDown
  <2>5. FailedBootLeavesNothing' /\ DeadIsSilent' /\ ClosedExitIsClean'
    BY <1>6 DEF AgentEnded, LifecycleGoes, FailedBootLeavesNothing, DeadIsSilent, ClosedExitIsClean
  <2> QED
    BY <2>1, <2>2, <2>3, <2>4, <2>5
<1>7. CASE StepTimesOut
  <2>1. AlTypes'
    BY <1>7 DEF StepTimesOut, LifecycleGoes, AlTypes
  <2>2. BeatsAddUp'
    BY <1>7 DEF StepTimesOut, LifecycleGoes, BeatsAddUp
  <2>3. BootTells'
    BY <1>7 DEF StepTimesOut, LifecycleGoes, BootTells, EndTells
  <2>4. EndTells' /\ BusyRuns' /\ TerminatedIsDown'
    BY <1>7 DEF StepTimesOut, LifecycleGoes, EndTells, BusyRuns, TerminatedIsDown
  <2>5. FailedBootLeavesNothing' /\ DeadIsSilent' /\ ClosedExitIsClean'
    BY <1>7 DEF StepTimesOut, LifecycleGoes, FailedBootLeavesNothing, DeadIsSilent, ClosedExitIsClean
  <2> QED
    BY <2>1, <2>2, <2>3, <2>4, <2>5
<1>8. CASE EndRegistration
  <2>1. AlTypes'
    <3>1. alOpen' \in Nat /\ alClient' \in [set : BOOLEAN, connected : BOOLEAN]
      BY <1>8, ClientStates DEF EndRegistration, LifecycleGoes, BeginUnregister, AlTypes
    <3>2. alBeats' \in [sent : Nat, flight : Nat] /\ alReconnects' \in [connect : Nat, register : Nat]
      BY <1>8 DEF EndRegistration, LifecycleGoes, BeginUnregister, AlTypes
    <3>3. alId' \in Nat /\ alIssued' \in Nat /\ alMissed' \in Nat /\ lmAttempts' \in Nat
      BY <1>8 DEF EndRegistration, LifecycleGoes, BeginUnregister, AlTypes
    <3>4. /\ alBoot' \in {"start", "register", "agent", "ready", "cleanup", "failed"}
          /\ alProcess' \in {"runs", "closing", "leaving", "unregistering", "gone"}
          /\ alSessions' \in {"none", "open", "closed"}
          /\ alAgent' \in {"none", "made", "running", "ending", "shut"}
      BY <1>8 DEF EndRegistration, LifecycleGoes, BeginUnregister, AlTypes
    <3>5. /\ {alAuto', alGlobal', alHurried', alBusy', alRecord', alTimer', lmForce', lmLate'} \subseteq BOOLEAN
          /\ alAgentState' \in {"idle", "terminated"}
      BY <1>8, UnregisterTypes DEF EndRegistration, LifecycleGoes, BeginUnregister, AlTypes
    <3>6. /\ lmState' \in {"uninitialized", "starting", "running", "shutting_down", "terminated", "error"}
          /\ lmStep' \in {"no", "busy", "agent", "wait", "registry", "unregister", "sessions"}
      BY <1>8 DEF EndRegistration, LifecycleGoes, BeginUnregister, AlTypes
    <3>7. alUnregs' \subseteq 0..MaxAttempts
      <4>1. lmAttempts \in 0..MaxAttempts
        BY DEF AlTypes, BeatsAddUp
      <4> QED
        BY <4>1, <1>8, UnregisterTypes DEF EndRegistration
    <3> QED
      BY <3>1, <3>2, <3>3, <3>4, <3>5, <3>6, <3>7 DEF AlTypes
  <2>2. BeatsAddUp'
    BY <1>8 DEF EndRegistration, LifecycleGoes, BeginUnregister, Disconnect, Disconnected, BeatsAddUp
  <2>3. BootTells'
    BY <1>8 DEF EndRegistration, LifecycleGoes, BeginUnregister, Alive, BootTells, EndTells
  <2>4. EndTells' /\ BusyRuns' /\ TerminatedIsDown'
    BY <1>8 DEF EndRegistration, LifecycleGoes, BeginUnregister, BootTells, EndTells, BusyRuns, TerminatedIsDown
  <2>5. FailedBootLeavesNothing' /\ DeadIsSilent' /\ ClosedExitIsClean'
    BY <1>8 DEF EndRegistration, LifecycleGoes, BeginUnregister, Alive, BootTells, EndTells, BusyRuns, FailedBootLeavesNothing, DeadIsSilent, ClosedExitIsClean
  <2> QED
    BY <2>1, <2>2, <2>3, <2>4, <2>5
<1>9. CASE EndSessions
  <2>1. AlTypes'
    BY <1>9 DEF EndSessions, LifecycleGoes, AlTypes
  <2>2. BeatsAddUp'
    BY <1>9 DEF EndSessions, LifecycleGoes, BeatsAddUp
  <2>3. BootTells'
    BY <1>9 DEF EndSessions, LifecycleGoes, BootTells, EndTells
  <2>4. EndTells' /\ BusyRuns' /\ TerminatedIsDown'
    BY <1>9 DEF EndSessions, LifecycleGoes, EndTells, BusyRuns, TerminatedIsDown
  <2>5. FailedBootLeavesNothing' /\ DeadIsSilent' /\ ClosedExitIsClean'
    BY <1>9 DEF EndSessions, LifecycleGoes, FailedBootLeavesNothing, DeadIsSilent, ClosedExitIsClean
  <2> QED
    BY <2>1, <2>2, <2>3, <2>4, <2>5
<1>10. CASE RegistrationEnded
  <2>1. AlTypes'
    BY <1>10 DEF RegistrationEnded, LifecycleGoes, AlTypes
  <2>2. BeatsAddUp'
    BY <1>10 DEF RegistrationEnded, LifecycleGoes, BeatsAddUp
  <2>3. BootTells'
    BY <1>10 DEF RegistrationEnded, LifecycleGoes, BootTells
  <2>4. EndTells' /\ BusyRuns' /\ TerminatedIsDown'
    BY <1>10 DEF RegistrationEnded, LifecycleGoes, BootTells, EndTells, BusyRuns, TerminatedIsDown
  <2>5. FailedBootLeavesNothing' /\ DeadIsSilent' /\ ClosedExitIsClean'
    BY <1>10 DEF RegistrationEnded, LifecycleGoes, BootTells, EndTells, BusyRuns, FailedBootLeavesNothing, DeadIsSilent, ClosedExitIsClean
  <2> QED
    BY <2>1, <2>2, <2>3, <2>4, <2>5
<1>11. CASE RegistrationTimesOut
  <2>1. AlTypes'
    BY <1>11 DEF RegistrationTimesOut, LifecycleGoes, AlTypes
  <2>2. BeatsAddUp'
    BY <1>11 DEF RegistrationTimesOut, LifecycleGoes, BeatsAddUp
  <2>3. BootTells'
    BY <1>11 DEF RegistrationTimesOut, LifecycleGoes, BootTells, EndTells
  <2>4. EndTells' /\ BusyRuns' /\ TerminatedIsDown'
    BY <1>11 DEF RegistrationTimesOut, LifecycleGoes, BootTells, EndTells, BusyRuns, TerminatedIsDown
  <2>5. FailedBootLeavesNothing' /\ DeadIsSilent' /\ ClosedExitIsClean'
    BY <1>11 DEF RegistrationTimesOut, LifecycleGoes, BootTells, EndTells, BusyRuns, FailedBootLeavesNothing, DeadIsSilent, ClosedExitIsClean
  <2> QED
    BY <2>1, <2>2, <2>3, <2>4, <2>5
<1> QED
  BY <1>1, <1>2, <1>3, <1>4, <1>5, <1>6, <1>7, <1>8, <1>9, <1>10, <1>11

\* Every step keeps the invariant.
LEMMA AlSteps == AlIInv /\ [AlNext]_alVars => AlIInv'
<1> SUFFICES ASSUME AlIInv, [AlNext]_alVars PROVE AlIInv'
  OBVIOUS
<1>1. CASE UNCHANGED alVars
  <2> USE <1>1 DEF alVars, bootVars, alAgentVars, recordVars, linkVars, lmVars, AlIInv
  <2>1. AlTypes' /\ BeatsAddUp'
    BY DEF AlTypes, BeatsAddUp
  <2>2. BootTells' /\ EndTells' /\ BusyRuns'
    BY DEF BootTells, EndTells, BusyRuns
  <2>3. FailedBootLeavesNothing' /\ DeadIsSilent' /\ TerminatedIsDown' /\ ClosedExitIsClean'
    BY DEF FailedBootLeavesNothing, DeadIsSilent, TerminatedIsDown, ClosedExitIsClean
  <2> QED
    BY <2>1, <2>2, <2>3
<1>2. ASSUME NEW ok \in BOOLEAN, BootConnect(ok) \/ BootRegister(ok) \/ BootAgent(ok) \/ BeginLifecycleEnd(ok)
      PROVE  AlIInv'
  BY <1>2, BootSteps, LifecycleSteps
<1>3. ASSUME NEW u \in 0..MaxAttempts, UnregisterEnds(u) PROVE AlIInv'
  BY <1>3, SignalSteps
<1>4. CASE Signal \/ AgentShut \/ ExitUnregisters \/ ExitClosed
  <2>1. 0 \in 0..MaxAttempts
    BY AlAssumption
  <2> QED
    BY <1>4, <2>1, SignalSteps
<1>5. CASE \/ BootCleanup \/ AgentWorks \/ SendHeartbeat \/ HeartbeatAnswered \/ HeartbeatFails
           \/ ReconnectFails \/ ReconnectReady \/ ReconnectRegistered \/ ReconnectRefused
  BY <1>5, BootSteps, BeatSteps
<1>6. CASE \/ StartLifecycle \/ CheckLifecycle \/ WaitedTooLong \/ EndAgent \/ AgentEnded \/ StepTimesOut
           \/ EndRegistration \/ RegistrationEnded \/ RegistrationTimesOut \/ EndSessions
  BY <1>6, LifecycleSteps
<1> QED
  BY <1>1, <1>2, <1>3, <1>4, <1>5, <1>6 DEF AlNext

\* The invariant implies what the run checks.
LEMMA AlPromises == AlIInv => AssistantLeavesCleanly
<1> SUFFICES ASSUME AlIInv PROVE AlTypeOK
  BY DEF AssistantLeavesCleanly, AlIInv
<1> QED
  BY AlAssumption DEF AlIInv, AlTypes, BeatsAddUp, AlTypeOK

\* However the process of the assistant fails to start, gives up, restarts its agent or
\* ends, for any number of heartbeats, registrations and shutdowns, what it made is gone
\* (bootstrap.ts, registration.ts, lifecycle.ts).
THEOREM AssistantStaysClean == AlSpec => []AssistantLeavesCleanly
<1>1. AlIInv /\ [AlNext]_alVars => AlIInv'
  BY AlSteps
<1> QED
  BY AlStarts, AlPromises, <1>1, PTL DEF AlSpec

-----------------------------------------------------------------------------
(* The terminal user interface: Update, its commands, and the link.        *)

\* What the commands do; the last three are the one that ends the program.
Closing == {"close session", "close client", "complete"}
CmdStates == {"dial", "create", "created", "open", "opened", "send", "read", "received",
              "list", "listed", "unlisted", "failed"} \cup Closing

\* Commands, and those that are at a point.
Cmds == [at : CmdStates, session : Nat, stream : Nat, ids : SUBSET Nat]
CmdsAt(at) == {i \in DOMAIN tuCmds : tuCmds[i].at = at}

\* What the type invariant says, and the types it rests on.
LinkTypes ==
    /\ tuLink \in BOOLEAN /\ tuClosed \in BOOLEAN /\ tuDialed \in Nat
    /\ tuKeys \in [texts : Nat, answers : Nat, losses : Nat, retries : 0..MaxControls]

\* A stream as the client sees it.
Streams == [session : Nat, in : Seq({"answer", "error"}), broken : BOOLEAN, sent : BOOLEAN]

StreamTypes ==
    /\ tuSessions \in Seq({"open", "closed"}) /\ tuStreams \in Seq(Streams)
    /\ \A s \in 1..Len(tuStreams) : tuStreams[s].session \in 1..Len(tuSessions)

ModelTypes ==
    /\ tuSession \in 0..Len(tuSessions) /\ tuStream \in 0..Len(tuStreams)
    /\ tuStatus \in {"connecting", "connected", "error"}
    /\ tuItems \in [ids : SUBSET Nat, active : Nat]
    /\ tuQuit \in {"no", "quitting", "shut down", "interrupted"}

CmdTypes ==
    /\ IsFiniteSet(DOMAIN tuCmds)
    /\ tuCmds \in [DOMAIN tuCmds -> Cmds]
    /\ \A i \in DOMAIN tuCmds : tuCmds[i].stream \in 0..Len(tuStreams) /\ tuCmds[i].session \in 0..Len(tuSessions)

\* The bounds: what a key starts is one command, and a command leaves at most one.
Room == (IF tuStream = 0 THEN 1 ELSE 0) + tuKeys.texts + tuKeys.retries + (IF tuQuit = "quitting" THEN 1 ELSE 0)
CmdCounts ==
    /\ Cardinality(DOMAIN tuCmds) <= Room
    /\ tuDialed + Cardinality(CmdsAt("dial")) <= tuKeys.retries + 1
    /\ Len(tuSessions) + Cardinality(CmdsAt("create")) <= tuDialed

\* A session that was only created has no stream, nobody writes to a stream that
\* was only opened, and what is read or sent is on a stream.
CmdsRight ==
    \A i \in DOMAIN tuCmds :
        /\ tuCmds[i].at \in {"created", "open"} =>
             tuCmds[i].session # 0 /\ \A s \in 1..Len(tuStreams) : tuStreams[s].session # tuCmds[i].session
        /\ tuCmds[i].at = "opened" =>
             tuCmds[i].stream # 0 /\ tuCmds[i].stream # tuStream /\ ~tuStreams[tuCmds[i].stream].sent
        /\ tuCmds[i].at \in {"read", "received"} => tuCmds[i].stream # 0
        /\ tuCmds[i].at \in {"send", "read", "received"} /\ tuCmds[i].stream # 0 => tuStream # 0

\* No two commands have the same new session, or the same new stream.
CmdsApart ==
    \A i, j \in DOMAIN tuCmds : i # j =>
        /\ tuCmds[i].at \in {"created", "open"} /\ tuCmds[j].at \in {"created", "open"} =>
             tuCmds[i].session # tuCmds[j].session
        /\ tuCmds[i].at = "opened" => tuCmds[j].stream # tuCmds[i].stream
        /\ tuCmds[i].at \in Closing => tuCmds[j].at \notin Closing

\* The session is closed unless the link failed.
Settled == tuSession # 0 /\ tuSessions[tuSession] = "open" => tuKeys.losses > 0

\* The command that ends the program works on the session in use.
ClosingRight ==
    \A i \in DOMAIN tuCmds :
        /\ tuCmds[i].at \in Closing => tuQuit = "quitting"
        /\ tuCmds[i].at = "close session" => tuCmds[i].session = tuSession /\ ~tuClosed
        /\ tuCmds[i].at = "close client" => Settled
        /\ tuCmds[i].at = "complete" => tuClosed /\ Settled

\* The client is open until the program ends, and connected unless the link failed.
LinkRight ==
    /\ tuQuit = "no" => ~tuClosed
    /\ tuDialed > 0 /\ tuKeys.losses = 0 /\ ~tuClosed => tuLink

\* The inductive invariant.
TuIInv ==
    /\ LinkTypes /\ StreamTypes /\ ModelTypes /\ CmdTypes /\ CmdCounts
    /\ CmdsRight /\ CmdsApart /\ ClosingRight /\ LinkRight
    /\ SomeoneListens /\ QuitIsUnderway /\ ActiveIsCurrent

\* i is a command that does this.
Was(i, at) == i \in DOMAIN tuCmds /\ tuCmds[i].at = at

\* A command is put in the place of i under the number k, or starts (i = k is new).
Put(i, k, c) ==
    /\ IsFiniteSet(DOMAIN tuCmds') /\ tuCmds' \in [DOMAIN tuCmds' -> Cmds]
    /\ DOMAIN tuCmds' = (DOMAIN tuCmds \ {i}) \cup {k} /\ k \notin DOMAIN tuCmds \ {i}
    /\ tuCmds'[k] = c /\ \A j \in DOMAIN tuCmds \ {i} : tuCmds'[j] = tuCmds[j]
    /\ Cardinality(DOMAIN tuCmds') = Cardinality(DOMAIN tuCmds) + (IF i \in DOMAIN tuCmds THEN 0 ELSE 1)
    /\ \A at \in {"dial", "create"} :
         Cardinality(CmdsAt(at))' = Cardinality(CmdsAt(at)) - (IF Was(i, at) THEN 1 ELSE 0) + (IF c.at = at THEN 1 ELSE 0)

\* Command i is gone.
Gone(i) ==
    /\ IsFiniteSet(DOMAIN tuCmds') /\ tuCmds' \in [DOMAIN tuCmds' -> Cmds]
    /\ DOMAIN tuCmds' = DOMAIN tuCmds \ {i} /\ \A j \in DOMAIN tuCmds \ {i} : tuCmds'[j] = tuCmds[j]
    /\ Cardinality(DOMAIN tuCmds') = Cardinality(DOMAIN tuCmds) - 1
    /\ \A at \in {"dial", "create"} :
         Cardinality(CmdsAt(at))' = Cardinality(CmdsAt(at)) - (IF Was(i, at) THEN 1 ELSE 0)

\* The number With gives a command is free: more numbers are tried than are taken.
LEMMA FreeNumberIsFree ==
    ASSUME NEW cmds, IsFiniteSet(DOMAIN cmds)
    PROVE  FreeNumber(cmds) \notin DOMAIN cmds
<1> DEFINE n == Cardinality(DOMAIN cmds)
<1>1. n \in Nat
  BY FS_CardinalityType
<1>2. IsFiniteSet(1..n + 1) /\ Cardinality(1..n + 1) = n + 1
  BY <1>1, FS_Interval
<1>3. \E k \in 1..n + 1 : k \notin DOMAIN cmds
  <2>1. 1..n + 1 \subseteq DOMAIN cmds => n + 1 <= n
    BY <1>2, FS_Subset
  <2> QED
    BY <1>1, <2>1
<1> QED
  BY <1>3 DEF FreeNumber

\* Sets of commands are finite.
LEMMA CmdsFinite ==
    ASSUME CmdTypes
    PROVE  /\ Cardinality(DOMAIN tuCmds) \in Nat
           /\ \A at : IsFiniteSet(CmdsAt(at)) /\ Cardinality(CmdsAt(at)) \in Nat
<1>1. \A at : CmdsAt(at) \subseteq DOMAIN tuCmds
  BY DEF CmdsAt
<1> QED
  BY <1>1, FS_Subset, FS_CardinalityType DEF CmdTypes

\* A command is taken.
LEMMA GoneOne ==
    ASSUME CmdTypes, NEW i \in DOMAIN tuCmds, tuCmds' = Took(i)
    PROVE  Gone(i)
<1>1. /\ DOMAIN tuCmds' = DOMAIN tuCmds \ {i} /\ tuCmds' \in [DOMAIN tuCmds' -> Cmds]
      /\ \A j \in DOMAIN tuCmds \ {i} : tuCmds'[j] = tuCmds[j]
  BY DEF Took, CmdTypes
<1>2. IsFiniteSet(DOMAIN tuCmds') /\ Cardinality(DOMAIN tuCmds') = Cardinality(DOMAIN tuCmds) - 1
  BY <1>1, FS_RemoveElement DEF CmdTypes
<1>3. ASSUME NEW at
      PROVE  Cardinality(CmdsAt(at))' = Cardinality(CmdsAt(at)) - (IF i \in CmdsAt(at) THEN 1 ELSE 0)
  <2>1. CmdsAt(at)' = CmdsAt(at) \ {i}
    BY <1>1 DEF CmdsAt
  <2>2. IsFiniteSet(CmdsAt(at)) /\ Cardinality(CmdsAt(at)) \in Nat
    BY CmdsFinite
  <2>3. CASE i \in CmdsAt(at)
    BY <2>1, <2>2, <2>3, FS_RemoveElement
  <2>4. CASE i \notin CmdsAt(at)
    <3>1. CmdsAt(at)' = CmdsAt(at)
      BY <2>1, <2>4
    <3> QED
      BY <2>2, <2>4, <3>1
  <2> QED
    BY <2>3, <2>4
<1>4. \A at : i \in CmdsAt(at) <=> Was(i, at)
  BY DEF CmdsAt, Was
<1> QED
  BY <1>1, <1>2, <1>3, <1>4 DEF Gone

\* A command takes another's place, or starts.
LEMMA PutOne ==
    ASSUME CmdTypes, NEW i, NEW c \in Cmds, NEW k, k \notin DOMAIN tuCmds \ {i},
           tuCmds' = [j \in (DOMAIN tuCmds \ {i}) \cup {k} |-> IF j = k THEN c ELSE tuCmds[j]]
    PROVE  Put(i, k, c)
<1> DEFINE rest == DOMAIN tuCmds \ {i}
<1>1. /\ DOMAIN tuCmds' = rest \cup {k} /\ tuCmds' \in [DOMAIN tuCmds' -> Cmds]
      /\ tuCmds'[k] = c /\ \A j \in rest : tuCmds'[j] = tuCmds[j]
  BY DEF CmdTypes
<1>2. Cardinality(DOMAIN tuCmds) \in Nat /\ IsFiniteSet(DOMAIN tuCmds)
  BY CmdsFinite DEF CmdTypes
<1>3. /\ IsFiniteSet(rest)
      /\ Cardinality(rest) = Cardinality(DOMAIN tuCmds) - (IF i \in DOMAIN tuCmds THEN 1 ELSE 0)
  <2>1. CASE i \in DOMAIN tuCmds
    BY <1>2, <2>1, FS_RemoveElement
  <2>2. CASE i \notin DOMAIN tuCmds
    <3>1. rest = DOMAIN tuCmds
      BY <2>2
    <3> QED
      BY <1>2, <2>2, <3>1
  <2> QED
    BY <2>1, <2>2
<1>4. IsFiniteSet(DOMAIN tuCmds') /\ Cardinality(DOMAIN tuCmds') = Cardinality(rest) + 1
  BY <1>1, <1>3, FS_AddElement
<1>5. ASSUME NEW at
      PROVE  Cardinality(CmdsAt(at))' = Cardinality(CmdsAt(at)) - (IF i \in CmdsAt(at) THEN 1 ELSE 0)
                                                               + (IF c.at = at THEN 1 ELSE 0)
  <2> DEFINE others == CmdsAt(at) \ {i}
  <2>1. CmdsAt(at)' = others \cup (IF c.at = at THEN {k} ELSE {})
    BY <1>1 DEF CmdsAt
  <2>2. IsFiniteSet(CmdsAt(at)) /\ Cardinality(CmdsAt(at)) \in Nat
    BY CmdsFinite
  <2>3. /\ IsFiniteSet(others) /\ Cardinality(others) \in Nat
        /\ Cardinality(others) = Cardinality(CmdsAt(at)) - (IF i \in CmdsAt(at) THEN 1 ELSE 0)
    <3>1. CASE i \in CmdsAt(at)
      BY <2>2, <3>1, FS_RemoveElement, FS_CardinalityType
    <3>2. CASE i \notin CmdsAt(at)
      <4>1. others = CmdsAt(at)
        BY <3>2
      <4> QED
        BY <2>2, <3>2, <4>1
    <3> QED
      BY <3>1, <3>2
  <2>4. k \notin others
    BY DEF CmdsAt
  <2> HIDE DEF others
  <2>5. CASE c.at = at
    <3>1. Cardinality(others \cup {k}) = Cardinality(others) + 1
      BY <2>3, <2>4, FS_AddElement
    <3> QED
      BY <2>1, <2>2, <2>3, <2>5, <3>1
  <2>6. CASE c.at # at
    <3>1. CmdsAt(at)' = others
      BY <2>1, <2>6
    <3> QED
      BY <2>2, <2>3, <2>6, <3>1
  <2> QED
    BY <2>5, <2>6
<1>6. \A at : i \in CmdsAt(at) <=> Was(i, at)
  BY DEF CmdsAt, Was
<1> QED
  BY <1>1, <1>2, <1>3, <1>4, <1>5, <1>6 DEF Put

\* The three ways in which a step puts a command.
LEMMA PutReplaced ==
    ASSUME CmdTypes, NEW i \in DOMAIN tuCmds, NEW c \in Cmds, tuCmds' = [tuCmds EXCEPT ![i] = c]
    PROVE  Put(i, i, c)
<1>1. tuCmds' = [j \in (DOMAIN tuCmds \ {i}) \cup {i} |-> IF j = i THEN c ELSE tuCmds[j]]
  BY DEF CmdTypes
<1> QED
  BY <1>1, PutOne

\* A command that is started has a number of its own, and the others stay.
LEMMA PutStarted ==
    ASSUME CmdTypes, NEW c \in Cmds, tuCmds' = With(tuCmds, c)
    PROVE  \E k : Put(k, k, c) /\ k \notin DOMAIN tuCmds
<1> DEFINE k == FreeNumber(tuCmds)
<1>1. k \notin DOMAIN tuCmds
  BY FreeNumberIsFree DEF CmdTypes
<1>2. tuCmds' = [j \in (DOMAIN tuCmds \ {k}) \cup {k} |-> IF j = k THEN c ELSE tuCmds[j]]
  BY <1>1 DEF With
<1> QED
  BY <1>1, <1>2, PutOne

\* A command that is started in the place of a message taken by Update.
LEMMA PutTaken ==
    ASSUME CmdTypes, NEW i \in DOMAIN tuCmds, NEW c \in Cmds, tuCmds' = With(Took(i), c)
    PROVE  \E k : Put(i, k, c)
<1> DEFINE k == FreeNumber(Took(i))
<1>1. DOMAIN Took(i) = DOMAIN tuCmds \ {i} /\ \A j \in DOMAIN tuCmds \ {i} : Took(i)[j] = tuCmds[j]
  BY DEF Took
<1>2. IsFiniteSet(DOMAIN Took(i))
  BY <1>1, FS_Subset DEF CmdTypes
<1>3. k \notin DOMAIN Took(i)
  BY <1>2, FreeNumberIsFree
<1>4. tuCmds' = [j \in (DOMAIN tuCmds \ {i}) \cup {k} |-> IF j = k THEN c ELSE tuCmds[j]]
  BY <1>1, <1>3 DEF With
<1> QED
  BY <1>1, <1>3, <1>4, PutOne

\* A command goes on: only what it does changes.
LEMMA GoesOn ==
    ASSUME CmdTypes, NEW i \in DOMAIN tuCmds, NEW at \in CmdStates, CmdGoes(i, at)
    PROVE  \E c \in Cmds : /\ Put(i, i, c) /\ c.at = at
                           /\ c.session = tuCmds[i].session /\ c.stream = tuCmds[i].stream
<1>1. tuCmds[i] \in Cmds
  BY DEF CmdTypes
<1>2. PICK d : d = [tuCmds[i] EXCEPT !.at = at]
  OBVIOUS
<1>3. d \in Cmds /\ d.at = at /\ d.session = tuCmds[i].session /\ d.stream = tuCmds[i].stream
  BY <1>1, <1>2 DEF Cmds
<1>4. tuCmds' = [tuCmds EXCEPT ![i] = d]
  BY <1>2 DEF CmdGoes
<1>5. Put(i, i, d)
  BY <1>3, <1>4, PutReplaced
<1> QED
  BY <1>3, <1>5

-----------------------------------------------------------------------------
(* The steps.                                                              *)

\* The program starts with one dial.
LEMMA TuInitIInv == TuInit => TuIInv
<1> SUFFICES ASSUME TuInit PROVE TuIInv
  OBVIOUS
<1>1. tuCmds = [i \in {1} |-> [at |-> "dial", session |-> 0, stream |-> 0, ids |-> {}]]
  BY DEF TuInit, TuCmd
<1>2. DOMAIN tuCmds = {1} /\ CmdsAt("dial") = {1} /\ CmdsAt("create") = {}
  BY <1>1 DEF CmdsAt
<1>3. IsFiniteSet({1}) /\ Cardinality({1}) = 1 /\ Cardinality({}) = 0
  BY FS_Singleton, FS_EmptySet
<1>4. /\ tuKeys.texts = 0 /\ tuKeys.retries = 0 /\ tuKeys.losses = 0
      /\ tuKeys \in [texts : Nat, answers : Nat, losses : Nat, retries : 0..MaxControls]
  <2>1. 0 \in 0..MaxControls
    BY TuAssumption
  <2> QED
    BY <2>1 DEF TuInit
<1>5. /\ tuSessions = << >> /\ Len(tuSessions) = 0 /\ tuStreams = << >> /\ Len(tuStreams) = 0
      /\ tuSessions \in Seq({"open", "closed"}) /\ tuStreams \in Seq(Streams)
  BY DEF TuInit
<1>6. /\ ~tuLink /\ tuLink \in BOOLEAN /\ ~tuClosed /\ tuClosed \in BOOLEAN /\ tuDialed = 0
      /\ tuSession = 0 /\ tuStream = 0 /\ tuStatus = "connecting" /\ tuQuit = "no"
      /\ tuItems.active = 0 /\ tuItems \in [ids : SUBSET Nat, active : Nat]
  BY DEF TuInit
<1>7. LinkTypes /\ LinkRight
  BY <1>4, <1>6 DEF LinkTypes, LinkRight
<1>8. StreamTypes
  BY <1>5 DEF StreamTypes
<1>9. ModelTypes
  BY <1>5, <1>6 DEF ModelTypes
<1>10. CmdTypes
  BY <1>1, <1>2, <1>3, <1>5 DEF CmdTypes, Cmds, CmdStates
<1>11. CmdCounts
  <2>1. Cardinality(DOMAIN tuCmds) = 1
    BY <1>2, <1>3
  <2>2. Cardinality(CmdsAt("dial")) = 1
    BY <1>2, <1>3
  <2>3. Cardinality(CmdsAt("create")) = 0
    BY <1>2, <1>3
  <2> QED
    BY <1>4, <1>5, <1>6, <2>1, <2>2, <2>3 DEF CmdCounts, Room
<1>12. \A i \in DOMAIN tuCmds : i = 1 /\ tuCmds[i].at = "dial"
  BY <1>1
<1>13. CmdsRight
  BY <1>12 DEF CmdsRight
<1>14. CmdsApart
  BY <1>12 DEF CmdsApart
<1>15. ClosingRight
  BY <1>12 DEF ClosingRight, Closing
<1>16. SomeoneListens /\ QuitIsUnderway /\ ActiveIsCurrent
  BY <1>6 DEF SomeoneListens, QuitIsUnderway, ActiveIsCurrent
<1> QED
  BY <1>7, <1>8, <1>9, <1>10, <1>11, <1>13, <1>14, <1>15, <1>16 DEF TuIInv

\* One stream changes.
LEMMA StreamReplaced ==
    ASSUME StreamTypes, NEW s \in 1..Len(tuStreams), NEW e \in Streams, tuStreams' = [tuStreams EXCEPT ![s] = e]
    PROVE  /\ tuStreams' \in Seq(Streams) /\ Len(tuStreams') = Len(tuStreams)
           /\ \A r \in 1..Len(tuStreams) : tuStreams'[r] = IF r = s THEN e ELSE tuStreams[r]
<1>1. tuStreams \in Seq(Streams)
  BY DEF StreamTypes
<1> QED
  BY <1>1, ExceptSeq

\* The sessions and the streams are sequences.
LEMMA StreamsTyped ==
    ASSUME StreamTypes
    PROVE  /\ Len(tuStreams) \in Nat /\ DOMAIN tuStreams = 1..Len(tuStreams)
           /\ \A s \in 1..Len(tuStreams) : tuStreams[s] \in Streams
           /\ Len(tuSessions) \in Nat /\ DOMAIN tuSessions = 1..Len(tuSessions)
<1>1. tuStreams \in Seq(Streams) /\ tuSessions \in Seq({"open", "closed"})
  BY DEF StreamTypes
<1> QED
  BY <1>1, LenProperties, ElementOfSeq

\* What a broken link leaves of the streams.
LEMMA BrokenStreams ==
    ASSUME StreamTypes
    PROVE  /\ Broken(tuStreams) \in Seq(Streams) /\ Len(Broken(tuStreams)) = Len(tuStreams)
           /\ \A s \in 1..Len(tuStreams) : /\ Broken(tuStreams)[s].session = tuStreams[s].session
                                           /\ Broken(tuStreams)[s].sent = tuStreams[s].sent
<1> DEFINE n == Len(tuStreams)
           b == [s \in 1..n |-> [tuStreams[s] EXCEPT !.broken = TRUE]]
<1>1. n \in Nat /\ DOMAIN tuStreams = 1..n /\ \A s \in 1..n : tuStreams[s] \in Streams
  BY StreamsTyped
<1>2. \A s \in 1..n : /\ b[s] \in Streams /\ b[s].session = tuStreams[s].session /\ b[s].sent = tuStreams[s].sent
  BY <1>1 DEF Streams
<1>3. Broken(tuStreams) = b
  BY <1>1 DEF Broken
<1>4. b \in [1..n -> Streams]
  BY <1>2
<1>5. b \in Seq(Streams) /\ Len(b) = n
  <2> HIDE DEF b, n
  <2>1. b \in Seq(Streams)
    BY <1>1, <1>4, IsASeq
  <2> QED
    BY <1>1, <1>4, <2>1, LenProperties
<1> QED
  BY <1>2, <1>3, <1>5

\* What a step on the link or at the server leaves alone.
Calm ==
    /\ tuCmds' = tuCmds /\ tuSession' = tuSession /\ tuStream' = tuStream /\ tuStatus' = tuStatus
    /\ tuItems' = tuItems /\ tuQuit' = tuQuit /\ tuSessions' = tuSessions /\ tuDialed' = tuDialed /\ tuClosed' = tuClosed
    /\ tuKeys'.texts = tuKeys.texts /\ tuKeys'.retries = tuKeys.retries /\ tuKeys'.losses >= tuKeys.losses
    /\ tuStreams' \in Seq(Streams) /\ Len(tuStreams') = Len(tuStreams)
    /\ \A s \in 1..Len(tuStreams) : tuStreams'[s].session = tuStreams[s].session /\ tuStreams'[s].sent = tuStreams[s].sent

\* Such a step preserves the invariant if the link stays right.
LEMMA CalmStep ==
    ASSUME TuIInv, Calm, LinkTypes', LinkRight'
    PROVE  TuIInv'
<1> USE DEF TuIInv
<1>1. StreamTypes'
  BY DEF Calm, StreamTypes
<1>2. ModelTypes'
  BY DEF Calm, ModelTypes
<1>3. CmdTypes'
  BY DEF Calm, CmdTypes
<1>4. CmdCounts'
  BY DEF Calm, CmdCounts, Room, CmdsAt
<1>5. CmdsRight'
  BY StreamsTyped DEF Calm, CmdsRight, CmdTypes
<1>6. CmdsApart'
  BY DEF Calm, CmdsApart
<1>7. Settled => Settled'
  BY DEF Calm, Settled, LinkTypes
<1>8. ClosingRight'
  BY <1>7 DEF Calm, ClosingRight
<1>9. SomeoneListens'
  BY DEF Calm, SomeoneListens, ModelTypes
<1>10. QuitIsUnderway' /\ ActiveIsCurrent'
  BY <1>7 DEF Calm, QuitIsUnderway, ActiveIsCurrent, Settled
<1> QED
  BY <1>1, <1>2, <1>3, <1>4, <1>5, <1>6, <1>8, <1>9, <1>10

\* A counter of the keys.
LEMMA KeysCounted ==
    ASSUME LinkTypes, NEW key \in {"texts", "answers", "losses"}, Counts(key)
    PROVE  /\ tuKeys' \in [texts : Nat, answers : Nat, losses : Nat, retries : 0..MaxControls]
           /\ tuKeys'[key] = tuKeys[key] + 1
           /\ \A other \in {"texts", "answers", "losses", "retries"} : other # key => tuKeys'[other] = tuKeys[other]
  BY DEF Counts, LinkTypes

\* The link and the server.
LEMMA LinkLostStep == TuIInv /\ LinkLost => TuIInv'
<1> SUFFICES ASSUME TuIInv, LinkLost PROVE TuIInv'
  OBVIOUS
<1>1. /\ tuKeys' \in [texts : Nat, answers : Nat, losses : Nat, retries : 0..MaxControls]
      /\ tuKeys'.losses = tuKeys.losses + 1 /\ tuKeys'.texts = tuKeys.texts /\ tuKeys'.retries = tuKeys.retries
  BY KeysCounted DEF LinkLost, TuIInv
<1>2. tuKeys.losses \in Nat
  BY DEF TuIInv, LinkTypes
<1>3. Calm
  <2>1. tuStreams' = Broken(tuStreams)
    BY DEF LinkLost
  <2> QED
    BY <1>1, <1>2, <2>1, BrokenStreams DEF TuIInv, LinkLost, tuModel, Calm
<1>4. ~tuLink' /\ tuLink' \in BOOLEAN /\ tuClosed' = tuClosed /\ tuDialed' = tuDialed /\ tuQuit' = tuQuit
  BY DEF LinkLost, tuModel
<1>5. LinkTypes'
  BY <1>1, <1>4 DEF TuIInv, LinkTypes
<1>6. LinkRight'
  BY <1>1, <1>2, <1>4 DEF TuIInv, LinkRight
<1> QED
  BY <1>3, <1>5, <1>6, CalmStep

\* The monitor restores the link (client.go:329).
LEMMA LinkRestoredStep == TuIInv /\ LinkRestored => TuIInv'
<1> SUFFICES ASSUME TuIInv, LinkRestored PROVE TuIInv'
  OBVIOUS
<1>1. /\ tuLink' /\ tuLink' \in BOOLEAN /\ tuClosed' = tuClosed /\ tuDialed' = tuDialed /\ tuQuit' = tuQuit
      /\ tuKeys' = tuKeys /\ tuStreams' = tuStreams
  BY DEF LinkRestored, tuModel
<1>2. tuStreams \in Seq(Streams) /\ tuKeys.losses \in Nat
  BY DEF TuIInv, StreamTypes, LinkTypes
<1>3. Calm
  BY <1>1, <1>2 DEF LinkRestored, tuModel, Calm
<1>4. LinkTypes' /\ LinkRight'
  BY <1>1 DEF TuIInv, LinkTypes, LinkRight
<1> QED
  BY <1>3, <1>4, CalmStep

\* The server answers on a stream that was sent to.
LEMMA ServerAnswersStep == \A s \in DOMAIN tuStreams : TuIInv /\ ServerAnswers(s) => TuIInv'
<1> SUFFICES ASSUME NEW s \in DOMAIN tuStreams, TuIInv, ServerAnswers(s) PROVE TuIInv'
  OBVIOUS
<1>1. StreamTypes /\ s \in 1..Len(tuStreams) /\ tuStreams[s] \in Streams
  BY StreamsTyped DEF TuIInv
<1>2. PICK a \in {"answer", "error"} : tuStreams' = [tuStreams EXCEPT ![s].in = Append(@, a)]
  BY DEF ServerAnswers
<1>3. PICK e : e = [tuStreams[s] EXCEPT !.in = Append(@, a)]
  OBVIOUS
<1>4. e \in Streams /\ e.session = tuStreams[s].session /\ e.sent = tuStreams[s].sent
  BY <1>1, <1>3, AppendProperties DEF Streams
<1>5. tuStreams' = [tuStreams EXCEPT ![s] = e]
  BY <1>2, <1>3
<1>6. /\ tuStreams' \in Seq(Streams) /\ Len(tuStreams') = Len(tuStreams)
      /\ \A r \in 1..Len(tuStreams) : tuStreams'[r] = IF r = s THEN e ELSE tuStreams[r]
  BY <1>1, <1>4, <1>5, StreamReplaced
<1>7. /\ tuKeys' \in [texts : Nat, answers : Nat, losses : Nat, retries : 0..MaxControls]
      /\ tuKeys'.losses = tuKeys.losses /\ tuKeys'.texts = tuKeys.texts /\ tuKeys'.retries = tuKeys.retries
  BY KeysCounted DEF ServerAnswers, TuIInv
<1>8. tuKeys.losses \in Nat
  BY DEF TuIInv, LinkTypes
<1>9. Calm
  BY <1>4, <1>6, <1>7, <1>8 DEF ServerAnswers, tuModel, Calm
<1>10. tuLink' = tuLink /\ tuClosed' = tuClosed /\ tuDialed' = tuDialed /\ tuQuit' = tuQuit
  BY DEF ServerAnswers, tuModel
<1>11. LinkTypes' /\ LinkRight'
  BY <1>7, <1>10 DEF TuIInv, LinkTypes, LinkRight
<1> QED
  BY <1>9, <1>11, CalmStep

\* Command i becomes c, and the model waits; a stream is sent to by the command only.
Going(i, c) ==
    /\ Put(i, i, c) /\ c.stream = tuCmds[i].stream /\ tuKeys' = tuKeys
    /\ tuSession' = tuSession /\ tuStream' = tuStream /\ tuStatus' = tuStatus /\ tuItems' = tuItems /\ tuQuit' = tuQuit
    /\ tuStreams' \in Seq(Streams) /\ Len(tuStreams') = Len(tuStreams)
    /\ \A s \in 1..Len(tuStreams) :
         /\ tuStreams'[s].session = tuStreams[s].session
         /\ tuStreams'[s].sent = tuStreams[s].sent \/ (s = c.stream /\ c.at = "read")
    /\ tuSessions' \in Seq({"open", "closed"}) /\ Len(tuSessions') >= Len(tuSessions)
    /\ c.session \in 0..Len(tuSessions')

\* What c may be.
MayBecome(i, c) ==
    /\ c.at \in {"created", "open"} =>
         /\ c.session # 0 /\ \A s \in 1..Len(tuStreams) : tuStreams[s].session # c.session
         /\ \A j \in DOMAIN tuCmds : tuCmds[j].at \in {"created", "open"} => tuCmds[j].session # c.session
    /\ c.at \notin {"opened", "close session"}
    /\ c.at \in {"read", "received"} => c.stream # 0 /\ tuCmds[i].at \in {"send", "read"}
    /\ c.at = "send" => FALSE
    /\ c.at \in Closing <=> tuCmds[i].at \in Closing
    /\ tuCmds[i].at \in {"read", "received", "failed"} => c.at \in {"read", "received", "failed"}

\* What the end of the program needs: nothing is opened again, what is closed stays
\* closed, and only the command that ends the program closes the client.
Ending(i, c) ==
    /\ Settled => Settled'
    /\ tuClosed => tuClosed'
    /\ tuClosed' => tuClosed \/ tuCmds[i].at \in Closing
    /\ c.at = "close client" => Settled'
    /\ c.at = "complete" => tuClosed' /\ Settled'

\* A command that goes on so preserves the invariant.
LEMMA GoingStep ==
    ASSUME TuIInv, NEW i \in DOMAIN tuCmds, NEW c \in Cmds, Going(i, c), MayBecome(i, c), Ending(i, c),
           LinkTypes', LinkRight', CmdCounts'
    PROVE  TuIInv'
<1>1. /\ LinkTypes /\ StreamTypes /\ ModelTypes /\ CmdTypes /\ CmdCounts /\ CmdsRight /\ CmdsApart
      /\ ClosingRight /\ LinkRight /\ SomeoneListens /\ QuitIsUnderway /\ ActiveIsCurrent
  BY DEF TuIInv
<1>2. /\ Len(tuStreams) \in Nat /\ Len(tuSessions) \in Nat /\ Len(tuSessions') \in Nat
      /\ \A s \in 1..Len(tuStreams) : tuStreams[s] \in Streams
  <2>1. tuSessions' \in Seq({"open", "closed"})
    BY DEF Going
  <2> QED
    BY <1>1, <2>1, StreamsTyped, LenProperties
<1>3. /\ DOMAIN tuCmds' = DOMAIN tuCmds /\ tuCmds'[i] = c
      /\ \A j \in DOMAIN tuCmds \ {i} : tuCmds'[j] = tuCmds[j]
  BY DEF Going, Put
<1>4. /\ c.stream = tuCmds[i].stream /\ tuKeys' = tuKeys /\ tuSession' = tuSession /\ tuStream' = tuStream
      /\ tuStatus' = tuStatus /\ tuItems' = tuItems /\ tuQuit' = tuQuit
      /\ Len(tuStreams') = Len(tuStreams) /\ Len(tuSessions') >= Len(tuSessions) /\ c.session \in 0..Len(tuSessions')
      /\ \A s \in 1..Len(tuStreams) :
           /\ tuStreams'[s].session = tuStreams[s].session
           /\ tuStreams'[s].sent = tuStreams[s].sent \/ (s = c.stream /\ c.at = "read")
  BY DEF Going
<1>0. /\ tuSession \in 0..Len(tuSessions) /\ tuStream \in 0..Len(tuStreams)
      /\ \A s \in 1..Len(tuStreams) : tuStreams[s].session \in 1..Len(tuSessions)
      /\ \A j \in DOMAIN tuCmds : tuCmds[j].stream \in 0..Len(tuStreams) /\ tuCmds[j].session \in 0..Len(tuSessions)
  BY <1>1 DEF ModelTypes, StreamTypes, CmdTypes
<1>5. StreamTypes'
  <2>1. tuSessions' \in Seq({"open", "closed"}) /\ tuStreams' \in Seq(Streams)
    BY DEF Going
  <2>2. \A s \in 1..Len(tuStreams') : tuStreams'[s].session \in 1..Len(tuSessions')
    BY <1>0, <1>2, <1>4
  <2> QED
    BY <2>1, <2>2 DEF StreamTypes
<1>6. ModelTypes'
  <2>1. tuSession' \in 0..Len(tuSessions') /\ tuStream' \in 0..Len(tuStreams')
    BY <1>0, <1>2, <1>4
  <2> QED
    BY <1>1, <1>4, <2>1 DEF ModelTypes
<1>7. CmdTypes'
  <2>1. IsFiniteSet(DOMAIN tuCmds') /\ tuCmds' \in [DOMAIN tuCmds' -> Cmds]
    BY DEF Going, Put
  <2>2. \A j \in DOMAIN tuCmds' : tuCmds'[j].stream \in 0..Len(tuStreams') /\ tuCmds'[j].session \in 0..Len(tuSessions')
    BY <1>0, <1>2, <1>3, <1>4
  <2> QED
    BY <2>1, <2>2 DEF CmdTypes
<1>8. CmdsRight'
  <2> SUFFICES ASSUME NEW j \in DOMAIN tuCmds
               PROVE  /\ tuCmds'[j].at \in {"created", "open"} =>
                           tuCmds'[j].session # 0 /\ \A s \in 1..Len(tuStreams') : tuStreams'[s].session # tuCmds'[j].session
                      /\ tuCmds'[j].at = "opened" =>
                           tuCmds'[j].stream # 0 /\ tuCmds'[j].stream # tuStream' /\ ~tuStreams'[tuCmds'[j].stream].sent
                      /\ tuCmds'[j].at \in {"read", "received"} => tuCmds'[j].stream # 0
                      /\ tuCmds'[j].at \in {"send", "read", "received"} /\ tuCmds'[j].stream # 0 => tuStream' # 0
    BY <1>3 DEF CmdsRight
  <2>1. CASE j = i
    BY <1>1, <1>3, <1>4, <2>1 DEF MayBecome, CmdsRight
  <2>2. CASE j # i
    <3>1. tuCmds'[j] = tuCmds[j] /\ tuCmds[j].stream \in 0..Len(tuStreams)
      BY <1>0, <1>3, <2>2
    <3>2. tuCmds[j].at = "opened" => tuCmds[j].stream # c.stream
      BY <1>1, <1>4, <2>2 DEF CmdsApart
    <3> QED
      BY <1>1, <1>2, <1>4, <3>1, <3>2 DEF CmdsRight
  <2> QED
    BY <2>1, <2>2
<1>9. CmdsApart'
  <2> SUFFICES ASSUME NEW j \in DOMAIN tuCmds, NEW k \in DOMAIN tuCmds, j # k
               PROVE  /\ tuCmds'[j].at \in {"created", "open"} /\ tuCmds'[k].at \in {"created", "open"} =>
                           tuCmds'[j].session # tuCmds'[k].session
                      /\ tuCmds'[j].at = "opened" => tuCmds'[k].stream # tuCmds'[j].stream
                      /\ tuCmds'[j].at \in Closing => tuCmds'[k].at \notin Closing
    BY <1>3 DEF CmdsApart
  <2>1. CASE j = i
    BY <1>1, <1>3, <1>4, <2>1 DEF MayBecome, CmdsApart
  <2>2. CASE k = i
    BY <1>1, <1>3, <1>4, <2>2 DEF MayBecome, CmdsApart
  <2>3. CASE j # i /\ k # i
    BY <1>1, <1>3, <2>3 DEF CmdsApart
  <2> QED
    BY <2>1, <2>2, <2>3
<1>10. ClosingRight'
  <2> SUFFICES ASSUME NEW j \in DOMAIN tuCmds
               PROVE  /\ tuCmds'[j].at \in Closing => tuQuit' = "quitting"
                      /\ tuCmds'[j].at = "close session" => tuCmds'[j].session = tuSession' /\ ~tuClosed'
                      /\ tuCmds'[j].at = "close client" => Settled'
                      /\ tuCmds'[j].at = "complete" => tuClosed' /\ Settled'
    BY <1>3 DEF ClosingRight
  <2>1. CASE j = i
    BY <1>1, <1>3, <1>4, <2>1 DEF MayBecome, ClosingRight, Ending
  <2>2. CASE j # i
    <3>1. tuCmds'[j] = tuCmds[j]
      BY <1>3, <2>2
    <3>2. tuCmds[j].at \in Closing => tuCmds[i].at \notin Closing
      BY <1>1, <2>2 DEF CmdsApart
    <3> QED
      BY <1>1, <1>4, <3>1, <3>2 DEF ClosingRight, Closing, Ending
  <2> QED
    BY <2>1, <2>2
<1>11. SomeoneListens'
  <2> SUFFICES ASSUME tuQuit = "no", tuStatus = "connected", tuStream # 0,
                      tuStreams'[tuStream].session = tuSession, tuStreams'[tuStream].sent
               PROVE  \E j \in DOMAIN tuCmds : /\ tuCmds'[j].stream = tuStream
                                               /\ tuCmds'[j].at \in {"read", "received", "failed"}
    BY <1>3, <1>4 DEF SomeoneListens
  <2>1. tuStream \in 1..Len(tuStreams)
    BY <1>0, <1>2
  <2>2. CASE tuStream = c.stream /\ c.at = "read"
    BY <1>3, <2>2
  <2>3. CASE ~(tuStream = c.stream /\ c.at = "read")
    <3>1. PICK j \in DOMAIN tuCmds : tuCmds[j].stream = tuStream /\ tuCmds[j].at \in {"read", "received", "failed"}
      BY <1>1, <1>4, <2>1, <2>3 DEF SomeoneListens
    <3>2. tuCmds'[j].stream = tuStream /\ tuCmds'[j].at \in {"read", "received", "failed"}
      BY <1>3, <1>4, <3>1 DEF MayBecome
    <3> QED
      BY <3>2
  <2> QED
    BY <2>2, <2>3
<1>12. QuitIsUnderway' /\ ActiveIsCurrent'
  <2>1. ActiveIsCurrent'
    BY <1>1, <1>4 DEF ActiveIsCurrent
  <2>2. ASSUME tuQuit = "quitting" PROVE \E j \in DOMAIN tuCmds : tuCmds'[j].at \in Closing
    <3>1. PICK j \in DOMAIN tuCmds : tuCmds[j].at \in Closing
      BY <1>1, <2>2 DEF QuitIsUnderway, Closing
    <3>2. tuCmds'[j].at \in Closing
      BY <1>3, <3>1 DEF MayBecome
    <3> QED
      BY <3>2
  <2>3. tuQuit = "shut down" => tuClosed' /\ Settled'
    BY <1>1 DEF QuitIsUnderway, Settled, Ending
  <2> QED
    BY <1>3, <1>4, <2>1, <2>2, <2>3 DEF QuitIsUnderway, Settled, Closing
<1> QED
  BY <1>5, <1>6, <1>7, <1>8, <1>9, <1>10, <1>11, <1>12 DEF TuIInv

\* How the numbers of commands change when one goes on.
LEMMA GoingCounts ==
    ASSUME CmdTypes, NEW i \in DOMAIN tuCmds, NEW c \in Cmds, Put(i, i, c)
    PROVE  /\ Cardinality(DOMAIN tuCmds)' = Cardinality(DOMAIN tuCmds) /\ Cardinality(DOMAIN tuCmds) \in Nat
           /\ \A at \in {"dial", "create"} :
                /\ Cardinality(CmdsAt(at)) \in Nat
                /\ Cardinality(CmdsAt(at))' = Cardinality(CmdsAt(at)) - (IF tuCmds[i].at = at THEN 1 ELSE 0)
                                                                      + (IF c.at = at THEN 1 ELSE 0)
<1>1. Cardinality(DOMAIN tuCmds) \in Nat /\ \A at : Cardinality(CmdsAt(at)) \in Nat
  BY CmdsFinite
<1>2. \A at : Was(i, at) <=> tuCmds[i].at = at
  BY DEF Was
<1> QED
  BY <1>1, <1>2 DEF Put

\* What most commands leave alone.
LEMMA GoingAlone ==
    ASSUME StreamTypes, CmdTypes, NEW i \in DOMAIN tuCmds, NEW c \in Cmds, Put(i, i, c), c.stream = tuCmds[i].stream,
           UNCHANGED <<tuKeys, tuModel, tuSessions, tuStreams>>, c.session = tuCmds[i].session
    PROVE  Going(i, c)
<1>1. tuCmds[i].session \in 0..Len(tuSessions) /\ Len(tuSessions) \in Nat
  BY StreamsTyped DEF CmdTypes
<1>2. /\ tuKeys' = tuKeys /\ tuSession' = tuSession /\ tuStream' = tuStream /\ tuStatus' = tuStatus
      /\ tuItems' = tuItems /\ tuQuit' = tuQuit /\ tuSessions' = tuSessions /\ tuStreams' = tuStreams
  BY DEF tuModel
<1>3. tuSessions \in Seq({"open", "closed"}) /\ tuStreams \in Seq(Streams)
  BY DEF StreamTypes
<1>4. \A s \in 1..Len(tuStreams) : /\ tuStreams'[s].session = tuStreams[s].session
                                   /\ tuStreams'[s].sent = tuStreams[s].sent \/ (s = c.stream /\ c.at = "read")
  BY <1>2
<1>5. Len(tuSessions') >= Len(tuSessions) /\ c.session \in 0..Len(tuSessions') /\ Len(tuStreams') = Len(tuStreams)
  BY <1>1, <1>2
<1> QED
  BY <1>2, <1>3, <1>4, <1>5 DEF Going

\* Dial, and what comes of it.
LEMMA CmdDialStep == \A i \in DOMAIN tuCmds : TuIInv /\ CmdDial(i) => TuIInv'
<1> SUFFICES ASSUME NEW i \in DOMAIN tuCmds, TuIInv, CmdDial(i) PROVE TuIInv'
  OBVIOUS
<1>1. LinkTypes /\ StreamTypes /\ CmdTypes /\ CmdCounts /\ LinkRight /\ CmdsRight
  BY DEF TuIInv
<1>2. tuCmds[i].at = "dial" /\ tuClosed' = tuClosed /\ UNCHANGED <<tuKeys, tuModel, tuSessions, tuStreams>>
  BY DEF CmdDial
<1>3. PICK c \in Cmds : /\ Put(i, i, c) /\ c.session = tuCmds[i].session /\ c.stream = tuCmds[i].stream
                        /\ \/ c.at = "create" /\ ~tuClosed /\ tuLink' /\ tuLink' \in BOOLEAN /\ tuDialed' = tuDialed + 1
                           \/ c.at = "failed" /\ tuLink' = tuLink /\ tuDialed' = tuDialed
  <2>1. CASE CmdGoes(i, "create") /\ ~tuClosed /\ tuLink' = TRUE /\ tuDialed' = tuDialed + 1
    <3>1. "create" \in CmdStates
      BY DEF CmdStates
    <3> QED
      BY <1>1, <2>1, <3>1, GoesOn
  <2>2. CASE CmdGoes(i, "failed") /\ tuLink' = tuLink /\ tuDialed' = tuDialed
    <3>1. "failed" \in CmdStates
      BY DEF CmdStates
    <3> QED
      BY <1>1, <2>2, <3>1, GoesOn
  <2> QED
    BY <2>1, <2>2 DEF CmdDial
<1>4. Going(i, c)
  BY <1>1, <1>2, <1>3, GoingAlone
<1>5. MayBecome(i, c)
  BY <1>2, <1>3 DEF MayBecome, Closing
<1>6. Ending(i, c)
  BY <1>2, <1>3 DEF Ending, Settled, tuModel
<1>7. LinkTypes'
  <2>1. tuLink' \in BOOLEAN /\ tuClosed' \in BOOLEAN /\ tuKeys' = tuKeys
    BY <1>1, <1>2, <1>3 DEF LinkTypes
  <2>2. tuDialed' \in Nat
    BY <1>1, <1>3 DEF LinkTypes
  <2> QED
    BY <1>1, <2>1, <2>2 DEF LinkTypes
<1>8. LinkRight'
  BY <1>1, <1>2, <1>3 DEF LinkRight, LinkTypes, tuModel
<1>9. CmdCounts'
  <2>1. /\ Cardinality(DOMAIN tuCmds)' = Cardinality(DOMAIN tuCmds)
        /\ Cardinality(CmdsAt("dial")) \in Nat /\ Cardinality(CmdsAt("create")) \in Nat
        /\ Cardinality(CmdsAt("dial"))' = Cardinality(CmdsAt("dial")) - 1
        /\ Cardinality(CmdsAt("create"))' = Cardinality(CmdsAt("create")) + (IF c.at = "create" THEN 1 ELSE 0)
    BY <1>1, <1>2, <1>3, GoingCounts
  <2>2. tuDialed \in Nat /\ tuKeys.retries \in Nat /\ Len(tuSessions) \in Nat
    BY <1>1, TuAssumption, StreamsTyped DEF LinkTypes
  <2>3. tuDialed' = tuDialed + (IF c.at = "create" THEN 1 ELSE 0)
    BY <1>3, <2>2
  <2> QED
    BY <1>1, <1>2, <2>1, <2>2, <2>3 DEF CmdCounts, Room, tuModel
<1> QED
  BY <1>4, <1>5, <1>6, <1>7, <1>8, <1>9, GoingStep

\* CreateSession: the session is new.
LEMMA CmdCreateStep == \A i \in DOMAIN tuCmds : TuIInv /\ CmdCreate(i) => TuIInv'
<1> SUFFICES ASSUME NEW i \in DOMAIN tuCmds, TuIInv, CmdCreate(i) PROVE TuIInv'
  OBVIOUS
<1>1. LinkTypes /\ StreamTypes /\ ModelTypes /\ CmdTypes /\ CmdCounts /\ LinkRight /\ CmdsRight
  BY DEF TuIInv
<1>2. /\ tuCmds[i].at = "create" /\ tuLink' = tuLink /\ tuDialed' = tuDialed /\ tuClosed' = tuClosed
      /\ UNCHANGED <<tuKeys, tuModel, tuStreams>>
  BY DEF CmdCreate
<1>3. LinkTypes' /\ LinkRight'
  BY <1>1, <1>2 DEF LinkTypes, LinkRight, tuModel
<1>4. CASE CmdGoes(i, "failed") /\ UNCHANGED tuSessions
  <2>1. PICK c \in Cmds : Put(i, i, c) /\ c.at = "failed" /\ c.session = tuCmds[i].session /\ c.stream = tuCmds[i].stream
    <3>1. "failed" \in CmdStates
      BY DEF CmdStates
    <3> QED
      BY <1>1, <1>4, <3>1, GoesOn
  <2>2. Going(i, c)
    BY <1>1, <1>2, <1>4, <2>1, GoingAlone
  <2>3. MayBecome(i, c) /\ Ending(i, c)
    BY <1>2, <1>4, <2>1 DEF MayBecome, Closing, Ending, Settled, tuModel
  <2>4. CmdCounts'
    <3>1. /\ Cardinality(DOMAIN tuCmds)' = Cardinality(DOMAIN tuCmds)
          /\ Cardinality(CmdsAt("create")) \in Nat
          /\ Cardinality(CmdsAt("dial"))' = Cardinality(CmdsAt("dial")) /\ Cardinality(CmdsAt("dial")) \in Nat
          /\ Cardinality(CmdsAt("create"))' = Cardinality(CmdsAt("create")) - 1
      BY <1>1, <1>2, <2>1, GoingCounts
    <3>2. tuDialed \in Nat /\ Len(tuSessions) \in Nat
      BY <1>1, StreamsTyped DEF LinkTypes
    <3> QED
      BY <1>1, <1>2, <1>4, <3>1, <3>2 DEF CmdCounts, Room, tuModel
  <2> QED
    BY <1>3, <2>1, <2>2, <2>3, <2>4, GoingStep
<1>5. ASSUME tuSessions' = Append(tuSessions, "open"),
             tuCmds' = [tuCmds EXCEPT ![i].at = "created", ![i].session = Len(tuSessions) + 1]
      PROVE  TuIInv'
  <2>1. PICK c : c = [tuCmds[i] EXCEPT !.at = "created", !.session = Len(tuSessions) + 1]
    OBVIOUS
  <2>2. tuCmds[i] \in Cmds /\ Len(tuSessions) \in Nat /\ "created" \in CmdStates
    BY <1>1, StreamsTyped DEF CmdTypes, CmdStates
  <2>3. c \in Cmds /\ c.at = "created" /\ c.session = Len(tuSessions) + 1 /\ c.stream = tuCmds[i].stream
    <3>1. Len(tuSessions) + 1 \in Nat
      BY <2>2
    <3> QED
      BY <2>1, <2>2, <3>1 DEF Cmds
  <2>4. Put(i, i, c)
    <3>1. tuCmds' = [tuCmds EXCEPT ![i] = c]
      BY <1>5, <2>1
    <3> QED
      BY <1>1, <2>3, <3>1, PutReplaced
  <2>5. /\ tuSessions' \in Seq({"open", "closed"}) /\ Len(tuSessions') = Len(tuSessions) + 1
        /\ \A s \in 1..Len(tuSessions) : tuSessions'[s] = tuSessions[s]
    BY <1>1, <1>5, AppendProperties DEF StreamTypes
  <2>6. Going(i, c)
    <3>1. /\ tuKeys' = tuKeys /\ tuSession' = tuSession /\ tuStream' = tuStream /\ tuStatus' = tuStatus
          /\ tuItems' = tuItems /\ tuQuit' = tuQuit /\ tuStreams' = tuStreams /\ tuStreams \in Seq(Streams)
      BY <1>1, <1>2 DEF tuModel, StreamTypes
    <3>2. Len(tuSessions') >= Len(tuSessions) /\ c.session \in 0..Len(tuSessions')
      BY <2>2, <2>3, <2>5
    <3>3. \A s \in 1..Len(tuStreams) : /\ tuStreams'[s].session = tuStreams[s].session
                                       /\ tuStreams'[s].sent = tuStreams[s].sent \/ (s = c.stream /\ c.at = "read")
      BY <3>1
    <3>4. Len(tuStreams') = Len(tuStreams) /\ tuStreams' \in Seq(Streams)
      BY <3>1
    <3> QED
      BY <2>3, <2>4, <2>5, <3>1, <3>2, <3>3, <3>4 DEF Going
  <2>7. MayBecome(i, c)
    <3>1. \A s \in 1..Len(tuStreams) : tuStreams[s].session # c.session
      BY <1>1, <2>2, <2>3 DEF StreamTypes
    <3>2. \A j \in DOMAIN tuCmds : tuCmds[j].session # c.session
      BY <1>1, <2>2, <2>3 DEF CmdTypes
    <3> QED
      BY <1>2, <2>2, <2>3, <3>1, <3>2 DEF MayBecome, Closing
  <2>8. Ending(i, c)
    <3>1. tuSession \in 0..Len(tuSessions) /\ tuSession' = tuSession
      BY <1>1, <1>2 DEF ModelTypes, tuModel
    <3>2. Settled => Settled'
      BY <1>2, <2>2, <2>5, <3>1 DEF Settled
    <3> QED
      BY <1>2, <2>3, <3>2 DEF Ending
  <2>9. CmdCounts'
    <3>1. /\ Cardinality(DOMAIN tuCmds)' = Cardinality(DOMAIN tuCmds)
          /\ Cardinality(CmdsAt("create")) \in Nat
          /\ Cardinality(CmdsAt("dial"))' = Cardinality(CmdsAt("dial"))
          /\ Cardinality(CmdsAt("create"))' = Cardinality(CmdsAt("create")) - 1
      BY <1>1, <1>2, <2>3, <2>4, GoingCounts, CmdsFinite
    <3>2. tuDialed \in Nat
      BY <1>1 DEF LinkTypes
    <3> QED
      BY <1>1, <1>2, <2>2, <2>5, <3>1, <3>2 DEF CmdCounts, Room, tuModel
  <2> QED
    BY <1>3, <2>3, <2>6, <2>7, <2>8, <2>9, GoingStep
<1> QED
  BY <1>4, <1>5 DEF CmdCreate

\* A command that neither dials nor creates changes no number.
LEMMA GoingCountsSame ==
    ASSUME StreamTypes, CmdTypes, CmdCounts, NEW i \in DOMAIN tuCmds, NEW c \in Cmds, Put(i, i, c),
           tuCmds[i].at \notin {"dial", "create"}, c.at \notin {"dial", "create"},
           UNCHANGED <<tuKeys, tuModel, tuDialed>>, Len(tuSessions') = Len(tuSessions)
    PROVE  CmdCounts'
<1>1. /\ Cardinality(DOMAIN tuCmds)' = Cardinality(DOMAIN tuCmds)
      /\ Cardinality(CmdsAt("dial"))' = Cardinality(CmdsAt("dial")) /\ Cardinality(CmdsAt("dial")) \in Nat
      /\ Cardinality(CmdsAt("create"))' = Cardinality(CmdsAt("create")) /\ Cardinality(CmdsAt("create")) \in Nat
  BY GoingCounts
<1> QED
  BY <1>1 DEF CmdCounts, Room, tuModel

\* SendMessage: what goes out is read for.
LEMMA CmdSendStep == \A i \in DOMAIN tuCmds : TuIInv /\ CmdSend(i) => TuIInv'
<1> SUFFICES ASSUME NEW i \in DOMAIN tuCmds, TuIInv, CmdSend(i) PROVE TuIInv'
  OBVIOUS
<1>1. LinkTypes /\ StreamTypes /\ CmdTypes /\ CmdCounts /\ LinkRight
  BY DEF TuIInv
<1>2. /\ tuCmds[i].at = "send" /\ tuLink' = tuLink /\ tuDialed' = tuDialed /\ tuClosed' = tuClosed
      /\ UNCHANGED <<tuKeys, tuModel, tuSessions>>
  BY DEF CmdSend
<1>3. LinkTypes' /\ LinkRight'
  BY <1>1, <1>2 DEF LinkTypes, LinkRight, tuModel
<1>4. CASE CmdGoes(i, "failed") /\ UNCHANGED tuStreams
  <2>1. PICK c \in Cmds : Put(i, i, c) /\ c.at = "failed" /\ c.session = tuCmds[i].session /\ c.stream = tuCmds[i].stream
    <3>1. "failed" \in CmdStates
      BY DEF CmdStates
    <3> QED
      BY <1>1, <1>4, <3>1, GoesOn
  <2>2. Going(i, c)
    BY <1>1, <1>2, <1>4, <2>1, GoingAlone
  <2>3. MayBecome(i, c) /\ Ending(i, c)
    BY <1>2, <2>1 DEF MayBecome, Closing, Ending, Settled, tuModel
  <2>4. CmdCounts'
    BY <1>1, <1>2, <2>1, GoingCountsSame
  <2> QED
    BY <1>3, <2>1, <2>2, <2>3, <2>4, GoingStep
<1>5. ASSUME tuCmds[i].stream # 0, CmdGoes(i, "read"),
             tuStreams' = [tuStreams EXCEPT ![tuCmds[i].stream].sent = TRUE]
      PROVE  TuIInv'
  <2>1. PICK c \in Cmds : Put(i, i, c) /\ c.at = "read" /\ c.session = tuCmds[i].session /\ c.stream = tuCmds[i].stream
    <3>1. "read" \in CmdStates
      BY DEF CmdStates
    <3> QED
      BY <1>1, <1>5, <3>1, GoesOn
  <2>2. /\ Len(tuStreams) \in Nat /\ Len(tuSessions) \in Nat /\ \A r \in 1..Len(tuStreams) : tuStreams[r] \in Streams
        /\ tuCmds[i].stream \in 0..Len(tuStreams) /\ tuCmds[i].session \in 0..Len(tuSessions)
    BY <1>1, StreamsTyped DEF CmdTypes
  <2>3. PICK s : s = tuCmds[i].stream
    OBVIOUS
  <2>4. s \in 1..Len(tuStreams) /\ s # 0 /\ s = c.stream
    BY <1>5, <2>1, <2>2, <2>3
  <2>5. PICK e : e = [tuStreams[s] EXCEPT !.sent = TRUE]
    OBVIOUS
  <2>6. e \in Streams /\ e.session = tuStreams[s].session
    BY <2>2, <2>4, <2>5 DEF Streams
  <2>7. tuStreams' = [tuStreams EXCEPT ![s] = e]
    BY <1>5, <2>3, <2>5
  <2>8. /\ tuStreams' \in Seq(Streams) /\ Len(tuStreams') = Len(tuStreams)
        /\ \A r \in 1..Len(tuStreams) : tuStreams'[r] = IF r = s THEN e ELSE tuStreams[r]
    BY <1>1, <2>4, <2>6, <2>7, StreamReplaced
  <2>9. Going(i, c)
    <3>1. /\ tuKeys' = tuKeys /\ tuSession' = tuSession /\ tuStream' = tuStream /\ tuStatus' = tuStatus
          /\ tuItems' = tuItems /\ tuQuit' = tuQuit /\ tuSessions' = tuSessions /\ tuSessions \in Seq({"open", "closed"})
      BY <1>1, <1>2 DEF tuModel, StreamTypes
    <3>2. ASSUME NEW r \in 1..Len(tuStreams)
          PROVE  /\ tuStreams'[r].session = tuStreams[r].session
                 /\ tuStreams'[r].sent = tuStreams[r].sent \/ (r = c.stream /\ c.at = "read")
      <4>1. CASE r = s
        BY <2>1, <2>4, <2>6, <2>8, <4>1
      <4>2. CASE r # s
        BY <2>8, <4>2
      <4> QED
        BY <4>1, <4>2
    <3>3. Len(tuSessions') >= Len(tuSessions) /\ c.session \in 0..Len(tuSessions')
      BY <2>1, <2>2, <3>1
    <3> QED
      BY <2>1, <2>8, <3>1, <3>2, <3>3 DEF Going
  <2>10. MayBecome(i, c) /\ Ending(i, c)
    BY <1>2, <2>1, <2>4 DEF MayBecome, Closing, Ending, Settled, tuModel
  <2>11. CmdCounts'
    <3>1. Len(tuSessions') = Len(tuSessions)
      BY <1>2
    <3> QED
      BY <1>1, <1>2, <2>1, <3>1, GoingCountsSame
  <2> QED
    BY <1>3, <2>1, <2>9, <2>10, <2>11, GoingStep
<1> QED
  BY <1>4, <1>5 DEF CmdSend

\* Recv on a stream.
LEMMA CmdReadStep == \A i \in DOMAIN tuCmds : TuIInv /\ CmdRead(i) => TuIInv'
<1> SUFFICES ASSUME NEW i \in DOMAIN tuCmds, TuIInv, CmdRead(i) PROVE TuIInv'
  OBVIOUS
<1>1. LinkTypes /\ StreamTypes /\ CmdTypes /\ CmdCounts /\ LinkRight /\ CmdsRight
  BY DEF TuIInv
<1>2. /\ tuCmds[i].at = "read" /\ tuLink' = tuLink /\ tuDialed' = tuDialed /\ tuClosed' = tuClosed
      /\ UNCHANGED <<tuKeys, tuModel, tuSessions>>
  BY DEF CmdRead
<1>3. LinkTypes' /\ LinkRight'
  BY <1>1, <1>2 DEF LinkTypes, LinkRight, tuModel
<1>4. /\ Len(tuStreams) \in Nat /\ Len(tuSessions) \in Nat /\ \A r \in 1..Len(tuStreams) : tuStreams[r] \in Streams
      /\ tuCmds[i].stream \in 0..Len(tuStreams) /\ tuCmds[i].session \in 0..Len(tuSessions) /\ tuCmds[i].stream # 0
  BY <1>1, <1>2, StreamsTyped DEF CmdTypes, CmdsRight
<1>5. PICK c \in Cmds : /\ Put(i, i, c) /\ c.at \in {"failed", "received"}
                        /\ c.session = tuCmds[i].session /\ c.stream = tuCmds[i].stream
  <2>1. {"failed", "received"} \subseteq CmdStates
    BY DEF CmdStates
  <2>2. PICK at \in {"failed", "received"} : CmdGoes(i, at)
    BY DEF CmdRead
  <2>3. at \in CmdStates
    BY <2>1, <2>2
  <2> QED
    BY <1>1, <2>2, <2>3, GoesOn
<1>6. /\ tuStreams' \in Seq(Streams) /\ Len(tuStreams') = Len(tuStreams)
      /\ \A r \in 1..Len(tuStreams) : tuStreams'[r].session = tuStreams[r].session /\ tuStreams'[r].sent = tuStreams[r].sent
  <2>1. CASE UNCHANGED tuStreams
    BY <1>1, <2>1 DEF StreamTypes
  <2>2. ASSUME tuStreams[tuCmds[i].stream].in # << >>,
               tuStreams' = [tuStreams EXCEPT ![tuCmds[i].stream].in = Tail(@)]
        PROVE  /\ tuStreams' \in Seq(Streams) /\ Len(tuStreams') = Len(tuStreams)
               /\ \A r \in 1..Len(tuStreams) : /\ tuStreams'[r].session = tuStreams[r].session
                                               /\ tuStreams'[r].sent = tuStreams[r].sent
    <3>1. PICK s : s = tuCmds[i].stream
      OBVIOUS
    <3>2. s \in 1..Len(tuStreams) /\ tuStreams[s] \in Streams
      BY <1>4, <3>1
    <3>3. PICK e : e = [tuStreams[s] EXCEPT !.in = Tail(@)]
      OBVIOUS
    <3>4. Tail(tuStreams[s].in) \in Seq({"answer", "error"})
      BY <2>2, <3>1, <3>2, HeadTailProperties DEF Streams
    <3>5. e \in Streams /\ e.session = tuStreams[s].session /\ e.sent = tuStreams[s].sent
      BY <3>2, <3>3, <3>4 DEF Streams
    <3>6. tuStreams' = [tuStreams EXCEPT ![s] = e]
      BY <2>2, <3>1, <3>3
    <3>7. /\ tuStreams' \in Seq(Streams) /\ Len(tuStreams') = Len(tuStreams)
          /\ \A r \in 1..Len(tuStreams) : tuStreams'[r] = IF r = s THEN e ELSE tuStreams[r]
      BY <1>1, <3>2, <3>5, <3>6, StreamReplaced
    <3> QED
      BY <3>5, <3>7
  <2> QED
    BY <2>1, <2>2 DEF CmdRead
<1>7. Going(i, c)
  <2>1. /\ tuKeys' = tuKeys /\ tuSession' = tuSession /\ tuStream' = tuStream /\ tuStatus' = tuStatus
        /\ tuItems' = tuItems /\ tuQuit' = tuQuit /\ tuSessions' = tuSessions /\ tuSessions \in Seq({"open", "closed"})
    BY <1>1, <1>2 DEF tuModel, StreamTypes
  <2>2. Len(tuSessions') >= Len(tuSessions) /\ c.session \in 0..Len(tuSessions')
    BY <1>4, <1>5, <2>1
  <2> QED
    BY <1>5, <1>6, <2>1, <2>2 DEF Going
<1>8. MayBecome(i, c) /\ Ending(i, c)
  BY <1>2, <1>4, <1>5 DEF MayBecome, Closing, Ending, Settled, tuModel
<1>9. CmdCounts'
  <2>1. Len(tuSessions') = Len(tuSessions)
    BY <1>2
  <2> QED
    BY <1>1, <1>2, <1>5, <2>1, GoingCountsSame
<1> QED
  BY <1>3, <1>5, <1>7, <1>8, <1>9, GoingStep

\* ListSessions: what was listed is kept in the message.
LEMMA CmdListStep == \A i \in DOMAIN tuCmds : TuIInv /\ CmdList(i) => TuIInv'
<1> SUFFICES ASSUME NEW i \in DOMAIN tuCmds, TuIInv, CmdList(i) PROVE TuIInv'
  OBVIOUS
<1>1. LinkTypes /\ StreamTypes /\ CmdTypes /\ CmdCounts /\ LinkRight
  BY DEF TuIInv
<1>2. tuCmds[i].at = "list" /\ UNCHANGED <<tuKeys, tuModel, tuSessions, tuStreams, tuLink, tuDialed, tuClosed>>
  BY DEF CmdList, tuServer
<1>3. LinkTypes' /\ LinkRight'
  BY <1>1, <1>2 DEF LinkTypes, LinkRight, tuModel
<1>4. PICK c \in Cmds : /\ Put(i, i, c) /\ c.at \in {"listed", "unlisted"}
                        /\ c.session = tuCmds[i].session /\ c.stream = tuCmds[i].stream
  <2>1. CASE CmdGoes(i, "unlisted")
    <3>1. "unlisted" \in CmdStates
      BY DEF CmdStates
    <3> QED
      BY <1>1, <2>1, <3>1, GoesOn
  <2>2. ASSUME tuCmds' = [tuCmds EXCEPT ![i].at = "listed", ![i].ids = {s \in DOMAIN tuSessions : tuSessions[s] = "open"}]
        PROVE  \E d \in Cmds : /\ Put(i, i, d) /\ d.at \in {"listed", "unlisted"}
                               /\ d.session = tuCmds[i].session /\ d.stream = tuCmds[i].stream
    <3>1. PICK ids : ids = {s \in DOMAIN tuSessions : tuSessions[s] = "open"}
      OBVIOUS
    <3>2. ids \in SUBSET Nat
      BY <1>1, <3>1, StreamsTyped
    <3>3. PICK d : d = [tuCmds[i] EXCEPT !.at = "listed", !.ids = ids]
      OBVIOUS
    <3>4. tuCmds[i] \in Cmds /\ "listed" \in CmdStates
      BY <1>1 DEF CmdTypes, CmdStates
    <3>5. d \in Cmds /\ d.at = "listed" /\ d.session = tuCmds[i].session /\ d.stream = tuCmds[i].stream
      BY <3>2, <3>3, <3>4 DEF Cmds
    <3>6. tuCmds' = [tuCmds EXCEPT ![i] = d]
      BY <2>2, <3>1, <3>3
    <3>7. Put(i, i, d)
      BY <1>1, <3>5, <3>6, PutReplaced
    <3> QED
      BY <3>5, <3>7
  <2> QED
    BY <2>1, <2>2 DEF CmdList
<1>5. Going(i, c)
  BY <1>1, <1>2, <1>4, GoingAlone
<1>6. MayBecome(i, c) /\ Ending(i, c)
  BY <1>2, <1>4 DEF MayBecome, Closing, Ending, Settled, tuModel
<1>7. CmdCounts'
  BY <1>1, <1>2, <1>4, GoingCountsSame
<1> QED
  BY <1>3, <1>4, <1>5, <1>6, <1>7, GoingStep

\* CloseSession: the client is open, so that a link that is down was lost.
LEMMA CmdCloseSessionStep == \A i \in DOMAIN tuCmds : TuIInv /\ CmdCloseSession(i) => TuIInv'
<1> SUFFICES ASSUME NEW i \in DOMAIN tuCmds, TuIInv, CmdCloseSession(i) PROVE TuIInv'
  OBVIOUS
<1>1. LinkTypes /\ StreamTypes /\ ModelTypes /\ CmdTypes /\ CmdCounts /\ LinkRight /\ ClosingRight
  BY DEF TuIInv
<1>2. /\ tuCmds[i].at = "close session" /\ tuLink' = tuLink /\ tuDialed' = tuDialed /\ tuClosed' = tuClosed
      /\ UNCHANGED <<tuKeys, tuModel, tuStreams>> /\ CmdGoes(i, "close client")
  BY DEF CmdCloseSession
<1>3. LinkTypes' /\ LinkRight'
  BY <1>1, <1>2 DEF LinkTypes, LinkRight, tuModel
<1>4. PICK c \in Cmds : Put(i, i, c) /\ c.at = "close client" /\ c.session = tuCmds[i].session /\ c.stream = tuCmds[i].stream
  <2>1. "close client" \in CmdStates
    BY DEF CmdStates, Closing
  <2> QED
    BY <1>1, <1>2, <2>1, GoesOn
<1>5. tuCmds[i].session = tuSession /\ ~tuClosed
  BY <1>1, <1>2 DEF ClosingRight
<1>6. Len(tuSessions) \in Nat /\ tuSession \in 0..Len(tuSessions) /\ tuDialed \in Nat /\ tuKeys.losses \in Nat
  BY <1>1, StreamsTyped DEF ModelTypes, LinkTypes
<1>7. tuSession # 0 => tuDialed > 0
  <2>1. Cardinality(CmdsAt("create")) \in Nat
    BY <1>1, CmdsFinite
  <2>2. Len(tuSessions) + Cardinality(CmdsAt("create")) <= tuDialed
    BY <1>1 DEF CmdCounts, Room
  <2> QED
    BY <1>6, <2>1, <2>2
<1>8. ~tuLink /\ tuSession # 0 => tuKeys.losses > 0
  <2>1. tuDialed > 0 /\ tuKeys.losses = 0 => tuLink
    BY <1>1, <1>5 DEF LinkRight
  <2>2. CASE tuKeys.losses = 0
    BY <1>7, <2>1, <2>2
  <2>3. CASE tuKeys.losses # 0
    <3>1. tuKeys.losses > 0
      BY <1>6, <2>3
    <3> QED
      BY <3>1
  <2> QED
    BY <2>2, <2>3
<1>9. /\ tuSessions' \in Seq({"open", "closed"}) /\ Len(tuSessions') = Len(tuSessions)
      /\ tuSession # 0 /\ tuLink => tuSessions'[tuSession] = "closed"
  <2>1. CASE tuSession # 0 /\ tuLink
    <3>1. tuSession \in 1..Len(tuSessions)
      BY <1>6, <2>1
    <3>2. PICK s : s = tuSession
      OBVIOUS
    <3>3. tuSessions' = [tuSessions EXCEPT ![s] = "closed"]
      BY <1>5, <2>1, <3>2 DEF CmdCloseSession
    <3>4. tuSessions \in Seq({"open", "closed"})
      BY <1>1 DEF StreamTypes
    <3> QED
      BY <3>1, <3>2, <3>3, <3>4, ExceptSeq
  <2>2. CASE ~(tuSession # 0 /\ tuLink)
    BY <1>1, <1>5, <2>2 DEF CmdCloseSession, StreamTypes
  <2> QED
    BY <2>1, <2>2
<1>10. Settled'
  <2>1. tuSession' = tuSession /\ tuKeys' = tuKeys
    BY <1>2 DEF tuModel
  <2>2. CASE tuSession # 0 /\ tuLink
    BY <1>9, <2>1, <2>2 DEF Settled
  <2>3. CASE ~(tuSession # 0 /\ tuLink)
    BY <1>8, <2>1, <2>3 DEF Settled
  <2> QED
    BY <2>2, <2>3
<1>11. Going(i, c)
  <2>1. /\ tuKeys' = tuKeys /\ tuSession' = tuSession /\ tuStream' = tuStream /\ tuStatus' = tuStatus
        /\ tuItems' = tuItems /\ tuQuit' = tuQuit /\ tuStreams' = tuStreams /\ tuStreams \in Seq(Streams)
    BY <1>1, <1>2 DEF tuModel, StreamTypes
  <2>2. Len(tuSessions') >= Len(tuSessions) /\ c.session \in 0..Len(tuSessions')
    <3>1. c.session = tuSession /\ Len(tuSessions') = Len(tuSessions)
      BY <1>4, <1>5, <1>9
    <3> QED
      BY <1>6, <3>1
  <2>3. /\ \A s \in 1..Len(tuStreams) : /\ tuStreams'[s].session = tuStreams[s].session
                                        /\ tuStreams'[s].sent = tuStreams[s].sent
        /\ Len(tuStreams') = Len(tuStreams)
    BY <2>1
  <2> QED
    BY <1>4, <1>9, <2>1, <2>2, <2>3 DEF Going
<1>12. MayBecome(i, c) /\ Ending(i, c)
  BY <1>2, <1>4, <1>10 DEF MayBecome, Closing, Ending
<1>13. CmdCounts'
  BY <1>1, <1>2, <1>4, <1>9, GoingCountsSame
<1> QED
  BY <1>3, <1>4, <1>11, <1>12, <1>13, GoingStep

\* Close: nothing else opens or closes.
LEMMA CmdCloseClientStep == \A i \in DOMAIN tuCmds : TuIInv /\ CmdCloseClient(i) => TuIInv'
<1> SUFFICES ASSUME NEW i \in DOMAIN tuCmds, TuIInv, CmdCloseClient(i) PROVE TuIInv'
  OBVIOUS
<1>1. LinkTypes /\ StreamTypes /\ ModelTypes /\ CmdTypes /\ CmdCounts /\ LinkRight /\ ClosingRight
  BY DEF TuIInv
<1>2. /\ tuCmds[i].at = "close client" /\ CmdGoes(i, "complete") /\ tuStreams' = Broken(tuStreams)
      /\ tuDialed' = tuDialed /\ UNCHANGED <<tuKeys, tuModel, tuSessions>>
  BY DEF CmdCloseClient
<1>3. tuClosed' /\ tuClosed' \in BOOLEAN /\ ~tuLink' /\ tuLink' \in BOOLEAN
  BY DEF CmdCloseClient
<1>4. tuQuit = "quitting" /\ Settled
  BY <1>1, <1>2 DEF ClosingRight, Closing
<1>5. LinkTypes'
  BY <1>1, <1>2, <1>3 DEF LinkTypes
<1>6. LinkRight'
  BY <1>2, <1>3, <1>4 DEF LinkRight, tuModel
<1>7. PICK c \in Cmds : Put(i, i, c) /\ c.at = "complete" /\ c.session = tuCmds[i].session /\ c.stream = tuCmds[i].stream
  <2>1. "complete" \in CmdStates
    BY DEF CmdStates, Closing
  <2> QED
    BY <1>1, <1>2, <2>1, GoesOn
<1>8. Settled'
  BY <1>2, <1>4 DEF Settled, tuModel
<1>9. Going(i, c)
  <2>1. /\ tuKeys' = tuKeys /\ tuSession' = tuSession /\ tuStream' = tuStream /\ tuStatus' = tuStatus
        /\ tuItems' = tuItems /\ tuQuit' = tuQuit /\ tuSessions' = tuSessions /\ tuSessions \in Seq({"open", "closed"})
    BY <1>1, <1>2 DEF tuModel, StreamTypes
  <2>2. tuCmds[i].session \in 0..Len(tuSessions) /\ Len(tuSessions) \in Nat
    BY <1>1, StreamsTyped DEF CmdTypes
  <2>3. Len(tuSessions') >= Len(tuSessions) /\ c.session \in 0..Len(tuSessions')
    BY <1>7, <2>1, <2>2
  <2>4. /\ tuStreams' \in Seq(Streams) /\ Len(tuStreams') = Len(tuStreams)
        /\ \A s \in 1..Len(tuStreams) : /\ tuStreams'[s].session = tuStreams[s].session
                                        /\ tuStreams'[s].sent = tuStreams[s].sent
    BY <1>1, <1>2, BrokenStreams
  <2> QED
    BY <1>7, <2>1, <2>3, <2>4 DEF Going
<1>10. MayBecome(i, c) /\ Ending(i, c)
  BY <1>2, <1>3, <1>7, <1>8 DEF MayBecome, Closing, Ending
<1>11. CmdCounts'
  <2>1. Len(tuSessions') = Len(tuSessions)
    BY <1>2
  <2> QED
    BY <1>1, <1>2, <1>7, <2>1, GoingCountsSame
<1> QED
  BY <1>5, <1>6, <1>7, <1>9, <1>10, <1>11, GoingStep

\* InitStream: the stream is new, and nobody has written to it.
LEMMA CmdInitStreamStep == \A i \in DOMAIN tuCmds : TuIInv /\ CmdInitStream(i) => TuIInv'
<1> SUFFICES ASSUME NEW i \in DOMAIN tuCmds, TuIInv, CmdInitStream(i) PROVE TuIInv'
  OBVIOUS
<1>1. /\ LinkTypes /\ StreamTypes /\ ModelTypes /\ CmdTypes /\ CmdCounts /\ LinkRight /\ CmdsRight /\ CmdsApart
      /\ ClosingRight /\ SomeoneListens /\ QuitIsUnderway /\ ActiveIsCurrent
  BY DEF TuIInv
<1>2. /\ tuCmds[i].at = "open" /\ tuLink' = tuLink /\ tuDialed' = tuDialed /\ tuClosed' = tuClosed
      /\ UNCHANGED <<tuKeys, tuModel, tuSessions>>
  BY DEF CmdInitStream
<1>3. LinkTypes' /\ LinkRight'
  BY <1>1, <1>2 DEF LinkTypes, LinkRight, tuModel
<1>4. CASE CmdGoes(i, "failed") /\ UNCHANGED tuStreams
  <2>1. PICK c \in Cmds : Put(i, i, c) /\ c.at = "failed" /\ c.session = tuCmds[i].session /\ c.stream = tuCmds[i].stream
    <3>1. "failed" \in CmdStates
      BY DEF CmdStates
    <3> QED
      BY <1>1, <1>4, <3>1, GoesOn
  <2>2. Going(i, c)
    BY <1>1, <1>2, <1>4, <2>1, GoingAlone
  <2>3. MayBecome(i, c) /\ Ending(i, c)
    BY <1>2, <2>1 DEF MayBecome, Closing, Ending, Settled, tuModel
  <2>4. CmdCounts'
    BY <1>1, <1>2, <2>1, GoingCountsSame
  <2> QED
    BY <1>3, <2>1, <2>2, <2>3, <2>4, GoingStep
<1>5. ASSUME tuStreams' = Append(tuStreams, [session |-> tuCmds[i].session, in |-> << >>, broken |-> FALSE, sent |-> FALSE]),
             tuCmds' = [tuCmds EXCEPT ![i] = TuCmd("opened", 0, Len(tuStreams) + 1)]
      PROVE  TuIInv'
  <2>1. /\ Len(tuStreams) \in Nat /\ Len(tuSessions) \in Nat
        /\ tuSession \in 0..Len(tuSessions) /\ tuStream \in 0..Len(tuStreams)
        /\ \A j \in DOMAIN tuCmds : tuCmds[j].stream \in 0..Len(tuStreams) /\ tuCmds[j].session \in 0..Len(tuSessions)
    BY <1>1, StreamsTyped DEF ModelTypes, CmdTypes
  <2>2. tuCmds[i].session # 0 /\ \A s \in 1..Len(tuStreams) : tuStreams[s].session # tuCmds[i].session
    BY <1>1, <1>2 DEF CmdsRight
  <2>3. PICK n \in Nat : n = Len(tuStreams) + 1
    BY <2>1
  <2>4. PICK c : c = [at |-> "opened", session |-> 0, stream |-> n, ids |-> {}]
    OBVIOUS
  <2>5. c \in Cmds /\ c.at = "opened" /\ c.session = 0 /\ c.stream = n
    BY <2>4 DEF Cmds, CmdStates
  <2>6. Put(i, i, c)
    <3>1. tuCmds' = [tuCmds EXCEPT ![i] = c]
      BY <1>5, <2>3, <2>4 DEF TuCmd
    <3> QED
      BY <1>1, <2>5, <3>1, PutReplaced
  <2>7. PICK e : e = [session |-> tuCmds[i].session, in |-> << >>, broken |-> FALSE, sent |-> FALSE]
    OBVIOUS
  <2>8. e \in Streams /\ e.session = tuCmds[i].session /\ ~e.sent
    <3>1. tuCmds[i].session \in Nat
      BY <2>1
    <3>2. << >> \in Seq({"answer", "error"})
      OBVIOUS
    <3> QED
      BY <2>7, <3>1, <3>2 DEF Streams
  <2>9. /\ tuStreams' \in Seq(Streams) /\ Len(tuStreams') = n
        /\ \A s \in 1..Len(tuStreams) : tuStreams'[s] = tuStreams[s]
        /\ tuStreams'[n] = e
    <3>1. tuStreams' = Append(tuStreams, e) /\ tuStreams \in Seq(Streams)
      BY <1>1, <1>5, <2>7 DEF StreamTypes
    <3> QED
      BY <2>3, <2>8, <3>1, AppendProperties
  <2>10. /\ tuKeys' = tuKeys /\ tuSession' = tuSession /\ tuStream' = tuStream /\ tuStatus' = tuStatus
         /\ tuItems' = tuItems /\ tuQuit' = tuQuit /\ tuSessions' = tuSessions
    BY <1>2 DEF tuModel
  <2>11. /\ DOMAIN tuCmds' = DOMAIN tuCmds /\ tuCmds'[i] = c
         /\ \A j \in DOMAIN tuCmds : j # i => tuCmds'[j] = tuCmds[j]
    BY <2>6 DEF Put
  <2>12. \A s \in 1..n : s # n => s \in 1..Len(tuStreams)
    BY <2>1, <2>3
  <2>13. StreamTypes'
    <3>1. \A s \in 1..n : tuStreams'[s].session \in 1..Len(tuSessions)
      <4> SUFFICES ASSUME NEW s \in 1..n PROVE tuStreams'[s].session \in 1..Len(tuSessions)
        OBVIOUS
      <4>1. CASE s = n
        <5>1. tuCmds[i].session \in 1..Len(tuSessions)
          BY <2>1, <2>2
        <5> QED
          BY <2>8, <2>9, <4>1, <5>1
      <4>2. CASE s # n
        <5>1. s \in 1..Len(tuStreams)
          BY <2>12, <4>2
        <5> QED
          BY <1>1, <2>9, <5>1 DEF StreamTypes
      <4> QED
        BY <4>1, <4>2
    <3>2. tuSessions' \in Seq({"open", "closed"}) /\ tuSessions' = tuSessions
      BY <1>1, <2>10 DEF StreamTypes
    <3> QED
      BY <2>9, <3>1, <3>2 DEF StreamTypes
  <2>14. ModelTypes'
    <3>1. tuStream' \in 0..Len(tuStreams')
      BY <2>1, <2>3, <2>9, <2>10
    <3> QED
      BY <1>1, <2>10, <3>1 DEF ModelTypes
  <2>15. CmdTypes'
    <3>1. \A j \in DOMAIN tuCmds' : tuCmds'[j].stream \in 0..n /\ tuCmds'[j].session \in 0..Len(tuSessions)
      BY <2>1, <2>3, <2>5, <2>11
    <3> QED
      BY <2>6, <2>9, <2>10, <3>1 DEF CmdTypes, Put
  <2>16. CmdCounts'
    BY <1>1, <1>2, <2>5, <2>6, <2>10, GoingCountsSame
  <2>17. CmdsRight'
    <3> SUFFICES ASSUME NEW j \in DOMAIN tuCmds
                 PROVE  /\ tuCmds'[j].at \in {"created", "open"} =>
                             tuCmds'[j].session # 0 /\ \A s \in 1..n : tuStreams'[s].session # tuCmds'[j].session
                        /\ tuCmds'[j].at = "opened" =>
                             tuCmds'[j].stream # 0 /\ tuCmds'[j].stream # tuStream' /\ ~tuStreams'[tuCmds'[j].stream].sent
                        /\ tuCmds'[j].at \in {"read", "received"} => tuCmds'[j].stream # 0
                        /\ tuCmds'[j].at \in {"send", "read", "received"} /\ tuCmds'[j].stream # 0 => tuStream' # 0
      BY <2>9, <2>11 DEF CmdsRight
    <3>1. CASE j = i
      <4>1. n # 0 /\ n # tuStream
        BY <2>1, <2>3
      <4> QED
        BY <2>5, <2>8, <2>9, <2>10, <2>11, <3>1, <4>1
    <3>2. CASE j # i
      <4>1. tuCmds'[j] = tuCmds[j]
        BY <2>11, <3>2
      <4>2. ASSUME tuCmds[j].at \in {"created", "open"}, NEW s \in 1..n
            PROVE  tuStreams'[s].session # tuCmds[j].session
        <5>1. CASE s = n
          BY <1>1, <1>2, <2>8, <2>9, <3>2, <4>2, <5>1 DEF CmdsApart
        <5>2. CASE s # n
          BY <1>1, <2>9, <2>12, <4>2, <5>2 DEF CmdsRight
        <5> QED
          BY <5>1, <5>2
      <4>3. ASSUME tuCmds[j].at = "opened"
            PROVE  tuCmds[j].stream # 0 /\ tuCmds[j].stream # tuStream /\ ~tuStreams'[tuCmds[j].stream].sent
        <5>1. tuCmds[j].stream # 0 /\ tuCmds[j].stream # tuStream /\ ~tuStreams[tuCmds[j].stream].sent
          BY <1>1, <4>3 DEF CmdsRight
        <5>2. tuCmds[j].stream \in 1..Len(tuStreams)
          BY <2>1, <5>1
        <5>3. tuStreams'[tuCmds[j].stream] = tuStreams[tuCmds[j].stream]
          BY <2>9, <5>2
        <5> QED
          BY <5>1, <5>3
      <4> QED
        BY <1>1, <2>10, <4>1, <4>2, <4>3 DEF CmdsRight
    <3> QED
      BY <3>1, <3>2
  <2>18. CmdsApart'
    <3> SUFFICES ASSUME NEW j \in DOMAIN tuCmds, NEW k \in DOMAIN tuCmds, j # k
                 PROVE  /\ tuCmds'[j].at \in {"created", "open"} /\ tuCmds'[k].at \in {"created", "open"} =>
                             tuCmds'[j].session # tuCmds'[k].session
                        /\ tuCmds'[j].at = "opened" => tuCmds'[k].stream # tuCmds'[j].stream
                        /\ tuCmds'[j].at \in Closing => tuCmds'[k].at \notin Closing
      BY <2>11 DEF CmdsApart
    <3>1. CASE j = i
      <4>1. tuCmds'[k] = tuCmds[k] /\ tuCmds[k].stream # n
        BY <2>1, <2>3, <2>11, <3>1
      <4> QED
        BY <2>5, <2>11, <3>1, <4>1 DEF Closing
    <3>2. CASE k = i
      <4>1. tuCmds'[j] = tuCmds[j] /\ tuCmds[j].stream # n
        BY <2>1, <2>3, <2>11, <3>2
      <4> QED
        BY <2>5, <2>11, <3>2, <4>1 DEF Closing
    <3>3. CASE j # i /\ k # i
      BY <1>1, <2>11, <3>3 DEF CmdsApart
    <3> QED
      BY <3>1, <3>2, <3>3
  <2>19. Settled' <=> Settled
    BY <2>10 DEF Settled
  <2>20. ClosingRight'
    BY <1>1, <1>2, <2>5, <2>10, <2>11, <2>19 DEF ClosingRight, Closing
  <2>21. SomeoneListens'
    <3> SUFFICES ASSUME tuQuit = "no", tuStatus = "connected", tuStream # 0,
                        tuStreams'[tuStream].session = tuSession, tuStreams'[tuStream].sent
                 PROVE  \E j \in DOMAIN tuCmds' : /\ tuCmds'[j].stream = tuStream
                                                  /\ tuCmds'[j].at \in {"read", "received", "failed"}
      BY <2>10 DEF SomeoneListens
    <3>1. tuStream \in 1..Len(tuStreams)
      BY <2>1
    <3>2. tuStreams'[tuStream] = tuStreams[tuStream]
      BY <2>9, <3>1
    <3>3. PICK j \in DOMAIN tuCmds : tuCmds[j].stream = tuStream /\ tuCmds[j].at \in {"read", "received", "failed"}
      BY <1>1, <3>2 DEF SomeoneListens
    <3>4. j # i
      BY <1>2, <3>3
    <3> QED
      BY <2>11, <3>3, <3>4
  <2>22. ActiveIsCurrent'
    BY <1>1, <2>10 DEF ActiveIsCurrent
  <2>23. QuitIsUnderway'
    <3>1. ASSUME tuQuit = "quitting"
          PROVE  \E j \in DOMAIN tuCmds' : tuCmds'[j].at \in {"close session", "close client", "complete"}
      <4>1. PICK j \in DOMAIN tuCmds : tuCmds[j].at \in {"close session", "close client", "complete"}
        BY <1>1, <3>1 DEF QuitIsUnderway
      <4>2. j # i
        BY <1>2, <4>1
      <4> QED
        BY <2>11, <4>1, <4>2
    <3> QED
      BY <1>1, <1>2, <2>10, <3>1 DEF QuitIsUnderway
  <2> QED
    BY <1>3, <2>13, <2>14, <2>15, <2>16, <2>17, <2>18, <2>20, <2>21, <2>22, <2>23 DEF TuIInv
<1> QED
  BY <1>4, <1>5 DEF CmdInitStream

-----------------------------------------------------------------------------
(* Messages and keys: the server is left alone.                            *)

\* While the program does not quit, no command ends it.
LEMMA NothingCloses ==
    ASSUME TuIInv, tuQuit = "no"
    PROVE  ~tuClosed /\ \A j \in DOMAIN tuCmds : tuCmds[j].at \notin Closing
<1>1. ClosingRight /\ LinkRight
  BY DEF TuIInv
<1> QED
  BY <1>1 DEF ClosingRight, LinkRight

\* A message is taken, and nothing started.
TakenOnly(i) ==
    /\ Gone(i) /\ tuQuit = "no" /\ tuQuit' = tuQuit /\ tuSession' = tuSession /\ tuKeys' = tuKeys
    /\ tuLink' = tuLink /\ tuDialed' = tuDialed /\ tuClosed' = tuClosed
    /\ tuSessions' = tuSessions /\ tuStreams' = tuStreams
    /\ tuCmds[i].at \notin {"dial", "create"}
    /\ \/ tuStream' = tuStream
       \/ tuStream' = tuCmds[i].stream /\ tuCmds[i].at = "opened"

\* A message that starts nothing preserves the invariant if the model stays right.
LEMMA TakenStep ==
    ASSUME TuIInv, NEW i \in DOMAIN tuCmds, TakenOnly(i), ModelTypes', SomeoneListens', ActiveIsCurrent'
    PROVE  TuIInv'
<1>1. /\ LinkTypes /\ StreamTypes /\ ModelTypes /\ CmdTypes /\ CmdCounts /\ LinkRight /\ CmdsRight /\ CmdsApart
      /\ ClosingRight
  BY DEF TuIInv
<1>2. /\ tuQuit = "no" /\ tuQuit' = tuQuit /\ tuSession' = tuSession /\ tuKeys' = tuKeys
      /\ tuLink' = tuLink /\ tuDialed' = tuDialed /\ tuClosed' = tuClosed
      /\ tuSessions' = tuSessions /\ tuStreams' = tuStreams
  BY DEF TakenOnly
<1>3. DOMAIN tuCmds' = DOMAIN tuCmds \ {i} /\ \A j \in DOMAIN tuCmds' : tuCmds'[j] = tuCmds[j]
  BY DEF TakenOnly, Gone
<1>4. LinkTypes' /\ LinkRight'
  BY <1>1, <1>2 DEF LinkTypes, LinkRight
<1>5. StreamTypes'
  BY <1>1, <1>2 DEF StreamTypes
<1>6. CmdTypes'
  <2>1. IsFiniteSet(DOMAIN tuCmds') /\ tuCmds' \in [DOMAIN tuCmds' -> Cmds]
    BY DEF TakenOnly, Gone
  <2> QED
    BY <1>1, <1>2, <1>3, <2>1 DEF CmdTypes
<1>7. tuStream # 0 => tuStream' # 0
  BY <1>1 DEF TakenOnly, CmdsRight
<1>8. CmdCounts'
  <2>1. /\ Cardinality(DOMAIN tuCmds') = Cardinality(DOMAIN tuCmds) - 1 /\ Cardinality(DOMAIN tuCmds) \in Nat
        /\ Cardinality(CmdsAt("dial"))' = Cardinality(CmdsAt("dial")) /\ Cardinality(CmdsAt("dial")) \in Nat
        /\ Cardinality(CmdsAt("create"))' = Cardinality(CmdsAt("create")) /\ Cardinality(CmdsAt("create")) \in Nat
    <3>1. ~Was(i, "dial") /\ ~Was(i, "create")
      BY DEF TakenOnly, Was
    <3>2. Cardinality(DOMAIN tuCmds) \in Nat /\ \A at : Cardinality(CmdsAt(at)) \in Nat
      BY <1>1, CmdsFinite
    <3>3. Gone(i)
      BY DEF TakenOnly
    <3> QED
      BY <3>1, <3>2, <3>3 DEF Gone
  <2>2. tuKeys.texts \in Nat /\ tuKeys.retries \in Nat
    BY <1>1, TuAssumption DEF LinkTypes
  <2> QED
    BY <1>1, <1>2, <2>1, <2>2 DEF CmdCounts, Room
<1>9. CmdsRight'
  <2> SUFFICES ASSUME NEW j \in DOMAIN tuCmds, j # i
               PROVE  /\ tuCmds[j].at \in {"created", "open"} =>
                           tuCmds[j].session # 0 /\ \A s \in 1..Len(tuStreams) : tuStreams[s].session # tuCmds[j].session
                      /\ tuCmds[j].at = "opened" =>
                           tuCmds[j].stream # 0 /\ tuCmds[j].stream # tuStream' /\ ~tuStreams[tuCmds[j].stream].sent
                      /\ tuCmds[j].at \in {"read", "received"} => tuCmds[j].stream # 0
                      /\ tuCmds[j].at \in {"send", "read", "received"} /\ tuCmds[j].stream # 0 => tuStream' # 0
    BY <1>2, <1>3 DEF CmdsRight
  <2>1. tuCmds[j].at = "opened" => tuCmds[j].stream # tuStream'
    BY <1>1 DEF CmdsRight, CmdsApart, TakenOnly
  <2> QED
    BY <1>1, <1>7, <2>1 DEF CmdsRight
<1>10. CmdsApart'
  BY <1>1, <1>3 DEF CmdsApart
<1>11. ClosingRight' /\ QuitIsUnderway'
  <2>1. \A j \in DOMAIN tuCmds : tuCmds[j].at \notin Closing
    BY <1>2, NothingCloses
  <2> QED
    BY <1>2, <1>3, <2>1 DEF ClosingRight, Closing, QuitIsUnderway
<1> QED
  BY <1>4, <1>5, <1>6, <1>8, <1>9, <1>10, <1>11 DEF TuIInv

\* The error is shown.
LEMMA CmdFailedStep == \A i \in DOMAIN tuCmds : TuIInv /\ CmdFailed(i) => TuIInv'
<1> SUFFICES ASSUME NEW i \in DOMAIN tuCmds, TuIInv, CmdFailed(i) PROVE TuIInv'
  OBVIOUS
<1>1. ModelTypes /\ CmdTypes /\ ActiveIsCurrent
  BY DEF TuIInv
<1>2. /\ tuQuit = "no" /\ tuCmds[i].at = "failed" /\ tuStatus' = "error" /\ tuCmds' = Took(i)
      /\ tuQuit' = tuQuit /\ tuSession' = tuSession /\ tuStream' = tuStream /\ tuItems' = tuItems
  BY DEF CmdFailed
<1>3. Gone(i)
  BY <1>1, <1>2, GoneOne
<1>4. TakenOnly(i)
  BY <1>2, <1>3 DEF TakenOnly, CmdFailed, tuServer
<1>5. ModelTypes'
  BY <1>1, <1>2, <1>4 DEF ModelTypes, TakenOnly
<1>6. SomeoneListens' /\ ActiveIsCurrent'
  BY <1>1, <1>2 DEF SomeoneListens, ActiveIsCurrent
<1> QED
  BY <1>4, <1>5, <1>6, TakenStep

\* The stream in use was only opened.
LEMMA StreamInitializedStep == \A i \in DOMAIN tuCmds : TuIInv /\ StreamInitialized(i) => TuIInv'
<1> SUFFICES ASSUME NEW i \in DOMAIN tuCmds, TuIInv, StreamInitialized(i) PROVE TuIInv'
  OBVIOUS
<1>1. ModelTypes /\ CmdTypes /\ ActiveIsCurrent /\ CmdsRight
  BY DEF TuIInv
<1>2. /\ tuQuit = "no" /\ tuCmds[i].at = "opened" /\ tuStream' = tuCmds[i].stream /\ tuCmds' = Took(i)
      /\ tuQuit' = tuQuit /\ tuSession' = tuSession /\ tuStatus' = tuStatus /\ tuItems' = tuItems
  BY DEF StreamInitialized
<1>3. Gone(i)
  BY <1>1, <1>2, GoneOne
<1>4. TakenOnly(i)
  BY <1>2, <1>3 DEF TakenOnly, StreamInitialized, tuServer
<1>5. ModelTypes'
  <2>1. tuStream' \in 0..Len(tuStreams)
    BY <1>1, <1>2 DEF CmdTypes
  <2> QED
    BY <1>1, <1>2, <1>4, <2>1 DEF ModelTypes, TakenOnly
<1>6. SomeoneListens'
  <2>1. tuStreams' = tuStreams /\ ~tuStreams[tuStream'].sent
    BY <1>1, <1>2, <1>4 DEF CmdsRight, TakenOnly
  <2> QED
    BY <2>1 DEF SomeoneListens
<1>7. ActiveIsCurrent'
  BY <1>1, <1>2 DEF ActiveIsCurrent
<1> QED
  BY <1>4, <1>5, <1>6, <1>7, TakenStep

\* The list marks the session in use or none.
LEMMA SessionsListedStep == \A i \in DOMAIN tuCmds : TuIInv /\ SessionsListed(i) => TuIInv'
<1> SUFFICES ASSUME NEW i \in DOMAIN tuCmds, TuIInv, SessionsListed(i) PROVE TuIInv'
  OBVIOUS
<1>1. ModelTypes /\ CmdTypes /\ ActiveIsCurrent /\ SomeoneListens /\ StreamTypes
  BY DEF TuIInv
<1>2. /\ tuQuit = "no" /\ tuCmds[i].at \in {"listed", "unlisted"} /\ tuCmds' = Took(i)
      /\ tuQuit' = tuQuit /\ tuSession' = tuSession /\ tuStatus' = tuStatus /\ tuStream' = tuStream
  BY DEF SessionsListed
<1>3. Gone(i)
  BY <1>1, <1>2, GoneOne
<1>4. TakenOnly(i)
  BY <1>2, <1>3 DEF TakenOnly, SessionsListed, tuServer
<1>5. tuItems' \in [ids : SUBSET Nat, active : Nat] /\ tuItems'.active \in {0, tuSession}
  <2>1. tuItems \in [ids : SUBSET Nat, active : Nat] /\ tuItems.active \in {0, tuSession}
    BY <1>1 DEF ModelTypes, ActiveIsCurrent
  <2>2. tuSession \in Nat
    <3>1. tuSession \in 0..Len(tuSessions) /\ Len(tuSessions) \in Nat
      BY <1>1, StreamsTyped DEF ModelTypes
    <3> QED
      BY <3>1
  <2>3. PICK ids : ids = tuCmds[i].ids
    OBVIOUS
  <2>4. ids \in SUBSET Nat
    BY <1>1, <2>3 DEF CmdTypes, Cmds
  <2>5. CASE tuCmds[i].at = "listed"
    <3>1. tuItems' = [ids |-> ids, active |-> IF tuSession \in ids THEN tuSession ELSE 0]
      BY <2>3, <2>5 DEF SessionsListed
    <3> QED
      BY <2>2, <2>4, <3>1
  <2>6. CASE tuCmds[i].at = "unlisted" /\ tuSession # 0
    <3>1. tuItems' = [ids |-> {tuSession}, active |-> tuSession]
      BY <2>6 DEF SessionsListed
    <3> QED
      BY <2>2, <3>1
  <2>7. CASE tuCmds[i].at = "unlisted" /\ tuSession = 0
    <3>1. tuItems' = tuItems
      BY <2>7 DEF SessionsListed
    <3> QED
      BY <2>1, <3>1
  <2> QED
    BY <1>2, <2>5, <2>6, <2>7
<1>6. ModelTypes'
  BY <1>1, <1>2, <1>4, <1>5 DEF ModelTypes, TakenOnly
<1>7. SomeoneListens'
  <2>1. /\ tuStreams' = tuStreams /\ DOMAIN tuCmds' = DOMAIN tuCmds \ {i}
        /\ \A j \in DOMAIN tuCmds \ {i} : tuCmds'[j] = tuCmds[j]
    BY <1>3, <1>4 DEF TakenOnly, Gone
  <2> QED
    BY <1>1, <1>2, <2>1 DEF SomeoneListens
<1>8. ActiveIsCurrent'
  BY <1>2, <1>5 DEF ActiveIsCurrent
<1> QED
  BY <1>4, <1>6, <1>7, <1>8, TakenStep

\* A command is started, in the place of a message or on its own.
Started(i, k, c) ==
    /\ Put(i, k, c) /\ tuQuit = "no" /\ tuStream' = tuStream
    /\ tuLink' = tuLink /\ tuDialed' = tuDialed /\ tuClosed' = tuClosed
    /\ tuSessions' = tuSessions /\ tuStreams' = tuStreams
    /\ tuKeys'.losses = tuKeys.losses

\* What may be started.
MayStart(i, c) ==
    /\ c.at \in {"dial", "list", "send", "read", "open", "close session"}
    /\ c.stream \in {0, tuStream} /\ c.session \in 0..Len(tuSessions)
    /\ c.at = "open" => i \in DOMAIN tuCmds /\ tuCmds[i].at = "created" /\ c.session = tuCmds[i].session
    /\ c.at = "read" => tuStream # 0 /\ c.stream = tuStream
    /\ IF c.at = "close session" THEN tuQuit' = "quitting" /\ c.session = tuSession' ELSE tuQuit' = "no"

\* Starting a command preserves the invariant if the model stays right.
LEMMA StartedStep ==
    ASSUME TuIInv, NEW i, NEW k, NEW c \in Cmds, Started(i, k, c), MayStart(i, c),
           LinkTypes', ModelTypes', CmdCounts', SomeoneListens', ActiveIsCurrent'
    PROVE  TuIInv'
<1>1. /\ LinkTypes /\ StreamTypes /\ ModelTypes /\ CmdTypes /\ LinkRight /\ CmdsRight /\ CmdsApart
      /\ ClosingRight
  BY DEF TuIInv
<1>2. /\ tuQuit = "no" /\ tuStream' = tuStream
      /\ tuLink' = tuLink /\ tuDialed' = tuDialed /\ tuClosed' = tuClosed
      /\ tuSessions' = tuSessions /\ tuStreams' = tuStreams /\ tuKeys'.losses = tuKeys.losses
  BY DEF Started
<1>3. /\ DOMAIN tuCmds' = (DOMAIN tuCmds \ {i}) \cup {k} /\ tuCmds'[k] = c
      /\ \A j \in DOMAIN tuCmds \ {i} : tuCmds'[j] = tuCmds[j] /\ j # k
  BY DEF Started, Put
<1>4. \A j \in DOMAIN tuCmds' : j # k => j \in DOMAIN tuCmds /\ j # i /\ tuCmds'[j] = tuCmds[j]
  BY <1>3
<1>5. LinkRight'
  BY <1>1, <1>2 DEF LinkRight
<1>6. StreamTypes'
  BY <1>1, <1>2 DEF StreamTypes
<1>7. /\ Len(tuStreams) \in Nat /\ tuStream \in 0..Len(tuStreams) /\ c.session \in 0..Len(tuSessions)
      /\ c.stream \in 0..Len(tuStreams)
  <2>1. Len(tuStreams) \in Nat /\ tuStream \in 0..Len(tuStreams) /\ c.stream \in {0, tuStream}
    BY <1>1, StreamsTyped DEF ModelTypes, MayStart
  <2>2. c.session \in 0..Len(tuSessions)
    BY DEF MayStart
  <2>3. 0 \in 0..Len(tuStreams)
    BY <2>1
  <2> QED
    BY <2>1, <2>2, <2>3
<1>8. CmdTypes'
  <2>1. IsFiniteSet(DOMAIN tuCmds') /\ tuCmds' \in [DOMAIN tuCmds' -> Cmds]
    BY DEF Started, Put
  <2>2. ASSUME NEW j \in DOMAIN tuCmds'
        PROVE  tuCmds'[j].stream \in 0..Len(tuStreams) /\ tuCmds'[j].session \in 0..Len(tuSessions)
    <3>1. CASE j = k
      BY <1>3, <1>7, <3>1
    <3>2. CASE j # k
      BY <1>1, <1>4, <3>2 DEF CmdTypes
    <3> QED
      BY <3>1, <3>2
  <2> QED
    BY <1>2, <2>1, <2>2 DEF CmdTypes
<1>9. \A j \in DOMAIN tuCmds : tuCmds[j].at \notin Closing
  BY <1>2, NothingCloses
<1>10. CmdsRight'
  <2> SUFFICES ASSUME NEW j \in DOMAIN tuCmds'
               PROVE  /\ tuCmds'[j].at \in {"created", "open"} =>
                           tuCmds'[j].session # 0 /\ \A s \in 1..Len(tuStreams) : tuStreams[s].session # tuCmds'[j].session
                      /\ tuCmds'[j].at = "opened" =>
                           tuCmds'[j].stream # 0 /\ tuCmds'[j].stream # tuStream /\ ~tuStreams[tuCmds'[j].stream].sent
                      /\ tuCmds'[j].at \in {"read", "received"} => tuCmds'[j].stream # 0
                      /\ tuCmds'[j].at \in {"send", "read", "received"} /\ tuCmds'[j].stream # 0 => tuStream # 0
    BY <1>2 DEF CmdsRight
  <2>1. CASE j = k
    BY <1>1, <1>3, <2>1 DEF MayStart, CmdsRight
  <2>2. CASE j # k
    BY <1>1, <1>4, <2>2 DEF CmdsRight
  <2> QED
    BY <2>1, <2>2
<1>11. CmdsApart'
  <2> SUFFICES ASSUME NEW j \in DOMAIN tuCmds', NEW l \in DOMAIN tuCmds', j # l
               PROVE  /\ tuCmds'[j].at \in {"created", "open"} /\ tuCmds'[l].at \in {"created", "open"} =>
                           tuCmds'[j].session # tuCmds'[l].session
                      /\ tuCmds'[j].at = "opened" => tuCmds'[l].stream # tuCmds'[j].stream
                      /\ tuCmds'[j].at \in Closing => tuCmds'[l].at \notin Closing
    BY DEF CmdsApart
  <2>1. CASE j = k
    <3>1. l \in DOMAIN tuCmds /\ l # i /\ tuCmds'[l] = tuCmds[l] /\ tuCmds'[j] = c
      BY <1>3, <1>4, <2>1
    <3>2. tuCmds[l].at \notin Closing /\ c.at # "opened"
      BY <1>9, <3>1 DEF MayStart
    <3>3. c.at \in {"created", "open"} /\ tuCmds[l].at \in {"created", "open"} => c.session # tuCmds[l].session
      BY <1>1, <3>1 DEF MayStart, CmdsApart
    <3> QED
      BY <3>1, <3>2, <3>3
  <2>2. CASE l = k
    <3>1. j \in DOMAIN tuCmds /\ j # i /\ tuCmds'[j] = tuCmds[j] /\ tuCmds'[l] = c
      BY <1>3, <1>4, <2>2
    <3>2. tuCmds[j].at \notin Closing
      BY <1>9, <3>1
    <3>3. c.at \in {"created", "open"} /\ tuCmds[j].at \in {"created", "open"} => c.session # tuCmds[j].session
      BY <1>1, <3>1 DEF MayStart, CmdsApart
    <3>4. tuCmds[j].at = "opened" => tuCmds[j].stream # 0 /\ tuCmds[j].stream # tuStream
      BY <1>1, <3>1 DEF CmdsRight
    <3> QED
      BY <3>1, <3>2, <3>3, <3>4 DEF MayStart
  <2>3. CASE j # k /\ l # k
    BY <1>1, <1>4, <2>3 DEF CmdsApart
  <2> QED
    BY <2>1, <2>2, <2>3
<1>12. ClosingRight' /\ QuitIsUnderway'
  <2>1. ~tuClosed'
    BY <1>2, NothingCloses
  <2>2. ClosingRight'
    <3> SUFFICES ASSUME NEW j \in DOMAIN tuCmds'
                 PROVE  /\ tuCmds'[j].at \in Closing => tuQuit' = "quitting"
                        /\ tuCmds'[j].at = "close session" => tuCmds'[j].session = tuSession' /\ ~tuClosed'
                        /\ tuCmds'[j].at = "close client" => Settled'
                        /\ tuCmds'[j].at = "complete" => tuClosed' /\ Settled'
      BY DEF ClosingRight
    <3>1. CASE j = k
      BY <1>3, <2>1, <3>1 DEF MayStart, Closing
    <3>2. CASE j # k
      BY <1>4, <1>9, <3>2 DEF Closing
    <3> QED
      BY <3>1, <3>2
  <2>3. QuitIsUnderway'
    <3>1. CASE c.at = "close session"
      <4>1. tuQuit' = "quitting" /\ k \in DOMAIN tuCmds' /\ tuCmds'[k].at = "close session"
        BY <1>3, <3>1 DEF MayStart
      <4> QED
        BY <4>1 DEF QuitIsUnderway
    <3>2. CASE c.at # "close session"
      <4>1. tuQuit' = "no"
        BY <3>2 DEF MayStart
      <4> QED
        BY <4>1 DEF QuitIsUnderway
    <3> QED
      BY <3>1, <3>2
  <2> QED
    BY <2>2, <2>3
<1> QED
  BY <1>5, <1>6, <1>8, <1>10, <1>11, <1>12 DEF TuIInv

\* A command of the model.
LEMMA CmdMade ==
    ASSUME NEW at \in CmdStates, NEW session \in Nat, NEW stream \in Nat
    PROVE  /\ TuCmd(at, session, stream) \in Cmds
           /\ TuCmd(at, session, stream).at = at /\ TuCmd(at, session, stream).session = session
           /\ TuCmd(at, session, stream).stream = stream
  BY DEF TuCmd, Cmds

\* How the numbers of commands change when one is started on its own.
LEMMA StartedCounts ==
    ASSUME CmdTypes, NEW k, k \notin DOMAIN tuCmds, NEW c \in Cmds, Put(k, k, c), c.at # "create"
    PROVE  /\ Cardinality(DOMAIN tuCmds)' = Cardinality(DOMAIN tuCmds) + 1 /\ Cardinality(DOMAIN tuCmds) \in Nat
           /\ c.at = "dial" => Cardinality(CmdsAt("dial"))' = Cardinality(CmdsAt("dial")) + 1
           /\ c.at # "dial" => Cardinality(CmdsAt("dial"))' = Cardinality(CmdsAt("dial"))
           /\ Cardinality(CmdsAt("dial")) \in Nat
           /\ Cardinality(CmdsAt("create"))' = Cardinality(CmdsAt("create")) /\ Cardinality(CmdsAt("create")) \in Nat
<1>1. Cardinality(DOMAIN tuCmds) \in Nat /\ \A at : Cardinality(CmdsAt(at)) \in Nat
  BY CmdsFinite
<1>2. ~Was(k, "dial") /\ ~Was(k, "create")
  BY DEF Was
<1> QED
  BY <1>1, <1>2 DEF Put

\* A retry or a list: the counter they share.
LEMMA RetriesCounted ==
    ASSUME LinkTypes, tuKeys.retries < MaxControls, Counts("retries")
    PROVE  /\ tuKeys' \in [texts : Nat, answers : Nat, losses : Nat, retries : 0..MaxControls]
           /\ tuKeys'.retries = tuKeys.retries + 1 /\ tuKeys'.texts = tuKeys.texts /\ tuKeys'.losses = tuKeys.losses
<1>1. tuKeys.retries + 1 \in 0..MaxControls
  BY TuAssumption DEF LinkTypes
<1> QED
  BY <1>1 DEF Counts, LinkTypes

\* The keys leave the listeners alone.
LEMMA StillHeard ==
    ASSUME SomeoneListens, NEW k, NEW c, Started(k, k, c), k \notin DOMAIN tuCmds,
           tuStatus' = tuStatus \/ tuStatus' # "connected", tuSession' = tuSession
    PROVE  SomeoneListens'
<1>1. /\ tuQuit = "no" /\ tuStream' = tuStream /\ tuStreams' = tuStreams
      /\ DOMAIN tuCmds \subseteq DOMAIN tuCmds' /\ \A j \in DOMAIN tuCmds : tuCmds'[j] = tuCmds[j]
  BY DEF Started, Put
<1> QED
  BY <1>1 DEF SomeoneListens

\* The message typed goes to the stream in use.
LEMMA KeyEnterStep == TuIInv /\ KeyEnter => TuIInv'
<1> SUFFICES ASSUME TuIInv, KeyEnter PROVE TuIInv'
  OBVIOUS
<1>1. LinkTypes /\ StreamTypes /\ ModelTypes /\ CmdTypes /\ CmdCounts /\ SomeoneListens /\ ActiveIsCurrent
  BY DEF TuIInv
<1>2. /\ tuQuit = "no" /\ Counts("texts") /\ UNCHANGED <<tuServer, tuModel>>
      /\ tuCmds' = With(tuCmds, TuCmd("send", 0, tuStream))
  BY DEF KeyEnter, Starts
<1>3. Len(tuStreams) \in Nat /\ Len(tuSessions) \in Nat /\ tuStream \in 0..Len(tuStreams)
  BY <1>1, StreamsTyped DEF ModelTypes
<1>4. PICK c \in Cmds : tuCmds' = With(tuCmds, c) /\ c.at = "send" /\ c.session = 0 /\ c.stream = tuStream
  <2>1. "send" \in CmdStates /\ 0 \in Nat /\ tuStream \in Nat
    BY <1>3 DEF CmdStates
  <2> QED
    BY <1>2, <2>1, CmdMade
<1>5. PICK k : Put(k, k, c) /\ k \notin DOMAIN tuCmds
  BY <1>1, <1>4, PutStarted
<1>6. /\ tuKeys' \in [texts : Nat, answers : Nat, losses : Nat, retries : 0..MaxControls]
      /\ tuKeys'.texts = tuKeys.texts + 1 /\ tuKeys'.retries = tuKeys.retries /\ tuKeys'.losses = tuKeys.losses
  BY <1>1, <1>2, KeysCounted
<1>7. Started(k, k, c)
  BY <1>2, <1>5, <1>6 DEF Started, tuServer, tuModel
<1>8. MayStart(k, c)
  <2>1. 0 \in 0..Len(tuSessions)
    BY <1>3
  <2> QED
    BY <1>2, <1>4, <2>1 DEF MayStart, tuModel
<1>9. LinkTypes'
  BY <1>1, <1>2, <1>6 DEF LinkTypes, tuServer
<1>10. ModelTypes' /\ ActiveIsCurrent'
  BY <1>1, <1>2 DEF ModelTypes, ActiveIsCurrent, tuServer, tuModel
<1>11. SomeoneListens'
  BY <1>1, <1>2, <1>5, <1>7, StillHeard DEF tuModel
<1>12. CmdCounts'
  <2>1. tuKeys.texts \in Nat /\ tuKeys.retries \in Nat
    BY <1>1, TuAssumption DEF LinkTypes
  <2>2. tuStream' = tuStream /\ tuQuit' = tuQuit /\ tuDialed' = tuDialed /\ tuSessions' = tuSessions
    BY <1>2 DEF tuServer, tuModel
  <2>3. /\ Cardinality(DOMAIN tuCmds)' = Cardinality(DOMAIN tuCmds) + 1 /\ Cardinality(DOMAIN tuCmds) \in Nat
        /\ Cardinality(CmdsAt("dial"))' = Cardinality(CmdsAt("dial"))
        /\ Cardinality(CmdsAt("create"))' = Cardinality(CmdsAt("create"))
    BY <1>1, <1>4, <1>5, StartedCounts
  <2>4. Room' = Room + 1 /\ Room \in Nat
    BY <1>6, <2>1, <2>2 DEF Room
  <2> QED
    BY <1>1, <1>2, <1>6, <2>1, <2>2, <2>3, <2>4 DEF CmdCounts
<1> QED
  BY <1>7, <1>8, <1>9, <1>10, <1>11, <1>12, StartedStep

\* A retry dials.
LEMMA KeyRetryStep == TuIInv /\ KeyRetry => TuIInv'
<1> SUFFICES ASSUME TuIInv, KeyRetry PROVE TuIInv'
  OBVIOUS
<1>1. LinkTypes /\ StreamTypes /\ ModelTypes /\ CmdTypes /\ CmdCounts /\ SomeoneListens /\ ActiveIsCurrent
  BY DEF TuIInv
<1>2. /\ tuQuit = "no" /\ tuKeys.retries < MaxControls /\ Counts("retries") /\ tuStatus' = "connecting"
      /\ UNCHANGED <<tuServer, tuSession, tuStream, tuItems, tuQuit>>
      /\ tuCmds' = With(tuCmds, TuCmd("dial", 0, 0))
  BY DEF KeyRetry, Starts
<1>3. Len(tuSessions) \in Nat
  BY <1>1, StreamsTyped
<1>4. PICK c \in Cmds : tuCmds' = With(tuCmds, c) /\ c.at = "dial" /\ c.session = 0 /\ c.stream = 0
  <2>1. "dial" \in CmdStates /\ 0 \in Nat
    BY DEF CmdStates
  <2> QED
    BY <1>2, <2>1, CmdMade
<1>5. PICK k : Put(k, k, c) /\ k \notin DOMAIN tuCmds
  BY <1>1, <1>4, PutStarted
<1>6. /\ tuKeys' \in [texts : Nat, answers : Nat, losses : Nat, retries : 0..MaxControls]
      /\ tuKeys'.retries = tuKeys.retries + 1 /\ tuKeys'.texts = tuKeys.texts /\ tuKeys'.losses = tuKeys.losses
  BY <1>1, <1>2, RetriesCounted
<1>7. Started(k, k, c)
  BY <1>2, <1>5, <1>6 DEF Started, tuServer
<1>8. MayStart(k, c)
  <2>1. 0 \in 0..Len(tuSessions)
    BY <1>3
  <2> QED
    BY <1>2, <1>4, <2>1 DEF MayStart
<1>9. LinkTypes'
  BY <1>1, <1>2, <1>6 DEF LinkTypes, tuServer
<1>10. ModelTypes' /\ ActiveIsCurrent'
  BY <1>1, <1>2 DEF ModelTypes, ActiveIsCurrent, tuServer
<1>11. SomeoneListens'
  BY <1>2 DEF SomeoneListens
<1>12. CmdCounts'
  <2>1. tuKeys.texts \in Nat /\ tuKeys.retries \in Nat /\ tuDialed \in Nat
    BY <1>1, TuAssumption DEF LinkTypes
  <2>2. tuStream' = tuStream /\ tuQuit' = tuQuit /\ tuDialed' = tuDialed /\ tuSessions' = tuSessions
    BY <1>2 DEF tuServer
  <2>3. /\ Cardinality(DOMAIN tuCmds)' = Cardinality(DOMAIN tuCmds) + 1 /\ Cardinality(DOMAIN tuCmds) \in Nat
        /\ Cardinality(CmdsAt("dial"))' = Cardinality(CmdsAt("dial")) + 1 /\ Cardinality(CmdsAt("dial")) \in Nat
        /\ Cardinality(CmdsAt("create"))' = Cardinality(CmdsAt("create"))
    BY <1>1, <1>4, <1>5, StartedCounts
  <2>4. Room' = Room + 1 /\ Room \in Nat
    BY <1>6, <2>1, <2>2 DEF Room
  <2>5. /\ Cardinality(DOMAIN tuCmds) <= Room
        /\ tuDialed + Cardinality(CmdsAt("dial")) <= tuKeys.retries + 1
        /\ Len(tuSessions) + Cardinality(CmdsAt("create")) <= tuDialed
    BY <1>1 DEF CmdCounts
  <2>6. Cardinality(DOMAIN tuCmds)' <= Room'
    BY <2>3, <2>4, <2>5
  <2>7. tuDialed' + Cardinality(CmdsAt("dial"))' <= tuKeys'.retries + 1
    BY <1>6, <2>1, <2>2, <2>3, <2>5
  <2>8. Len(tuSessions)' + Cardinality(CmdsAt("create"))' <= tuDialed'
    BY <2>2, <2>3, <2>5
  <2> QED
    BY <2>6, <2>7, <2>8 DEF CmdCounts
<1> QED
  BY <1>7, <1>8, <1>9, <1>10, <1>11, <1>12, StartedStep

\* ctrl+l.
LEMMA KeyListStep == TuIInv /\ KeyList => TuIInv'
<1> SUFFICES ASSUME TuIInv, KeyList PROVE TuIInv'
  OBVIOUS
<1>1. LinkTypes /\ StreamTypes /\ ModelTypes /\ CmdTypes /\ CmdCounts /\ SomeoneListens /\ ActiveIsCurrent
  BY DEF TuIInv
<1>2. /\ tuQuit = "no" /\ tuKeys.retries < MaxControls /\ Counts("retries") /\ UNCHANGED <<tuServer, tuModel>>
      /\ tuCmds' = With(tuCmds, TuCmd("list", 0, 0))
  BY DEF KeyList, Starts
<1>3. Len(tuSessions) \in Nat
  BY <1>1, StreamsTyped
<1>4. PICK c \in Cmds : tuCmds' = With(tuCmds, c) /\ c.at = "list" /\ c.session = 0 /\ c.stream = 0
  <2>1. "list" \in CmdStates /\ 0 \in Nat
    BY DEF CmdStates
  <2> QED
    BY <1>2, <2>1, CmdMade
<1>5. PICK k : Put(k, k, c) /\ k \notin DOMAIN tuCmds
  BY <1>1, <1>4, PutStarted
<1>6. /\ tuKeys' \in [texts : Nat, answers : Nat, losses : Nat, retries : 0..MaxControls]
      /\ tuKeys'.retries = tuKeys.retries + 1 /\ tuKeys'.texts = tuKeys.texts /\ tuKeys'.losses = tuKeys.losses
  BY <1>1, <1>2, RetriesCounted
<1>7. Started(k, k, c)
  BY <1>2, <1>5, <1>6 DEF Started, tuServer, tuModel
<1>8. MayStart(k, c)
  <2>1. 0 \in 0..Len(tuSessions)
    BY <1>3
  <2> QED
    BY <1>2, <1>4, <2>1 DEF MayStart, tuModel
<1>9. LinkTypes'
  BY <1>1, <1>2, <1>6 DEF LinkTypes, tuServer
<1>10. ModelTypes' /\ ActiveIsCurrent'
  BY <1>1, <1>2 DEF ModelTypes, ActiveIsCurrent, tuServer, tuModel
<1>11. SomeoneListens'
  BY <1>1, <1>2, <1>5, <1>7, StillHeard DEF tuModel
<1>12. CmdCounts'
  <2>1. tuKeys.texts \in Nat /\ tuKeys.retries \in Nat /\ tuDialed \in Nat
    BY <1>1, TuAssumption DEF LinkTypes
  <2>2. tuStream' = tuStream /\ tuQuit' = tuQuit /\ tuDialed' = tuDialed /\ tuSessions' = tuSessions
    BY <1>2 DEF tuServer, tuModel
  <2>3. /\ Cardinality(DOMAIN tuCmds)' = Cardinality(DOMAIN tuCmds) + 1 /\ Cardinality(DOMAIN tuCmds) \in Nat
        /\ Cardinality(CmdsAt("dial"))' = Cardinality(CmdsAt("dial")) /\ Cardinality(CmdsAt("dial")) \in Nat
        /\ Cardinality(CmdsAt("create"))' = Cardinality(CmdsAt("create"))
    BY <1>1, <1>4, <1>5, StartedCounts
  <2>4. Room' = Room + 1 /\ Room \in Nat
    BY <1>6, <2>1, <2>2 DEF Room
  <2> QED
    BY <1>1, <1>2, <1>6, <2>1, <2>2, <2>3, <2>4 DEF CmdCounts
<1> QED
  BY <1>7, <1>8, <1>9, <1>10, <1>11, <1>12, StartedStep

\* The program is told to quit.
LEMMA KeyQuitStep == TuIInv /\ KeyQuit => TuIInv'
<1> SUFFICES ASSUME TuIInv, KeyQuit PROVE TuIInv'
  OBVIOUS
<1>1. LinkTypes /\ StreamTypes /\ ModelTypes /\ CmdTypes /\ CmdCounts /\ ActiveIsCurrent
  BY DEF TuIInv
<1>2. /\ tuQuit = "no" /\ tuQuit' = "quitting" /\ UNCHANGED <<tuServer, tuSession, tuStream, tuStatus, tuItems, tuKeys>>
      /\ tuCmds' = With(tuCmds, TuCmd("close session", tuSession, 0))
  BY DEF KeyQuit, Starts
<1>3. Len(tuSessions) \in Nat /\ tuSession \in 0..Len(tuSessions)
  BY <1>1, StreamsTyped DEF ModelTypes
<1>4. PICK c \in Cmds : tuCmds' = With(tuCmds, c) /\ c.at = "close session" /\ c.session = tuSession /\ c.stream = 0
  <2>1. "close session" \in CmdStates /\ 0 \in Nat /\ tuSession \in Nat
    BY <1>3 DEF CmdStates, Closing
  <2>2. PICK c : c = TuCmd("close session", tuSession, 0)
    OBVIOUS
  <2>3. c \in Cmds /\ c.at = "close session" /\ c.session = tuSession /\ c.stream = 0
    BY <2>1, <2>2 DEF TuCmd, Cmds
  <2>4. tuCmds' = With(tuCmds, c)
    BY <1>2, <2>2
  <2> QED
    BY <2>3, <2>4
<1>5. PICK k : Put(k, k, c) /\ k \notin DOMAIN tuCmds
  BY <1>1, <1>4, PutStarted
<1>6. Started(k, k, c)
  BY <1>2, <1>5 DEF Started, tuServer
<1>7. MayStart(k, c)
  BY <1>2, <1>3, <1>4 DEF MayStart
<1>8. LinkTypes'
  BY <1>1, <1>2 DEF LinkTypes, tuServer
<1>9. ModelTypes' /\ ActiveIsCurrent'
  BY <1>1, <1>2 DEF ModelTypes, ActiveIsCurrent, tuServer
<1>10. SomeoneListens'
  BY <1>2 DEF SomeoneListens
<1>11. CmdCounts'
  <2>1. tuKeys.texts \in Nat /\ tuKeys.retries \in Nat /\ tuDialed \in Nat
    BY <1>1, TuAssumption DEF LinkTypes
  <2>2. tuQuit = "no" /\ tuQuit' = "quitting" /\ tuStream' = tuStream /\ tuKeys' = tuKeys /\ tuDialed' = tuDialed /\ tuSessions' = tuSessions
    BY <1>2 DEF tuServer
  <2>3. /\ Cardinality(DOMAIN tuCmds)' = Cardinality(DOMAIN tuCmds) + 1 /\ Cardinality(DOMAIN tuCmds) \in Nat
        /\ Cardinality(CmdsAt("dial"))' = Cardinality(CmdsAt("dial"))
        /\ Cardinality(CmdsAt("create"))' = Cardinality(CmdsAt("create"))
    BY <1>1, <1>4, <1>5, StartedCounts
  <2>4. Room' = Room + 1 /\ Room \in Nat
    BY <2>1, <2>2 DEF Room
  <2> QED
    BY <1>1, <2>1, <2>2, <2>3, <2>4 DEF CmdCounts
<1> QED
  BY <1>6, <1>7, <1>8, <1>9, <1>10, <1>11, StartedStep

\* How the numbers change when a message is taken and a command started.
LEMMA TakenCounts ==
    ASSUME CmdTypes, NEW i \in DOMAIN tuCmds, NEW k, NEW c \in Cmds, Put(i, k, c),
           tuCmds[i].at \notin {"dial", "create"}, c.at \notin {"dial", "create"}
    PROVE  /\ Cardinality(DOMAIN tuCmds)' = Cardinality(DOMAIN tuCmds)
           /\ Cardinality(CmdsAt("dial"))' = Cardinality(CmdsAt("dial"))
           /\ Cardinality(CmdsAt("create"))' = Cardinality(CmdsAt("create"))
<1>1. Cardinality(DOMAIN tuCmds) \in Nat /\ \A at : Cardinality(CmdsAt(at)) \in Nat
  BY CmdsFinite
<1>2. ~Was(i, "dial") /\ ~Was(i, "create")
  BY DEF Was
<1> QED
  BY <1>1, <1>2 DEF Put

\* The new session is the one in use, and a stream is opened for it.
LEMMA SessionCreatedStep == \A i \in DOMAIN tuCmds : TuIInv /\ SessionCreated(i) => TuIInv'
<1> SUFFICES ASSUME NEW i \in DOMAIN tuCmds, TuIInv, SessionCreated(i) PROVE TuIInv'
  OBVIOUS
<1>1. LinkTypes /\ StreamTypes /\ ModelTypes /\ CmdTypes /\ CmdCounts /\ CmdsRight
  BY DEF TuIInv
<1>2. PICK id : id = tuCmds[i].session
  OBVIOUS
<1>3. /\ tuQuit = "no" /\ tuCmds[i].at = "created" /\ tuSession' = id /\ tuStatus' = "connected"
      /\ tuItems' = [ids |-> {id}, active |-> id] /\ tuCmds' = With(Took(i), TuCmd("open", id, 0))
      /\ UNCHANGED <<tuServer, tuStream, tuQuit, tuKeys>>
  BY <1>2 DEF SessionCreated
<1>4. /\ Len(tuSessions) \in Nat /\ Len(tuStreams) \in Nat /\ id \in 0..Len(tuSessions) /\ tuStream \in 0..Len(tuStreams)
  BY <1>1, <1>2, StreamsTyped DEF CmdTypes, ModelTypes
<1>5. id # 0 /\ \A s \in 1..Len(tuStreams) : tuStreams[s].session # id
  BY <1>1, <1>2, <1>3 DEF CmdsRight
<1>6. PICK c \in Cmds : tuCmds' = With(Took(i), c) /\ c.at = "open" /\ c.session = id /\ c.stream = 0
  <2>1. "open" \in CmdStates /\ 0 \in Nat /\ id \in Nat
    BY <1>4 DEF CmdStates
  <2> QED
    BY <1>3, <2>1, CmdMade
<1>7. PICK k : Put(i, k, c)
  BY <1>1, <1>6, PutTaken
<1>8. Started(i, k, c)
  BY <1>3, <1>7 DEF Started, tuServer
<1>9. MayStart(i, c)
  BY <1>2, <1>3, <1>4, <1>6 DEF MayStart
<1>10. LinkTypes'
  BY <1>1, <1>3 DEF LinkTypes, tuServer
<1>11. ModelTypes'
  <2>1. tuItems' \in [ids : SUBSET Nat, active : Nat]
    BY <1>3, <1>4
  <2>2. tuSessions' = tuSessions /\ tuStreams' = tuStreams
    BY <1>3 DEF tuServer
  <2> QED
    BY <1>1, <1>3, <1>4, <2>1, <2>2 DEF ModelTypes
<1>12. ActiveIsCurrent'
  BY <1>3 DEF ActiveIsCurrent
<1>13. SomeoneListens'
  <2>1. tuStreams' = tuStreams /\ tuStream' = tuStream
    BY <1>3 DEF tuServer
  <2>2. tuStream # 0 => tuStreams[tuStream].session # tuSession'
    BY <1>3, <1>4, <1>5
  <2> QED
    BY <2>1, <2>2 DEF SomeoneListens
<1>14. CmdCounts'
  <2>1. tuStream' = tuStream /\ tuQuit' = tuQuit /\ tuDialed' = tuDialed /\ tuSessions' = tuSessions /\ tuKeys' = tuKeys
    BY <1>3 DEF tuServer
  <2>2. /\ Cardinality(DOMAIN tuCmds)' = Cardinality(DOMAIN tuCmds)
        /\ Cardinality(CmdsAt("dial"))' = Cardinality(CmdsAt("dial"))
        /\ Cardinality(CmdsAt("create"))' = Cardinality(CmdsAt("create"))
    BY <1>1, <1>3, <1>6, <1>7, TakenCounts
  <2> QED
    BY <1>1, <2>1, <2>2 DEF CmdCounts, Room
<1> QED
  BY <1>8, <1>9, <1>10, <1>11, <1>12, <1>13, <1>14, StartedStep

\* The next answer is waited for on the stream in use.
LEMMA StreamMsgReceivedStep == \A i \in DOMAIN tuCmds : TuIInv /\ StreamMsgReceived(i) => TuIInv'
<1> SUFFICES ASSUME NEW i \in DOMAIN tuCmds, TuIInv, StreamMsgReceived(i) PROVE TuIInv'
  OBVIOUS
<1>1. LinkTypes /\ StreamTypes /\ ModelTypes /\ CmdTypes /\ CmdCounts /\ CmdsRight /\ ActiveIsCurrent
  BY DEF TuIInv
<1>2. /\ tuQuit = "no" /\ tuCmds[i].at = "received" /\ tuCmds' = With(Took(i), TuCmd("read", 0, tuStream))
      /\ UNCHANGED <<tuServer, tuModel, tuKeys>>
  BY DEF StreamMsgReceived
<1>3. Len(tuSessions) \in Nat /\ Len(tuStreams) \in Nat /\ tuStream \in 0..Len(tuStreams) /\ tuStream # 0
  BY <1>1, <1>2, StreamsTyped DEF ModelTypes, CmdsRight
<1>4. PICK c \in Cmds : tuCmds' = With(Took(i), c) /\ c.at = "read" /\ c.session = 0 /\ c.stream = tuStream
  <2>1. "read" \in CmdStates /\ 0 \in Nat /\ tuStream \in Nat
    BY <1>3 DEF CmdStates
  <2> QED
    BY <1>2, <2>1, CmdMade
<1>5. PICK k : Put(i, k, c)
  BY <1>1, <1>4, PutTaken
<1>6. Started(i, k, c)
  BY <1>2, <1>5 DEF Started, tuServer, tuModel
<1>7. MayStart(i, c)
  <2>1. 0 \in 0..Len(tuSessions)
    BY <1>3
  <2> QED
    BY <1>2, <1>3, <1>4, <2>1 DEF MayStart, tuModel
<1>8. LinkTypes'
  BY <1>1, <1>2 DEF LinkTypes, tuServer
<1>9. ModelTypes' /\ ActiveIsCurrent'
  BY <1>1, <1>2 DEF ModelTypes, ActiveIsCurrent, tuServer, tuModel
<1>10. SomeoneListens'
  <2>1. k \in DOMAIN tuCmds' /\ tuCmds'[k].stream = tuStream' /\ tuCmds'[k].at = "read"
    BY <1>2, <1>4, <1>5 DEF Put, tuModel
  <2> QED
    BY <2>1 DEF SomeoneListens
<1>11. CmdCounts'
  <2>1. tuStream' = tuStream /\ tuQuit' = tuQuit /\ tuDialed' = tuDialed /\ tuSessions' = tuSessions /\ tuKeys' = tuKeys
    BY <1>2 DEF tuServer, tuModel
  <2>2. /\ Cardinality(DOMAIN tuCmds)' = Cardinality(DOMAIN tuCmds)
        /\ Cardinality(CmdsAt("dial"))' = Cardinality(CmdsAt("dial"))
        /\ Cardinality(CmdsAt("create"))' = Cardinality(CmdsAt("create"))
    BY <1>1, <1>2, <1>4, <1>5, TakenCounts
  <2> QED
    BY <1>1, <2>1, <2>2 DEF CmdCounts, Room
<1> QED
  BY <1>6, <1>7, <1>8, <1>9, <1>10, <1>11, StartedStep

\* Any message ends a program that quits, and no command is left.
LEMMA QuitStep ==
    TuIInv /\ (KeyWhileQuitting \/ \E i \in DOMAIN tuCmds : QuitMessage(i)) => TuIInv'
<1> SUFFICES ASSUME TuIInv, KeyWhileQuitting \/ \E i \in DOMAIN tuCmds : QuitMessage(i) PROVE TuIInv'
  OBVIOUS
<1>1. /\ LinkTypes /\ StreamTypes /\ ModelTypes /\ CmdTypes /\ CmdCounts /\ LinkRight /\ ClosingRight /\ ActiveIsCurrent
  BY DEF TuIInv
<1>2. /\ tuQuit = "quitting" /\ tuQuit' \in {"shut down", "interrupted"} /\ tuCmds' = [i \in {} |-> tuCmds[i]]
      /\ UNCHANGED <<tuServer, tuSession, tuStream, tuStatus, tuItems, tuKeys>>
      /\ tuQuit' = "shut down" => \E i \in DOMAIN tuCmds : tuCmds[i].at = "complete"
  BY DEF KeyWhileQuitting, QuitMessage, QuitOn
<1>3. tuQuit' = "shut down" => tuClosed /\ Settled
  BY <1>1, <1>2 DEF ClosingRight
<1>4. DOMAIN tuCmds' = {} /\ CmdsAt("dial")' = {} /\ CmdsAt("create")' = {}
  BY <1>2 DEF CmdsAt
<1>5. LinkTypes' /\ LinkRight'
  BY <1>1, <1>2 DEF LinkTypes, LinkRight, tuServer
<1>6. StreamTypes' /\ ModelTypes'
  BY <1>1, <1>2 DEF StreamTypes, ModelTypes, tuServer
<1>7. CmdTypes'
  <2>1. IsFiniteSet(DOMAIN tuCmds') /\ tuCmds' \in [DOMAIN tuCmds' -> Cmds]
    BY <1>2, <1>4, FS_EmptySet
  <2> QED
    BY <1>4, <2>1 DEF CmdTypes
<1>8. CmdCounts'
  <2>1. Cardinality(DOMAIN tuCmds') = 0
    BY <1>4, FS_EmptySet
  <2>2. Cardinality(CmdsAt("dial"))' = 0
    BY <1>4, FS_EmptySet
  <2>3. Cardinality(CmdsAt("create"))' = 0
    BY <1>4, FS_EmptySet
  <2>4. /\ Cardinality(CmdsAt("dial")) \in Nat /\ Cardinality(CmdsAt("create")) \in Nat
        /\ tuKeys.texts \in Nat /\ tuKeys.retries \in Nat /\ tuDialed \in Nat /\ Len(tuSessions) \in Nat
    BY <1>1, CmdsFinite, StreamsTyped, TuAssumption DEF LinkTypes
  <2>5. tuStream' = tuStream /\ tuDialed' = tuDialed /\ tuSessions' = tuSessions /\ tuKeys' = tuKeys
    BY <1>2 DEF tuServer
  <2>6. Room' \in Nat
    BY <2>4, <2>5 DEF Room
  <2> QED
    BY <1>1, <2>1, <2>2, <2>3, <2>4, <2>5, <2>6 DEF CmdCounts
<1>9. CmdsRight' /\ CmdsApart' /\ ClosingRight'
  BY <1>4 DEF CmdsRight, CmdsApart, ClosingRight
<1>10. SomeoneListens' /\ ActiveIsCurrent'
  BY <1>1, <1>2 DEF SomeoneListens, ActiveIsCurrent
<1>11. QuitIsUnderway'
  BY <1>2, <1>3 DEF QuitIsUnderway, Settled, tuServer
<1> QED
  BY <1>5, <1>6, <1>7, <1>8, <1>9, <1>10, <1>11 DEF TuIInv

\* Every step preserves the invariant.
LEMMA TuStep == TuIInv /\ [TuNext]_tuVars => TuIInv'
<1> SUFFICES ASSUME TuIInv, [TuNext]_tuVars PROVE TuIInv'
  OBVIOUS
<1>1. CASE LinkLost \/ LinkRestored \/ \E s \in DOMAIN tuStreams : ServerAnswers(s)
  BY <1>1, LinkLostStep, LinkRestoredStep, ServerAnswersStep
<1>2. CASE \E i \in DOMAIN tuCmds : Command(i)
  BY <1>2, CmdDialStep, CmdCreateStep, CmdInitStreamStep, CmdSendStep, CmdReadStep, CmdListStep,
     CmdCloseSessionStep, CmdCloseClientStep DEF Command
<1>3. CASE KeyWhileQuitting \/ \E i \in DOMAIN tuCmds : QuitMessage(i)
  BY <1>3, QuitStep
<1>4. CASE \E i \in DOMAIN tuCmds : SessionCreated(i) \/ CmdFailed(i) \/ StreamInitialized(i)
                                    \/ StreamMsgReceived(i) \/ SessionsListed(i)
  BY <1>4, SessionCreatedStep, CmdFailedStep, StreamInitializedStep, StreamMsgReceivedStep, SessionsListedStep
<1>5. CASE KeyEnter \/ KeyRetry \/ KeyList \/ KeyQuit
  BY <1>5, KeyEnterStep, KeyRetryStep, KeyListStep, KeyQuitStep
<1>6. CASE UNCHANGED tuVars
  <2>1. /\ tuLink' = tuLink /\ tuDialed' = tuDialed /\ tuClosed' = tuClosed
        /\ tuSessions' = tuSessions /\ tuStreams' = tuStreams
    BY <1>6 DEF tuVars, tuServer
  <2>2. /\ tuSession' = tuSession /\ tuStream' = tuStream /\ tuStatus' = tuStatus
        /\ tuItems' = tuItems /\ tuQuit' = tuQuit
    BY <1>6 DEF tuVars, tuModel
  <2>3. tuCmds' = tuCmds /\ tuKeys' = tuKeys
    BY <1>6 DEF tuVars
  <2>4. /\ LinkTypes /\ StreamTypes /\ ModelTypes /\ CmdTypes /\ CmdCounts /\ CmdsRight /\ CmdsApart
        /\ ClosingRight /\ LinkRight /\ SomeoneListens /\ QuitIsUnderway /\ ActiveIsCurrent
    BY DEF TuIInv
  <2> QED
    <3>1. LinkTypes'
      BY <2>1, <2>3, <2>4 DEF LinkTypes
    <3>2. StreamTypes'
      BY <2>1, <2>4 DEF StreamTypes
    <3>3. ModelTypes'
      BY <2>1, <2>2, <2>4 DEF ModelTypes
    <3>4. CmdTypes'
      BY <2>1, <2>3, <2>4 DEF CmdTypes
    <3>5. CmdsAt("dial")' = CmdsAt("dial") /\ CmdsAt("create")' = CmdsAt("create")
      BY <2>3 DEF CmdsAt
    <3>6. Room' = Room
      BY <2>2, <2>3 DEF Room
    <3>7. CmdCounts'
      BY <2>1, <2>3, <2>4, <3>5, <3>6 DEF CmdCounts
    <3>8. CmdsRight'
      BY <2>1, <2>2, <2>3, <2>4 DEF CmdsRight
    <3>9. CmdsApart'
      BY <2>1, <2>2, <2>3, <2>4 DEF CmdsApart
    <3>10. Settled' = Settled
      BY <2>1, <2>2, <2>3 DEF Settled
    <3>11. ClosingRight'
      BY <2>1, <2>2, <2>3, <2>4, <3>10 DEF ClosingRight
    <3>12. LinkRight'
      BY <2>1, <2>2, <2>3, <2>4 DEF LinkRight
    <3>13. SomeoneListens'
      BY <2>1, <2>2, <2>3, <2>4 DEF SomeoneListens
    <3>14. QuitIsUnderway'
      BY <2>1, <2>2, <2>3, <2>4 DEF QuitIsUnderway
    <3>15. ActiveIsCurrent'
      BY <2>2, <2>4 DEF ActiveIsCurrent
    <3> QED
      BY <3>1, <3>2, <3>3, <3>4, <3>7, <3>8, <3>9, <3>11, <3>12, <3>13, <3>14, <3>15 DEF TuIInv
<1> QED
  BY <1>1, <1>2, <1>3, <1>4, <1>5, <1>6 DEF TuNext

\* The invariant implies what the property says, the type invariant included.
LEMMA TuSafety == TuIInv => TerminalSafe
<1> SUFFICES ASSUME TuIInv PROVE TerminalSafe
  OBVIOUS
<1>1. /\ LinkTypes /\ StreamTypes /\ ModelTypes /\ CmdTypes /\ CmdCounts
      /\ SomeoneListens /\ QuitIsUnderway /\ ActiveIsCurrent
  BY DEF TuIInv
<1>2. /\ Len(tuStreams) \in Nat /\ Len(tuSessions) \in Nat /\ DOMAIN tuSessions = 1..Len(tuSessions)
      /\ DOMAIN tuStreams = 1..Len(tuStreams) /\ \A s \in 1..Len(tuStreams) : tuStreams[s] \in Streams
      /\ Cardinality(CmdsAt("dial")) \in Nat /\ Cardinality(CmdsAt("create")) \in Nat
      /\ tuDialed \in Nat /\ tuKeys.retries \in 0..MaxControls
  BY <1>1, StreamsTyped, CmdsFinite DEF LinkTypes
<1>3. tuDialed + Cardinality(CmdsAt("dial")) <= tuKeys.retries + 1 /\ Len(tuSessions) + Cardinality(CmdsAt("create")) <= tuDialed
  BY <1>1 DEF CmdCounts
<1>5. tuDialed \in 0..MaxControls + 1
  BY <1>2, <1>3, TuAssumption
<1>6. tuStreams \in Seq([session : DOMAIN tuSessions, in : Seq({"answer", "error"}), broken : BOOLEAN, sent : BOOLEAN])
  <2> DEFINE S == [session : DOMAIN tuSessions, in : Seq({"answer", "error"}), broken : BOOLEAN, sent : BOOLEAN]
  <2>1. \A s \in 1..Len(tuStreams) : tuStreams[s] \in S
    BY <1>1, <1>2 DEF StreamTypes, Streams
  <2>2. tuStreams = [s \in 1..Len(tuStreams) |-> tuStreams[s]]
    BY <1>1, <1>2 DEF StreamTypes
  <2> HIDE DEF S
  <2>3. tuStreams \in [1..Len(tuStreams) -> S]
    BY <2>1, <2>2
  <2>4. tuStreams \in Seq(S)
    BY <1>2, <2>3, IsASeq
  <2> QED
    BY <2>4 DEF S
<1>7. {tuLink, tuClosed} \subseteq BOOLEAN
  BY <1>1 DEF LinkTypes
<1>8. TuTypeOK
  BY <1>1, <1>5, <1>6, <1>7 DEF TuTypeOK, StreamTypes, ModelTypes, CmdTypes, CmdCounts, Room
<1> QED
  BY <1>1, <1>8 DEF TerminalSafe

\* However keys, answers, losses and the results of commands overtake each other,
\* somebody listens to the stream in use, the list marks the session in use, and a program told to quit ends with its session
\* closed unless the link was lost (model.go, update.go).
THEOREM TerminalStaysSafe == TuSpec => []TerminalSafe
<1> QED
  BY TuInitIInv, TuStep, TuSafety, PTL DEF TuSpec

-----------------------------------------------------------------------------
(* The container of the gateway.                                           *)

\* The inductive invariant.
GmIInv == GwTypeOK /\ ContainerKnown /\ monitor \in [1..MaxStarts -> MonitorAt]

\* What no step does.
GmKeeps == ~gwStarted /\ ~gwStarted' => box' # "starting" \/ box = "starting"

\* A step that leaves the monitors alone.
LEMMA GmCalls ==
    ASSUME GmIInv, BoxStep \/ GwStartFails \/ GwStop \/ GwRestart \/ GwClose
    PROVE  GmIInv' /\ GmKeeps
<1>1. UNCHANGED <<monitor, starts>> /\ failures' \in {failures, 0}
  BY DEF BoxStep, GwStartFails, GwStop, GwRestart, GwClose
<1>2. box \in Box
  BY DEF GmIInv, GwTypeOK
<1>3. /\ box' \in Box /\ (box' # "absent" => box # "absent" \/ knowsBox')
      /\ knowsBox' = knowsBox \/ gwClosed' = TRUE \/ box' = "absent" \/ knowsBox' = TRUE
      /\ gwClosed' = gwClosed \/ gwClosed' = TRUE
      /\ box' = "starting" => box = "starting" \/ gwStarted
  <2>1. CASE BoxStep
    BY <1>2, <2>1 DEF BoxStep, Box
  <2>2. CASE GwStartFails
    BY <1>2, <2>2 DEF GwStartFails, CleanupContainer, Box
  <2>3. CASE GwStop
    BY <1>2, <2>3 DEF GwStop, Box
  <2>4. CASE GwRestart
    BY <1>2, <2>4 DEF GwRestart, Restartable, Box
  <2>5. CASE GwClose
    BY <1>2, <2>5 DEF GwClose, Box
  <2> QED
    BY <2>1, <2>2, <2>3, <2>4, <2>5
<1>4. /\ gwStarted' = gwStarted \/ gwStarted' = FALSE
      /\ knowsBox' = knowsBox \/ knowsBox' = FALSE \/ knowsBox' = TRUE
      /\ ctxLive' = ctxLive \/ ctxLive' = FALSE
  BY DEF BoxStep, GwStartFails, CleanupContainer, GwStop, GwRestart, GwClose
<1>5. GwTypeOK'
  <2>1. failures' \in 0..FailureCap
    BY <1>1, GmAssumption DEF GmIInv, GwTypeOK, FailureCap
  <2>2. {gwStarted', gwClosed', knowsBox', ctxLive'} \subseteq BOOLEAN
    BY <1>3, <1>4 DEF GmIInv, GwTypeOK
  <2> QED
    BY <1>1, <1>3, <2>1, <2>2 DEF GmIInv, GwTypeOK, FailureCap
<1>6. ContainerKnown'
  BY <1>3 DEF GmIInv, ContainerKnown
<1>7. GmKeeps
  BY <1>3 DEF GmKeeps
<1> QED
  BY <1>1, <1>5, <1>6, <1>7 DEF GmIInv

\* A start, with a monitor of its own.
LEMMA GmStarts ==
    ASSUME GmIInv, GwStart
    PROVE  GmIInv' /\ GmKeeps
<1>1. starts \in Nat /\ starts < MaxStarts /\ starts' = starts + 1 /\ starts + 1 \in 1..MaxStarts
  BY GmAssumption DEF GmIInv, GwTypeOK, GwStart
<1>2. monitor' = [monitor EXCEPT ![starts + 1] = "select"]
  BY DEF GwStart
<1>3. monitor' \in [1..MaxStarts -> MonitorAt]
  BY <1>1, <1>2 DEF GmIInv, MonitorAt
<1>4. \A n \in 1..MaxStarts : monitor'[n] = "none" <=> n > starts'
  <2>1. TAKE n \in 1..MaxStarts
  <2>2. CASE n = starts + 1
    BY <1>1, <1>2, <2>2 DEF GmIInv
  <2>3. CASE n # starts + 1
    <3>1. monitor'[n] = monitor[n] /\ (monitor[n] = "none" <=> n > starts)
      BY <1>2, <2>3 DEF GmIInv, GwTypeOK
    <3> QED
      BY <1>1, <2>3, <3>1
  <2> QED
    BY <2>2, <2>3
<1>5. /\ box' = "starting" /\ knowsBox' = TRUE /\ gwStarted' = TRUE /\ ctxLive' = TRUE
      /\ UNCHANGED <<gwClosed, failures>>
  BY DEF GwStart
<1>6. GwTypeOK'
  <2>1. starts' \in 0..MaxStarts
    BY <1>1
  <2>2. {gwStarted', gwClosed', knowsBox', ctxLive'} \subseteq BOOLEAN /\ box' \in Box
    BY <1>5 DEF GmIInv, GwTypeOK, Box
  <2> QED
    BY <1>3, <1>4, <1>5, <2>1, <2>2 DEF GmIInv, GwTypeOK, FailureCap
<1> QED
  BY <1>3, <1>5, <1>6 DEF GmIInv, ContainerKnown, GmKeeps

\* A monitor that exists goes on; only a started container is started again.
LEMMA GmMonitors ==
    ASSUME GmIInv, NEW n \in 1..MaxStarts, MonitorStep(n)
    PROVE  GmIInv' /\ GmKeeps
<1>1. UNCHANGED <<gwStarted, gwClosed, knowsBox, ctxLive, starts>>
  BY DEF MonitorStep, MonitorEnds, Snapshot, Check, RecordGood, RecordBad, Try, Backoff, AutoRestart,
     AutoRestartFails, ResetFailures
<1>2. UNCHANGED box \/ (gwStarted /\ box # "absent" /\ box' = "starting")
  BY DEF MonitorStep, MonitorEnds, Snapshot, Check, RecordGood, RecordBad, Try, Backoff, AutoRestart,
     AutoRestartFails, ResetFailures, Restartable
<1>3. \E at \in MonitorAt \ {"none"} : Go(n, at)
  <2>1. CASE Check(n)
    <3>1. HealthCheck \cup {"bad"} \subseteq MonitorAt \ {"none"}
      <4>1. ctxLive => box \in {"healthy", "starting", "created", "unhealthy", "stopped", "absent"}
        BY DEF GmIInv, GwTypeOK, Box
      <4>2. HealthCheck \subseteq {"good", "select", "bad"}
        BY <4>1 DEF HealthCheck
      <4> QED
        BY <4>2 DEF MonitorAt
    <3> QED
      BY <2>1, <3>1 DEF Check
  <2>2. CASE RecordBad(n) \/ Try(n)
    <3>1. Go(n, "try") \/ Go(n, "select") \/ Go(n, "backoff")
      BY <2>2 DEF RecordBad, Try
    <3> QED
      BY <3>1 DEF MonitorAt
  <2>3. CASE MonitorEnds(n) \/ Snapshot(n) \/ RecordGood(n) \/ Backoff(n) \/ AutoRestart(n)
             \/ AutoRestartFails(n) \/ ResetFailures(n)
    <3>1. Go(n, "ended") \/ Go(n, "check") \/ Go(n, "select") \/ Go(n, "restart") \/ Go(n, "reset")
      BY <2>3 DEF MonitorEnds, Snapshot, RecordGood, Backoff, AutoRestart, AutoRestartFails, ResetFailures
    <3> QED
      BY <3>1 DEF MonitorAt
  <2> QED
    BY <2>1, <2>2, <2>3 DEF MonitorStep
<1>4. monitor[n] # "none"
  BY DEF MonitorStep, MonitorEnds, Snapshot, Check, RecordGood, RecordBad, Try, Backoff, AutoRestart,
     AutoRestartFails, ResetFailures
<1>5. failures' \in {failures, 0} \/ failures' = Counted
  BY DEF MonitorStep, MonitorEnds, Snapshot, Check, RecordGood, RecordBad, Try, Backoff, AutoRestart,
     AutoRestartFails, ResetFailures
<1>6. failures' \in 0..FailureCap
  BY <1>5, GmAssumption DEF Counted, FailureCap, GmIInv, GwTypeOK
<1>7. PICK at \in MonitorAt \ {"none"} : monitor' = [monitor EXCEPT ![n] = at]
  BY <1>3 DEF Go
<1>8. monitor' \in [1..MaxStarts -> MonitorAt]
  BY <1>7 DEF GmIInv
<1>9. \A m \in 1..MaxStarts : monitor'[m] = "none" <=> monitor[m] = "none"
  BY <1>4, <1>7 DEF GmIInv
<1>10. box' \in Box
  BY <1>2 DEF GmIInv, GwTypeOK, Box
<1>11. GwTypeOK'
  BY <1>1, <1>6, <1>8, <1>9, <1>10 DEF GmIInv, GwTypeOK, FailureCap
<1>12. ContainerKnown' /\ GmKeeps
  BY <1>1, <1>2 DEF GmIInv, ContainerKnown, GmKeeps
<1> QED
  BY <1>8, <1>11, <1>12 DEF GmIInv

\* Every step.
LEMMA GmStep == (GwInit => GmIInv) /\ (GmIInv /\ [GwNext]_gwVars => GmIInv' /\ GmKeeps)
<1>1. ASSUME GwInit PROVE GmIInv
  <2>1. 0 \in 0..FailureCap /\ 0 \in 0..MaxStarts /\ \A n \in 1..MaxStarts : n > 0
    BY GmAssumption DEF FailureCap
  <2>2. monitor \in [1..MaxStarts -> MonitorAt] /\ \A n \in 1..MaxStarts : monitor[n] = "none"
    BY <1>1 DEF GwInit, MonitorAt
  <2>3. {gwStarted, gwClosed, knowsBox, ctxLive} \subseteq BOOLEAN /\ box \in Box /\ box = "absent"
    BY <1>1 DEF GwInit, Box
  <2>4. failures = 0 /\ starts = 0
    BY <1>1 DEF GwInit
  <2> QED
    BY <2>1, <2>2, <2>3, <2>4 DEF GmIInv, GwTypeOK, ContainerKnown
<1>2. ASSUME GmIInv, UNCHANGED gwVars PROVE GmIInv' /\ GmKeeps
  BY <1>2 DEF gwVars, GmIInv, GwTypeOK, ContainerKnown, GmKeeps, FailureCap
<1> QED
  BY <1>1, <1>2, GmCalls, GmStarts, GmMonitors DEF GwNext

-----------------------------------------------------------------------------
(* The runtimes and their containers.                                      *)

\* What holds of the registry of runtimes.
RuntimesOK ==
    /\ factories \subseteq RuntimeTypes
    /\ runtimes \in [RuntimeTypes -> 0..MaxInstances]
    /\ instance \in [Instances -> [type : RuntimeTypes \cup {"none"}, open : BOOLEAN]]
    /\ \A t \in RuntimeTypes : runtimes[t] # 0 => runtimes[t] \in Instances /\ instance[runtimes[t]].type = t
    /\ \A i \in Instances : instance[i].open =>
          instance[i].type \in RuntimeTypes /\ runtimes[instance[i].type] = i

\* What holds of the containers.
ContainersOK ==
    /\ ct \in [Boxes -> ContainerState]
    /\ destroyer \in [Boxes -> {"none", "destroy", "ok", "error"}]
    /\ \A c \in Boxes : destroyer[c] = "ok" => ct[c] = "absent"

\* The instance of a type is closed and forgotten.
LEMMA RuntimeDropped ==
    ASSUME RuntimesOK, NEW t \in RuntimeTypes, factories' \subseteq RuntimeTypes,
           instance' = Closed(t), runtimes' = [runtimes EXCEPT ![t] = 0]
    PROVE  RuntimesOK'
<1>1. \A u \in RuntimeTypes : runtimes'[u] = IF u = t THEN 0 ELSE runtimes[u]
  BY DEF RuntimesOK
<1>2. 0 \notin Instances /\ 0 \in 0..MaxInstances
  BY CrAssumption DEF Instances
<1>3. /\ instance' \in [Instances -> [type : RuntimeTypes \cup {"none"}, open : BOOLEAN]]
      /\ \A i \in Instances : /\ instance'[i].type = instance[i].type
                              /\ instance'[i].open => instance[i].open /\ i # runtimes[t]
  <2>1. CASE runtimes[t] = 0
    BY <1>2, <2>1 DEF RuntimesOK, Closed
  <2>2. CASE runtimes[t] # 0
    <3>1. runtimes[t] \in Instances
      BY <2>2 DEF RuntimesOK
    <3>2. instance' = [instance EXCEPT ![runtimes[t]].open = FALSE]
      BY <2>2 DEF Closed
    <3>3. instance' \in [Instances -> [type : RuntimeTypes \cup {"none"}, open : BOOLEAN]]
      <4>1. instance[runtimes[t]] \in [type : RuntimeTypes \cup {"none"}, open : BOOLEAN]
        BY <3>1 DEF RuntimesOK
      <4>2. [instance[runtimes[t]] EXCEPT !.open = FALSE] \in [type : RuntimeTypes \cup {"none"}, open : BOOLEAN]
        BY <4>1
      <4> QED
        BY <3>1, <3>2, <4>2 DEF RuntimesOK
    <3>4. \A i \in Instances \ {runtimes[t]} : instance'[i] = instance[i]
      BY <3>1, <3>2 DEF RuntimesOK
    <3>5. instance'[runtimes[t]].type = instance[runtimes[t]].type /\ instance'[runtimes[t]].open = FALSE
      BY <3>1, <3>2 DEF RuntimesOK
    <3> QED
      BY <3>3, <3>4, <3>5
  <2> QED
    BY <2>1, <2>2
<1>4. runtimes' \in [RuntimeTypes -> 0..MaxInstances]
  BY <1>2 DEF RuntimesOK
<1>5. \A i \in Instances : instance'[i].open =>
          instance'[i].type \in RuntimeTypes /\ runtimes'[instance'[i].type] = i
  BY <1>1, <1>3 DEF RuntimesOK
<1>6. \A u \in RuntimeTypes : runtimes'[u] # 0 => runtimes'[u] \in Instances /\ instance'[runtimes'[u]].type = u
  BY <1>1, <1>3 DEF RuntimesOK
<1> QED
  BY <1>3, <1>4, <1>5, <1>6 DEF RuntimesOK

\* The registry hands out a new instance, or drops a closed one.
LEMMA RuntimeMade ==
    ASSUME RuntimesOK, NEW t \in RuntimeTypes, GetRuntime(t)
    PROVE  RuntimesOK'
<1>1. 0 \notin Instances /\ 0 \in 0..MaxInstances /\ Instances \subseteq 0..MaxInstances
  BY CrAssumption DEF Instances
<1>2. \A i \in Instances : instance[i].open => instance[i].type # t
  BY <1>1 DEF GetRuntime, Usable, RuntimesOK
<1>3. factories' = factories
  BY DEF GetRuntime
<1>4. CASE runtimes' = [runtimes EXCEPT ![t] = 0] /\ UNCHANGED instance
  <2>1. \A u \in RuntimeTypes : runtimes'[u] = IF u = t THEN 0 ELSE runtimes[u]
    BY <1>4 DEF RuntimesOK
  <2>2. runtimes' \in [RuntimeTypes -> 0..MaxInstances]
    BY <1>1, <1>4 DEF RuntimesOK
  <2> QED
    BY <1>2, <1>3, <1>4, <2>1, <2>2 DEF RuntimesOK
<1>5. ASSUME NEW i \in Instances, instance[i] = NoInstance,
             instance' = [instance EXCEPT ![i] = [type |-> t, open |-> TRUE]],
             runtimes' = [runtimes EXCEPT ![t] = i]
      PROVE  RuntimesOK'
  <2>1. \A u \in RuntimeTypes : runtimes'[u] = IF u = t THEN i ELSE runtimes[u]
    BY <1>5 DEF RuntimesOK
  <2>2. /\ instance'[i].type = t /\ instance'[i].open
        /\ \A j \in Instances \ {i} : instance'[j] = instance[j]
    BY <1>5 DEF RuntimesOK
  <2>3. instance' \in [Instances -> [type : RuntimeTypes \cup {"none"}, open : BOOLEAN]]
    BY <1>5 DEF RuntimesOK
  <2>4. runtimes' \in [RuntimeTypes -> 0..MaxInstances]
    BY <1>1, <1>5 DEF RuntimesOK
  <2>5. \A u \in RuntimeTypes : runtimes[u] # i
    BY <1>1, <1>5, CrAssumption DEF RuntimesOK, NoInstance
  <2>6. \A u \in RuntimeTypes : runtimes'[u] # 0 => runtimes'[u] \in Instances /\ instance'[runtimes'[u]].type = u
    BY <2>1, <2>2, <2>5 DEF RuntimesOK
  <2>7. \A j \in Instances : instance'[j].open =>
            instance'[j].type \in RuntimeTypes /\ runtimes'[instance'[j].type] = j
    BY <1>2, <2>1, <2>2 DEF RuntimesOK
  <2> QED
    BY <1>3, <2>3, <2>4, <2>6, <2>7 DEF RuntimesOK
<1> QED
  BY <1>4, <1>5 DEF GetRuntime

\* The registry is closed, or an instance behind its back.
LEMMA RuntimesClosed ==
    ASSUME RuntimesOK, CloseRegistry \/ \E i \in Instances : CloseInstance(i)
    PROVE  RuntimesOK'
<1>1. 0 \in 0..MaxInstances
  BY CrAssumption
<1>2. CASE CloseRegistry
  <2>1. \A i \in Instances : \A t \in RuntimeTypes : instance'[i].open => instance[i].open /\ runtimes[t] # i
    <3>1. \A i \in Instances :
            instance'[i] = [instance[i] EXCEPT !.open = instance[i].open /\ \A t \in RuntimeTypes : runtimes[t] # i]
      BY <1>2 DEF CloseRegistry
    <3>2. SUFFICES ASSUME NEW i \in Instances, NEW t \in RuntimeTypes
                   PROVE  instance'[i].open => instance[i].open /\ runtimes[t] # i
      OBVIOUS
    <3>3. PICK b : b = (instance[i].open /\ \A u \in RuntimeTypes : runtimes[u] # i)
      OBVIOUS
    <3>4. instance'[i] = [instance[i] EXCEPT !.open = b]
      BY <3>1, <3>3
    <3>5. instance'[i].open = b
      BY <3>4 DEF RuntimesOK
    <3> QED
      BY <3>3, <3>5
  <2>2. \A i \in Instances : ~instance'[i].open
    <3>1. SUFFICES ASSUME NEW i \in Instances, instance'[i].open PROVE FALSE
      OBVIOUS
    <3>2. instance[i].type \in RuntimeTypes => instance[i].open /\ runtimes[instance[i].type] # i
      BY <2>1, <3>1
    <3>3. instance[i].open
      <4>1. instance'[i] = [instance[i] EXCEPT !.open = instance[i].open /\ \A t \in RuntimeTypes : runtimes[t] # i]
        BY <1>2 DEF CloseRegistry
      <4>2. PICK b : b = (instance[i].open /\ \A u \in RuntimeTypes : runtimes[u] # i)
        OBVIOUS
      <4>3. instance'[i] = [instance[i] EXCEPT !.open = b]
        BY <4>1, <4>2
      <4>4. instance'[i].open = b
        BY <4>3 DEF RuntimesOK
      <4> QED
        BY <3>1, <4>2, <4>4
    <3> QED
      BY <3>2, <3>3 DEF RuntimesOK
  <2>3. instance' \in [Instances -> [type : RuntimeTypes \cup {"none"}, open : BOOLEAN]]
    <3>1. instance' = [i \in Instances |->
                        [instance[i] EXCEPT !.open = instance[i].open /\ \A t \in RuntimeTypes : runtimes[t] # i]]
      BY <1>2 DEF CloseRegistry
    <3>2. ASSUME NEW i \in Instances, NEW b \in BOOLEAN
          PROVE  [instance[i] EXCEPT !.open = b] \in [type : RuntimeTypes \cup {"none"}, open : BOOLEAN]
      BY DEF RuntimesOK
    <3>3. \A i \in Instances : (instance[i].open /\ \A t \in RuntimeTypes : runtimes[t] # i) \in BOOLEAN
      OBVIOUS
    <3> HIDE DEF RuntimesOK
    <3> QED
      BY <3>1, <3>2, <3>3
  <2> QED
    BY <1>1, <1>2, <2>2, <2>3 DEF CloseRegistry, RuntimesOK
<1>3. ASSUME NEW i \in Instances, CloseInstance(i) PROVE RuntimesOK'
  <2>1. instance' \in [Instances -> [type : RuntimeTypes \cup {"none"}, open : BOOLEAN]]
    <3>1. instance' = [instance EXCEPT ![i].open = FALSE] /\ instance[i] \in [type : RuntimeTypes \cup {"none"}, open : BOOLEAN]
      BY <1>3 DEF RuntimesOK, CloseInstance
    <3>2. [instance[i] EXCEPT !.open = FALSE] \in [type : RuntimeTypes \cup {"none"}, open : BOOLEAN]
      BY <3>1
    <3> QED
      BY <3>1, <3>2 DEF RuntimesOK
  <2>2. \A j \in Instances : instance'[j].type = instance[j].type /\ (instance'[j].open => instance[j].open)
    BY <1>3 DEF RuntimesOK, CloseInstance
  <2>3. UNCHANGED <<factories, runtimes>>
    BY <1>3 DEF CloseInstance
  <2> QED
    BY <2>1, <2>2, <2>3 DEF RuntimesOK
<1> QED
  BY <1>2, <1>3

\* What is done to the containers.
LEMMA ContainersStep ==
    ASSUME ContainersOK, NEW c \in Boxes,
           \/ CreateContainer(c) \/ Start(c) \/ Stop(c) \/ Restart(c) \/ Pause(c) \/ Unpause(c)
           \/ KillContainer(c) \/ Destroy(c) \/ StopFirst(c) \/ ThenDestroy(c)
    PROVE  ContainersOK' /\ UNCHANGED <<factories, runtimes, instance>>
<1>1. CASE CreateContainer(c)
  BY <1>1 DEF CreateContainer, ContainersOK, ContainerState
<1>2. CASE Start(c) \/ Stop(c) \/ Pause(c) \/ Unpause(c) \/ KillContainer(c) \/ Restart(c) \/ Destroy(c)
  <2>1. PICK to \in ContainerState :
          /\ ct[c] \in ContainerState \ {"absent"} /\ ct' = [ct EXCEPT ![c] = to]
          /\ UNCHANGED <<factories, runtimes, instance, destroyer>>
    BY <1>2 DEF Start, Stop, Pause, Unpause, KillContainer, Restart, Destroy, Move, ContainerState
  <2> QED
    BY <2>1 DEF ContainersOK, ContainerState
<1>3. CASE StopFirst(c)
  BY <1>3 DEF StopFirst, ContainersOK, ContainerState
<1>4. CASE ThenDestroy(c)
  BY <1>4 DEF ThenDestroy, ContainersOK, ContainerState
<1> QED
  BY <1>1, <1>2, <1>3, <1>4

\* Every step.
LEMMA CrStep ==
    /\ RtInit => RuntimesOK /\ ContainersOK
    /\ RuntimesOK /\ ContainersOK /\ [RtNext]_rtVars => RuntimesOK' /\ ContainersOK'
<1>1. ASSUME RtInit PROVE RuntimesOK /\ ContainersOK
  <2>1. 0 \in 0..MaxInstances
    BY CrAssumption
  <2> QED
    BY <1>1, <2>1 DEF RtInit, NoInstance, RuntimesOK, ContainersOK, ContainerState
<1>2. ASSUME RuntimesOK, ContainersOK, RtNext PROVE RuntimesOK' /\ ContainersOK'
  <2>1. CASE CloseRegistry \/ (\E i \in Instances : CloseInstance(i))
             \/ \E t \in RuntimeTypes : RegisterRuntime(t) \/ UnregisterRuntime(t) \/ GetRuntime(t) \/ CloseRuntime(t)
    <3>1. UNCHANGED <<ct, destroyer>>
      BY <2>1 DEF CloseRegistry, CloseInstance, RegisterRuntime, UnregisterRuntime, GetRuntime, CloseRuntime
    <3>2. ContainersOK'
      BY <1>2, <3>1 DEF ContainersOK
    <3>3. ASSUME NEW t \in RuntimeTypes, RegisterRuntime(t) PROVE RuntimesOK'
      BY <1>2, <3>3 DEF RegisterRuntime, RuntimesOK
    <3>4. ASSUME NEW t \in RuntimeTypes, UnregisterRuntime(t) \/ CloseRuntime(t) PROVE RuntimesOK'
      <4>1. factories' \subseteq factories /\ instance' = Closed(t) /\ runtimes' = [runtimes EXCEPT ![t] = 0]
        BY <3>4 DEF UnregisterRuntime, CloseRuntime
      <4>2. factories' \subseteq RuntimeTypes
        BY <1>2, <4>1 DEF RuntimesOK
      <4> QED
        BY <1>2, <4>1, <4>2, RuntimeDropped
    <3> QED
      BY <1>2, <2>1, <3>2, <3>3, <3>4, RuntimeMade, RuntimesClosed
  <2>2. ASSUME NEW c \in Boxes,
               \/ CreateContainer(c) \/ Start(c) \/ Stop(c) \/ Restart(c) \/ Pause(c) \/ Unpause(c)
               \/ KillContainer(c) \/ Destroy(c) \/ StopFirst(c) \/ ThenDestroy(c)
        PROVE  RuntimesOK' /\ ContainersOK'
    BY <1>2, <2>2, ContainersStep DEF RuntimesOK
  <2> QED
    BY <1>2, <2>1, <2>2 DEF RtNext
<1>3. ASSUME RuntimesOK, ContainersOK, UNCHANGED rtVars PROVE RuntimesOK' /\ ContainersOK'
  BY <1>3 DEF rtVars, RuntimesOK, ContainersOK
<1> QED
  BY <1>1, <1>2, <1>3

\* Of the gateway manager and the container runtimes: no container or instance is lost
\* through failing calls, a stopped gateway stays down though its monitor was about
\* to restart it (gateway_manager.go, runtime_factory.go, lifecycle.go).
THEOREM ContainersStayTracked == GmSpec /\ CrSpec => ContainersTracked
<1>1. GmSpec => [](GwTypeOK /\ ContainerKnown)
  <2>1. GmSpec => []GmIInv
    BY GmStep, PTL DEF GmSpec
  <2>2. GmIInv => GwTypeOK /\ ContainerKnown
    BY DEF GmIInv
  <2> QED
    BY <2>1, <2>2, PTL
<1>2. GmSpec => [][GmKeeps]_gwVars
  BY GmStep, PTL DEF GmSpec
<1>3. GmSpec => StoppedStaysDown
  BY <1>2, PTL DEF StoppedStaysDown, GmKeeps
<1>4. CrSpec => [](RuntimesOK /\ ContainersOK)
  BY CrStep, PTL DEF CrSpec
<1>5. RuntimesOK /\ ContainersOK => RtTypeOK /\ NoInstanceLost /\ DestroyedIsGone
  BY DEF RuntimesOK, ContainersOK, RtTypeOK, NoInstanceLost, DestroyedIsGone
<1> QED
  BY <1>1, <1>3, <1>4, <1>5, PTL DEF ContainersTracked
=============================================================================
