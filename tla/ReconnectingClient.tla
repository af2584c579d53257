-------------------------- MODULE ReconnectingClient --------------------------
(***************************************************************************)
(* The gRPC clients that keep a connection alive (pkg/grpc/client.go and,  *)
(* the same code but for its names, pkg/tui/client.go).                    *)
(*                                                                         *)
(* Client.mu guards single assignments only: it is free while a call or    *)
(* the monitor dials, so Dial, ResetConnection, Close and the monitor may  *)
(* overwrite each other's connection.  A connection (grpc.ClientConn) is   *)
(* external: it fails and recovers by itself until it is closed.           *)
(***************************************************************************)
EXTENDS Naturals, Sequences, FiniteSets

CONSTANTS
    RcCallers,      \* goroutines that use the client
    MaxReconnects,  \* reconnectMaxAttempts (0: no limit)
    MaxDials,       \* calls of Dial and ResetConnection (bound)
    MaxConns,       \* connections made (bound)
    MaxFlaps        \* connections that fail (bound)

ASSUME RcAssumption == MaxReconnects \in Nat /\ MaxDials \in Nat /\ MaxConns \in Nat /\ MaxFlaps \in Nat

VARIABLES
    rcConn,         \* Client.conn: the number of a connection, 0 for nil
    rcConns,        \* "ready", "failed" or "closed", of each connection made
    rcClosed,       \* Client.closed
    rcCancel,       \* reconnectCancel is set
    rcMonitors,     \* the goroutines of reconnectLoop: [pc, seen, cancelled]
    rcAttempts,     \* reconnectAttempts
    rcCalls,        \* what each goroutine is doing
    rcClose,        \* Close: "no", "wait", "close", "forget", "done"
    rcDials,        \* calls so far
    rcFlaps,        \* failures so far
    rcGaveUp,       \* a monitor reached the limit
    rcLate          \* a call went on while the client was being closed

rcVars == <<rcConn, rcConns, rcClosed, rcCancel, rcMonitors, rcAttempts, rcCalls, rcClose,
            rcDials, rcFlaps, rcGaveUp, rcLate>>

RcInit ==
    /\ rcConn = 0 /\ rcConns = << >> /\ rcClosed = FALSE /\ rcCancel = FALSE /\ rcMonitors = << >>
    /\ rcAttempts = 0 /\ rcCalls = [t \in RcCallers |-> "idle"] /\ rcClose = "no"
    /\ rcDials = 0 /\ rcFlaps = 0 /\ rcGaveUp = FALSE /\ rcLate = FALSE

-----------------------------------------------------------------------------
(* Connections.                                                            *)

ClosedConn(conns, c) == IF c = 0 THEN conns ELSE [conns EXCEPT ![c] = "closed"]

\* A successful grpc.DialContext becomes the connection of the client, whatever
\* that was.
SetNewConn ==
    /\ Len(rcConns) < MaxConns
    /\ rcConns' = Append(rcConns, "ready") /\ rcConn' = Len(rcConns) + 1

Flap(c) ==
    /\ rcConns[c] = "ready" /\ rcFlaps < MaxFlaps
    /\ rcConns' = [rcConns EXCEPT ![c] = "failed"] /\ rcFlaps' = rcFlaps + 1
    /\ UNCHANGED <<rcConn, rcClosed, rcCancel, rcMonitors, rcAttempts, rcCalls, rcClose, rcDials, rcGaveUp, rcLate>>

Recover(c) ==
    /\ rcConns[c] = "failed"
    /\ rcConns' = [rcConns EXCEPT ![c] = "ready"]
    /\ UNCHANGED <<rcConn, rcClosed, rcCancel, rcMonitors, rcAttempts, rcCalls, rcClose, rcDials, rcFlaps, rcGaveUp, rcLate>>

-----------------------------------------------------------------------------
(* Dial and ResetConnection.                                               *)

Ready == rcConn # 0 /\ rcConns[rcConn] = "ready"

\* The check at the start of Dial: an error if the client is closed or connected.
DialBegin(t) ==
    /\ rcCalls' = [rcCalls EXCEPT ![t] = IF rcClosed \/ Ready THEN "idle" ELSE "dial"]
    /\ rcLate' = (rcLate \/ rcClosed)

DialCall(t) ==
    /\ rcCalls[t] = "idle" /\ rcDials < MaxDials /\ rcDials' = rcDials + 1
    /\ DialBegin(t)
    /\ UNCHANGED <<rcConn, rcConns, rcClosed, rcCancel, rcMonitors, rcAttempts, rcClose, rcFlaps, rcGaveUp>>

DialConnects(t) ==
    /\ rcCalls[t] = "dial" /\ SetNewConn
    /\ rcCalls' = [rcCalls EXCEPT ![t] = "start"] /\ rcLate' = (rcLate \/ rcClosed)
    /\ UNCHANGED <<rcClosed, rcCancel, rcMonitors, rcAttempts, rcClose, rcDials, rcFlaps, rcGaveUp>>

DialFails(t) ==
    /\ rcCalls[t] = "dial" /\ rcCalls' = [rcCalls EXCEPT ![t] = "idle"]
    /\ UNCHANGED <<rcConn, rcConns, rcClosed, rcCancel, rcMonitors, rcAttempts, rcClose, rcDials, rcFlaps, rcGaveUp, rcLate>>

\* startReconnectMonitor: a monitor that gave up has left reconnectCancel set.
StartMonitor(t) ==
    /\ rcCalls[t] = "start" /\ rcCalls' = [rcCalls EXCEPT ![t] = "idle"]
    /\ rcCancel' = TRUE
    /\ rcMonitors' = IF rcCancel THEN rcMonitors
                     ELSE Append(rcMonitors, [pc |-> "top", seen |-> 0, cancelled |-> FALSE])
    /\ rcLate' = (rcLate \/ rcClosed)
    /\ UNCHANGED <<rcConn, rcConns, rcClosed, rcAttempts, rcClose, rcDials, rcFlaps, rcGaveUp>>

\* ResetConnection closes the connection, forgets whichever is set by then, and
\* calls Dial.
ResetClose(t) ==
    /\ rcCalls[t] = "idle" /\ rcDials < MaxDials /\ rcDials' = rcDials + 1
    /\ rcConns' = ClosedConn(rcConns, rcConn) /\ rcCalls' = [rcCalls EXCEPT ![t] = "reset"]
    /\ rcLate' = (rcLate \/ rcClosed)
    /\ UNCHANGED <<rcConn, rcClosed, rcCancel, rcMonitors, rcAttempts, rcClose, rcFlaps, rcGaveUp>>

ResetForget(t) ==
    /\ rcCalls[t] = "reset" /\ rcConn' = 0 /\ rcCalls' = [rcCalls EXCEPT ![t] = "redial"]
    /\ UNCHANGED <<rcConns, rcClosed, rcCancel, rcMonitors, rcAttempts, rcClose, rcDials, rcFlaps, rcGaveUp, rcLate>>

ResetDial(t) ==
    /\ rcCalls[t] = "redial" /\ DialBegin(t)
    /\ UNCHANGED <<rcConn, rcConns, rcClosed, rcCancel, rcMonitors, rcAttempts, rcClose, rcDials, rcFlaps, rcGaveUp>>

-----------------------------------------------------------------------------
(* reconnectLoop.                                                          *)

MonitorAlive(m) == rcMonitors[m].pc # "gone"
Stops(m) == rcClosed \/ rcMonitors[m].cancelled

MonitorTop(m) ==
    /\ rcMonitors[m].pc = "top"
    /\ \/ Stops(m) /\ rcMonitors' = [rcMonitors EXCEPT ![m].pc = "gone"]
       \/ ~Stops(m) /\ rcConn # 0
          /\ rcMonitors' = [rcMonitors EXCEPT ![m].pc = "watch", ![m].seen = rcConn]
    /\ UNCHANGED <<rcConn, rcConns, rcClosed, rcCancel, rcAttempts, rcCalls, rcClose, rcDials, rcFlaps, rcGaveUp, rcLate>>

\* After a change of state, or the interval, the connection it saw is still good.
MonitorContent(m) ==
    /\ rcMonitors[m].pc = "watch" /\ rcConns[rcMonitors[m].seen] = "ready"
    /\ rcMonitors' = [rcMonitors EXCEPT ![m].pc = "top"]
    /\ UNCHANGED <<rcConn, rcConns, rcClosed, rcCancel, rcAttempts, rcCalls, rcClose, rcDials, rcFlaps, rcGaveUp, rcLate>>

\* A plausible slip: the lost connection is left to the garbage collector.
MonitorReconnectsLeaking(m) ==
    /\ rcMonitors[m].pc = "watch" /\ rcConns[rcMonitors[m].seen] # "ready"
    /\ MaxReconnects = 0 \/ rcAttempts < MaxReconnects
    /\ rcAttempts' = IF MaxReconnects = 0 THEN 0 ELSE rcAttempts + 1
    /\ rcMonitors' = [rcMonitors EXCEPT ![m].pc = "dial"]
    /\ UNCHANGED <<rcConn, rcConns, rcClosed, rcCancel, rcCalls, rcClose, rcDials, rcFlaps, rcGaveUp, rcLate>>

\* The connection it saw is lost: reconnect closes the one set by now, even if
\* another call has just made it.
MonitorReconnects(m) ==
    /\ rcMonitors[m].pc = "watch" /\ rcConns[rcMonitors[m].seen] # "ready"
    /\ MaxReconnects = 0 \/ rcAttempts < MaxReconnects
    /\ rcAttempts' = IF MaxReconnects = 0 THEN 0 ELSE rcAttempts + 1
    /\ rcConns' = ClosedConn(rcConns, rcConn) /\ rcMonitors' = [rcMonitors EXCEPT ![m].pc = "dial"]
    /\ UNCHANGED <<rcConn, rcClosed, rcCancel, rcCalls, rcClose, rcDials, rcFlaps, rcGaveUp, rcLate>>

\* The attempts are never reset: the limit is for the life of the client.
MonitorGivesUp(m) ==
    /\ rcMonitors[m].pc = "watch" /\ rcConns[rcMonitors[m].seen] # "ready"
    /\ MaxReconnects # 0 /\ rcAttempts >= MaxReconnects
    /\ rcMonitors' = [rcMonitors EXCEPT ![m].pc = "gone"] /\ rcGaveUp' = TRUE
    /\ UNCHANGED <<rcConn, rcConns, rcClosed, rcCancel, rcAttempts, rcCalls, rcClose, rcDials, rcFlaps, rcLate>>

\* Cancellation may end the dialing, or come too late for it.
MonitorDialed(m) ==
    /\ rcMonitors[m].pc = "dial" /\ rcMonitors' = [rcMonitors EXCEPT ![m].pc = "top"]
    /\ SetNewConn \/ UNCHANGED <<rcConn, rcConns>>
    /\ UNCHANGED <<rcClosed, rcCancel, rcAttempts, rcCalls, rcClose, rcDials, rcFlaps, rcGaveUp, rcLate>>

-----------------------------------------------------------------------------
(* Close.                                                                  *)

ClientClose ==
    /\ rcClose = "no" /\ rcClose' = "wait" /\ rcClosed' = TRUE /\ rcCancel' = FALSE
    /\ rcMonitors' = [m \in DOMAIN rcMonitors |-> [rcMonitors[m] EXCEPT !.cancelled = TRUE]]
    /\ rcLate' = (rcLate \/ \E t \in RcCallers : rcCalls[t] # "idle")
    /\ UNCHANGED <<rcConn, rcConns, rcAttempts, rcCalls, rcDials, rcFlaps, rcGaveUp>>

CloseWaited ==
    /\ rcClose = "wait" /\ \A m \in DOMAIN rcMonitors : ~MonitorAlive(m)
    /\ rcClose' = "close"
    /\ UNCHANGED <<rcConn, rcConns, rcClosed, rcCancel, rcMonitors, rcAttempts, rcCalls, rcDials, rcFlaps, rcGaveUp, rcLate>>

CloseConn ==
    /\ rcClose = "close" /\ rcClose' = "forget" /\ rcConns' = ClosedConn(rcConns, rcConn)
    /\ UNCHANGED <<rcConn, rcClosed, rcCancel, rcMonitors, rcAttempts, rcCalls, rcDials, rcFlaps, rcGaveUp, rcLate>>

CloseForget ==
    /\ rcClose = "forget" /\ rcClose' = "done" /\ rcConn' = 0
    /\ UNCHANGED <<rcConns, rcClosed, rcCancel, rcMonitors, rcAttempts, rcCalls, rcDials, rcFlaps, rcGaveUp, rcLate>>

RcNext ==
    \/ \E c \in DOMAIN rcConns : Flap(c) \/ Recover(c)
    \/ \E t \in RcCallers :
         \/ DialCall(t) \/ DialConnects(t) \/ DialFails(t) \/ StartMonitor(t)
         \/ ResetClose(t) \/ ResetForget(t) \/ ResetDial(t)
    \/ \E m \in DOMAIN rcMonitors :
         MonitorTop(m) \/ MonitorContent(m) \/ MonitorReconnects(m) \/ MonitorGivesUp(m) \/ MonitorDialed(m)
    \/ ClientClose \/ CloseWaited \/ CloseConn \/ CloseForget

RcSpec == RcInit /\ [][RcNext]_rcVars

-----------------------------------------------------------------------------
(* Properties                                                              *)

\* One monitor at most is not cancelled, whatever calls overlap.
RcTypeOK ==
    /\ rcConns \in Seq({"ready", "failed", "closed"}) /\ rcConn \in 0..Len(rcConns)
    /\ rcMonitors \in Seq([pc : {"top", "watch", "dial", "gone"}, seen : 0..MaxConns, cancelled : BOOLEAN])
    /\ Cardinality({m \in DOMAIN rcMonitors : ~rcMonitors[m].cancelled}) <= 1
    /\ rcCalls \in [RcCallers -> {"idle", "dial", "start", "reset", "redial"}]
    /\ rcClose \in {"no", "wait", "close", "forget", "done"}
    /\ rcAttempts \in 0..MaxReconnects /\ rcDials \in 0..MaxDials /\ rcFlaps \in 0..MaxFlaps
    /\ {rcClosed, rcCancel, rcGaveUp, rcLate} \subseteq BOOLEAN

\* A client that dialed once never holds two connections open, however often its
\* monitor replaced the one it had: only overlapping or repeated calls leak
\* (client.go:173, client.go:322).
NoLeakAlone ==
    rcDials <= 1 /\ ~rcLate => \A c \in DOMAIN rcConns : c # rcConn => rcConns[c] = "closed"

\* An open client that has a connection has a monitor, unless one gave up: then
\* no Dial ever starts another (client.go:213).
Watched ==
    rcConn # 0 /\ ~rcClosed /\ (\A t \in RcCallers : rcCalls[t] # "start") =>
        rcGaveUp \/ \E m \in DOMAIN rcMonitors : MonitorAlive(m) /\ ~rcMonitors[m].cancelled

\* When Close has returned, no monitor is left that could connect again, and the
\* connection is gone, unless a call overlapped with Close (client.go:358).
ClosedForGood ==
    rcClose = "done" /\ ~rcLate =>
        /\ rcConn = 0 /\ \A m \in DOMAIN rcMonitors : ~MonitorAlive(m)
        /\ rcDials <= 1 => \A c \in DOMAIN rcConns : rcConns[c] = "closed"

\* A client whose calls and monitors overlap has one live monitor at most, leaks no
\* connection on its own, is watched, and is closed for good (client.go).
ClientKeepsOneLink ==
    /\ RcTypeOK
    /\ NoLeakAlone
    /\ Watched
    /\ ClosedForGood
=============================================================================
