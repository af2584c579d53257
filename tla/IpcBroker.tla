----------------------------- MODULE IpcBroker -----------------------------
(***************************************************************************)
(* The broker and the Unix socket of pkg/ipc (broker.go, socket.go).       *)
(*                                                                         *)
(* The broker queues what it receives for one processing goroutine; unlike *)
(* the event bus it never looks at closed before it queues.  The socket    *)
(* accepts in one goroutine (acceptConnections), which compares the number *)
(* of connections with the limit, and registers in another (acceptLoop),   *)
(* with a channel between them.  Reads, writes and deadlines of the        *)
(* connections are the environment: they succeed or fail.                  *)
(***************************************************************************)
EXTENDS Naturals, Sequences, FiniteSets

CONSTANTS
    IpcMessages,   \* messages, each received or sent once, numbered in that order
    Connections,   \* the connections clients open, numbered as they are accepted
    ContainerIds,  \* the identities Authenticate assigns
    MaxConns,      \* Socket.maxConns, 0 for no limit
    AcceptBuffer,  \* the capacity of acceptCh
    QueueBuffer,   \* the capacity of messageQueue
    MaxHistory,    \* the messages kept per session (one session here)
    EnableAuth     \* SocketConfig.EnableAuth

ASSUME IpcAssumption ==
    /\ Connections \subseteq Nat /\ IpcMessages \subseteq Nat
    /\ MaxConns \in Nat /\ AcceptBuffer \in Nat \ {0} /\ QueueBuffer \in Nat \ {0}
    /\ MaxHistory \in Nat \ {0} /\ EnableAuth \in BOOLEAN
    /\ "none" \notin ContainerIds

VARIABLES
    brokerClosed, messageQueue, queueClosed,
    processor,      \* processMessages: "select", "drain", "exited"
    processing,     \* the message it handles: at most one
    received,       \* per message: "new", "queued", "refused", "panicked", "handled", "sent", "unsent"
    lateReceives,   \* history: messages queued after the processor had left
    history,        \* Broker.sessionMessages of the session
    historySent,    \* history: the messages stored since the last clear
    socketClosed,
    conn,           \* per connection: "new", "accepting", "rejected", "queued", "taken", "open", "closed"
    connOwner,      \* connection.containerID, "none" before Authenticate
    authenticated,  \* the connections with the authenticated flag
    connCount,      \* Socket.connCount
    acceptCh,       \* the channel between the two goroutines
    acceptors       \* the goroutines still to end: "accept", "loop", and "close", which waits for them

brokerVars == <<brokerClosed, messageQueue, queueClosed, processor, processing, received,
                lateReceives, history, historySent>>
socketVars == <<socketClosed, conn, connOwner, authenticated, connCount, acceptCh, acceptors>>
ipcVars == <<brokerVars, socketVars>>

Open == {c \in Connections : conn[c] = "open"}

IpcTypeOK ==
    /\ brokerClosed \in BOOLEAN /\ queueClosed \in BOOLEAN /\ socketClosed \in BOOLEAN
    /\ messageQueue \in Seq(IpcMessages) /\ Len(messageQueue) <= QueueBuffer
    /\ processor \in {"select", "drain", "exited"}
    /\ processing \subseteq IpcMessages /\ Cardinality(processing) <= 1
    /\ received \in [IpcMessages -> {"new", "queued", "refused", "panicked", "handled", "sent", "unsent"}]
    /\ lateReceives \subseteq IpcMessages
    /\ history \in Seq(IpcMessages) /\ historySent \in Seq(IpcMessages)
    /\ conn \in [Connections -> {"new", "accepting", "rejected", "queued", "taken", "open", "closed"}]
    /\ connOwner \in [Connections -> ContainerIds \cup {"none"}]
    /\ authenticated \subseteq Connections /\ connCount \in Nat
    /\ acceptCh \in Seq(Connections) /\ Len(acceptCh) <= AcceptBuffer
    /\ acceptors \subseteq {"accept", "loop", "close"}

IpcInit ==
    /\ brokerClosed = FALSE /\ messageQueue = <<>> /\ queueClosed = FALSE
    /\ processor = "select" /\ processing = {}
    /\ received = [m \in IpcMessages |-> "new"] /\ lateReceives = {}
    /\ history = <<>> /\ historySent = <<>>
    /\ socketClosed = FALSE /\ conn = [c \in Connections |-> "new"]
    /\ connOwner = [c \in Connections |-> "none"] /\ authenticated = {} /\ connCount = 0
    /\ acceptCh = <<>> /\ acceptors = {"accept", "loop", "close"}

-----------------------------------------------------------------------------
(* The broker                                                              *)

ToMessage(m, from, to) ==
    /\ received[m] = from
    /\ from = "new" => \A n \in IpcMessages : n < m => received[n] # "new"
    /\ received' = [received EXCEPT ![m] = to]

\* Receive: the select takes a free place, the end of the context, five
\* seconds, or panics on the queue Close has closed.
ReceiveMessage(m) ==
    /\ \/ /\ ~queueClosed /\ Len(messageQueue) < QueueBuffer
          /\ ToMessage(m, "new", "queued")
          /\ messageQueue' = Append(messageQueue, m)
          /\ lateReceives' = IF processor = "exited" THEN lateReceives \cup {m} ELSE lateReceives
       \/ ToMessage(m, "new", "refused") /\ UNCHANGED <<messageQueue, lateReceives>>
       \/ queueClosed /\ ToMessage(m, "new", "panicked") /\ UNCHANGED <<messageQueue, lateReceives>>
    /\ UNCHANGED <<brokerClosed, queueClosed, processor, processing, history, historySent, socketVars>>

ProcessorTakes ==
    /\ processor # "exited" /\ processing = {} /\ messageQueue # <<>>
    /\ processing' = {Head(messageQueue)} /\ messageQueue' = Tail(messageQueue)
    /\ UNCHANGED <<brokerClosed, queueClosed, processor, received, lateReceives, history, historySent, socketVars>>

\* handleMessage: no handler, a failing one or a successful one, within its timeout.
MessageHandled(m) ==
    /\ m \in processing
    /\ ToMessage(m, "queued", "handled")
    /\ processing' = {}
    /\ UNCHANGED <<brokerClosed, messageQueue, queueClosed, processor, lateReceives, history, historySent, socketVars>>

\* Mutant of ProcessorStops: leaves the rest of the queue.
ProcessorLeaves ==
    /\ processing = {} /\ processor # "exited" /\ brokerClosed
    /\ processor' = "exited"
    /\ UNCHANGED <<brokerClosed, messageQueue, queueClosed, processing, received, lateReceives, history, historySent, socketVars>>

\* processMessages sees closeCh, drains, and returns when the queue is empty.
ProcessorStops ==
    /\ processing = {}
    /\ \/ processor = "select" /\ brokerClosed /\ processor' = "drain"
       \/ processor = "drain" /\ messageQueue = <<>> /\ processor' = "exited"
    /\ UNCHANGED <<brokerClosed, messageQueue, queueClosed, processing, received, lateReceives, history, historySent, socketVars>>

storeMessage(m) ==
    LET h == Append(history, m)
    IN history' = SubSeq(h, IF Len(h) > MaxHistory THEN Len(h) - MaxHistory + 1 ELSE 1, Len(h))

\* Send: refused when the broker is closed; the socket finds an open
\* connection of the target and writes, or fails; what was written is stored.
SendMessage(m, target) ==
    /\ \/ /\ ~brokerClosed /\ ~socketClosed /\ \E c \in Open : connOwner[c] = target
          /\ ToMessage(m, "new", "sent")
          /\ storeMessage(m) /\ historySent' = Append(historySent, m)
       \/ ToMessage(m, "new", "unsent") /\ UNCHANGED <<history, historySent>>
    /\ UNCHANGED <<brokerClosed, messageQueue, queueClosed, processor, processing, lateReceives, socketVars>>

ClearSessionMessages ==
    /\ ~brokerClosed /\ history # <<>>
    /\ history' = <<>> /\ historySent' = <<>>
    /\ UNCHANGED <<brokerClosed, messageQueue, queueClosed, processor, processing, received, lateReceives, socketVars>>

BrokerClose ==
    /\ ~brokerClosed /\ brokerClosed' = TRUE
    /\ UNCHANGED <<messageQueue, queueClosed, processor, processing, received, lateReceives, history, historySent, socketVars>>

-----------------------------------------------------------------------------
(* The socket                                                              *)

ToConn(c, from, to) ==
    /\ conn[c] = from
    /\ from = "new" => \A d \in Connections : d < c => conn[d] # "new"
    /\ conn' = [conn EXCEPT ![c] = to]

\* acceptConnections: accept, compare connCount with the limit, reject or go on
\* to the channel.
AcceptConnection(c) ==
    /\ "accept" \in acceptors /\ ~socketClosed /\ ~\E d \in Connections : conn[d] = "accepting"
    /\ ToConn(c, "new", IF MaxConns > 0 /\ connCount >= MaxConns THEN "rejected" ELSE "accepting")
    /\ UNCHANGED <<socketClosed, connOwner, authenticated, connCount, acceptCh, acceptors, brokerVars>>

\* The channel takes the connection, or stays full for five seconds.
OfferConnection(c) ==
    /\ \/ Len(acceptCh) < AcceptBuffer /\ ToConn(c, "accepting", "queued") /\ acceptCh' = Append(acceptCh, c)
       \/ Len(acceptCh) = AcceptBuffer /\ ToConn(c, "accepting", "rejected") /\ UNCHANGED acceptCh
    /\ UNCHANGED <<socketClosed, connOwner, authenticated, connCount, acceptors, brokerVars>>

\* acceptLoop takes a connection from the channel.
TakeConnection ==
    /\ "loop" \in acceptors /\ acceptCh # <<>> /\ ~\E d \in Connections : conn[d] = "taken"
    /\ ToConn(Head(acceptCh), "queued", "taken")
    /\ acceptCh' = Tail(acceptCh)
    /\ UNCHANGED <<socketClosed, connOwner, authenticated, connCount, acceptors, brokerVars>>

\* handleConnection, under the lock.
HandleConnection(c) ==
    /\ ToConn(c, "taken", "open")
    /\ connCount' = connCount + 1
    /\ authenticated' = IF EnableAuth THEN authenticated ELSE authenticated \cup {c}
    /\ UNCHANGED <<socketClosed, connOwner, acceptCh, acceptors, brokerVars>>

\* Authenticate does not look whether the identity has a connection already.
Authenticate(c, id) ==
    /\ c \in Open
    /\ connOwner' = [connOwner EXCEPT ![c] = id]
    /\ authenticated' = authenticated \cup {c}
    /\ UNCHANGED <<socketClosed, conn, connCount, acceptCh, acceptors, brokerVars>>

CloseConnection(c) ==
    /\ ToConn(c, "open", "closed")
    /\ connCount' = connCount - 1
    /\ authenticated' = authenticated \ {c}
    /\ UNCHANGED <<socketClosed, connOwner, acceptCh, acceptors, brokerVars>>

\* Broker.Close goes on once the processor left: the queue is closed, then the
\* socket, whose goroutines are told to stop.
CloseSocketBegins ==
    /\ brokerClosed /\ processor = "exited" /\ ~socketClosed
    /\ queueClosed' = TRUE /\ socketClosed' = TRUE
    /\ UNCHANGED <<brokerClosed, messageQueue, processor, processing, received, lateReceives,
                   history, historySent, conn, connOwner, authenticated, connCount, acceptCh, acceptors>>

\* A goroutine returns when it holds no connection; what waits in the channel
\* stays there.
AcceptorReturns(g) ==
    /\ socketClosed /\ g \in acceptors \ {"close"}
    /\ \A c \in Connections : conn[c] # (IF g = "loop" THEN "taken" ELSE "accepting")
    /\ acceptors' = acceptors \ {g}
    /\ UNCHANGED <<socketClosed, conn, connOwner, authenticated, connCount, acceptCh, brokerVars>>

\* wg.Wait is over: every registered connection is closed.
CloseSocketEnds ==
    /\ socketClosed /\ acceptors = {"close"}
    /\ conn' = [c \in Connections |-> IF c \in Open THEN "closed" ELSE conn[c]]
    /\ authenticated' = {} /\ connCount' = 0 /\ acceptors' = acceptors \ {"close"}
    /\ UNCHANGED <<socketClosed, connOwner, acceptCh, brokerVars>>

IpcNext ==
    \/ \E m \in IpcMessages : ReceiveMessage(m) \/ MessageHandled(m) \/ \E i \in ContainerIds : SendMessage(m, i)
    \/ ProcessorTakes \/ ProcessorStops \/ ClearSessionMessages \/ BrokerClose
    \/ \E c \in Connections :
         \/ AcceptConnection(c) \/ OfferConnection(c) \/ HandleConnection(c) \/ CloseConnection(c)
         \/ \E i \in ContainerIds : Authenticate(c, i)
    \/ TakeConnection \/ CloseSocketBegins \/ CloseSocketEnds
    \/ \E g \in acceptors : AcceptorReturns(g)

IpcSpec == IpcInit /\ [][IpcNext]_ipcVars

-----------------------------------------------------------------------------
(* Properties                                                              *)

\* A message that Receive queued is handled before the processor leaves,
\* except for those queued after it left, which Receive does not prevent
\* (processMessages drains on closeCh).
QueuedIsHandled ==
    processor = "exited" =>
        \A m \in IpcMessages : received[m] = "queued" => m \in lateReceives

\* The limit is passed by no more than what the acceptor, the channel and the
\* loop hold between them, since connCount counts registered connections only
\* (acceptConnections compares before it queues).
LimitOvershoot == MaxConns > 0 => Cardinality(Open) <= MaxConns + AcceptBuffer + 1

\* connCount, the number the limit is compared with, is that of the registered
\* connections (handleConnection, CloseConnection and Close keep it so).
CountMatches == connCount = Cardinality(Open)

\* After Close no connection is registered: none is opened behind its back.
NoneAfterClose == "close" \notin acceptors => Open = {}

\* The history of a session is the last messages sent in it, in order.
HistoryIsRecent ==
    history = SubSeq(historySent,
        IF Len(historySent) > MaxHistory THEN Len(historySent) - MaxHistory + 1 ELSE 1, Len(historySent))

\* Messages queued in time are handled, connections are counted as they are and not
\* many more than allowed, none survives Close, and the history of a session is its
\* last messages (broker.go, socket.go).
IpcSafe ==
    /\ IpcTypeOK
    /\ QueuedIsHandled
    /\ LimitOvershoot
    /\ CountMatches
    /\ NoneAfterClose
    /\ HistoryIsRecent
=============================================================================
