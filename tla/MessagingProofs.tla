--------------------------- MODULE MessagingProofs ---------------------------
(***************************************************************************)
(* Proofs about the parts that pass messages on: the IPC broker and its    *)
(* socket, the event bus, the streams fed by it, the router, handlers and  *)
(* middleware on the way, and the assistant's clients of the gateway and   *)
(* of its streams.  The modules share no state, and every section is about *)
(* the specification of one of them.                                       *)
(***************************************************************************)
EXTENDS IpcBroker, EventBus, EventPipeline, EventStreams, AssistantClients, FiniteSetTheorems, SequenceTheorems, TLAPS

-----------------------------------------------------------------------------
(* Sequences.                                                              *)

\* The bounded history of storeMessage: the last max elements of a sequence.
Recent(s, max) == SubSeq(s, IF Len(s) > max THEN Len(s) - max + 1 ELSE 1, Len(s))

\* The history after an append: the last max of the messages, in their order.
LEMMA RecentProperties ==
    ASSUME NEW S, NEW s \in Seq(S), NEW max \in Nat \ {0}
    PROVE  /\ Recent(s, max) \in Seq(S)
           /\ Len(Recent(s, max)) = IF Len(s) > max THEN max ELSE Len(s)
           /\ \A i \in 1..Len(Recent(s, max)) :
                 Recent(s, max)[i] = s[i + (IF Len(s) > max THEN Len(s) - max ELSE 0)]
<1> DEFINE m == IF Len(s) > max THEN Len(s) - max + 1 ELSE 1
<1>1. m \in 1..Len(s) + 1 /\ Len(s) \in Nat
  OBVIOUS
<1>2. \A i \in m..Len(s) : s[i] \in S
  BY <1>1, ElementOfSeq
<1>3. /\ SubSeq(s, m, Len(s)) \in Seq(S)
      /\ Len(SubSeq(s, m, Len(s))) = IF m <= Len(s) THEN Len(s) - m + 1 ELSE 0
      /\ \A i \in 1..Len(s) - m + 1 : SubSeq(s, m, Len(s))[i] = s[m + i - 1]
  BY <1>1, <1>2, SubSeqProperties
<1>4. CASE Len(s) > max
  BY <1>1, <1>3, <1>4 DEF Recent
<1>5. CASE ~(Len(s) > max)
  <2>1. m = 1
    BY <1>5
  <2> HIDE DEF m
  <2>2. Recent(s, max) = SubSeq(s, 1, Len(s))
    BY <1>5 DEF Recent
  <2> QED
    BY <1>1, <1>3, <1>5, <2>1, <2>2
<1> QED
  BY <1>4, <1>5

\* Adding to what is kept keeps the last of all.
LEMMA RecentAppend ==
    ASSUME NEW S, NEW s \in Seq(S), NEW e \in S, NEW max \in Nat \ {0}
    PROVE  Recent(Append(Recent(s, max), e), max) = Recent(Append(s, e), max)
<1> DEFINE r == Recent(s, max)
           a == Append(r, e)
           b == Append(s, e)
<1>1. /\ r \in Seq(S) /\ Len(r) = (IF Len(s) > max THEN max ELSE Len(s))
      /\ \A i \in 1..Len(r) : r[i] = s[i + (IF Len(s) > max THEN Len(s) - max ELSE 0)]
  BY RecentProperties
<1> HIDE DEF r
<1>2. /\ a \in Seq(S) /\ Len(a) = Len(r) + 1 /\ a[Len(r) + 1] = e /\ \A i \in 1..Len(r) : a[i] = r[i]
      /\ b \in Seq(S) /\ Len(b) = Len(s) + 1 /\ b[Len(s) + 1] = e /\ \A i \in 1..Len(s) : b[i] = s[i]
  BY <1>1, AppendProperties
<1> HIDE DEF a, b
<1>3. Len(s) \in Nat
  OBVIOUS
<1>4. /\ Recent(a, max) \in Seq(S)
      /\ Len(Recent(a, max)) = IF Len(a) > max THEN max ELSE Len(a)
      /\ \A i \in 1..Len(Recent(a, max)) : Recent(a, max)[i] = a[i + (IF Len(a) > max THEN Len(a) - max ELSE 0)]
  BY <1>2, RecentProperties
<1>5. /\ Recent(b, max) \in Seq(S)
      /\ Len(Recent(b, max)) = IF Len(b) > max THEN max ELSE Len(b)
      /\ \A i \in 1..Len(Recent(b, max)) : Recent(b, max)[i] = b[i + (IF Len(b) > max THEN Len(b) - max ELSE 0)]
  BY <1>2, RecentProperties
<1>6. Len(Recent(a, max)) = Len(Recent(b, max))
  BY <1>1, <1>2, <1>3, <1>4, <1>5
<1>7. ASSUME NEW i \in 1..Len(Recent(a, max)) PROVE Recent(a, max)[i] = Recent(b, max)[i]
  <2>1. CASE Len(s) < max
    <3>1. Len(r) = Len(s) /\ Len(a) = Len(s) + 1 /\ Len(b) = Len(s) + 1 /\ i \in 1..Len(s) + 1
      BY <2>1, <1>1, <1>2, <1>3, <1>4
    <3>2. Recent(a, max)[i] = a[i] /\ Recent(b, max)[i] = b[i]
      BY <2>1, <3>1, <1>3, <1>4, <1>5, <1>6
    <3>3. CASE i = Len(s) + 1
      BY <3>1, <3>2, <3>3, <1>2
    <3>4. CASE i \in 1..Len(s)
      <4>1. r[i] = s[i]
        BY <2>1, <3>1, <3>4, <1>1, <1>3
      <4> QED
        BY <3>1, <3>2, <3>4, <4>1, <1>2
    <3> QED
      BY <3>1, <3>3, <3>4, <1>3
  <2>2. CASE Len(s) >= max
    <3>1. Len(r) = max /\ Len(a) = max + 1 /\ Len(b) = Len(s) + 1 /\ i \in 1..max
      BY <2>2, <1>1, <1>2, <1>3, <1>4
    <3>2. Recent(a, max)[i] = a[i + 1] /\ Recent(b, max)[i] = b[i + (Len(s) + 1 - max)]
      <4>1. Len(a) > max /\ Len(b) > max /\ Len(a) - max = 1 /\ Len(b) - max = Len(s) + 1 - max
        BY <2>2, <3>1, <1>3
      <4>2. i \in 1..Len(Recent(a, max)) /\ i \in 1..Len(Recent(b, max))
        BY <1>6
      <4> QED
        BY <4>1, <4>2, <1>4, <1>5
    <3>3. CASE i = max
      BY <2>2, <3>1, <3>2, <3>3, <1>2, <1>3
    <3>4. CASE i < max
      <4>1. i + 1 \in 1..Len(r) /\ i + (Len(s) + 1 - max) \in 1..Len(s)
        BY <2>2, <3>1, <3>4, <1>3
      <4>2. r[i + 1] = s[i + 1 + (Len(s) - max)]
        <5>1. CASE Len(s) > max
          BY <4>1, <5>1, <1>1
        <5>2. CASE Len(s) = max
          BY <4>1, <5>2, <1>1, <1>3
        <5> QED
          BY <2>2, <5>1, <5>2, <1>3
      <4>3. i + 1 + (Len(s) - max) = i + (Len(s) + 1 - max)
        BY <1>3, <3>1
      <4> QED
        BY <3>2, <4>1, <4>2, <4>3, <1>2
    <3> QED
      BY <3>1, <3>3, <3>4
  <2> QED
    BY <1>3, <2>1, <2>2
<1>8. Recent(a, max) = Recent(b, max)
  BY <1>4, <1>5, <1>6, <1>7, SeqEqual
<1> QED
  BY <1>8 DEF a, b, r

-----------------------------------------------------------------------------
(* The broker and its socket.                                              *)

InQueue(m) == \E i \in 1..Len(messageQueue) : messageQueue[i] = m

\* A message that was queued and not handled is in the queue or in the hands of
\* the processor; after the processor left only late ones are.
QueuedIsSomewhere ==
    /\ \A m, n \in processing : m = n
    /\ \A m \in IpcMessages : received[m] = "queued" => m \in processing \/ InQueue(m)
    /\ processor = "exited" =>
         processing = {} /\ \A i \in 1..Len(messageQueue) : messageQueue[i] \in lateReceives

\* The connections on their way to be registered: the acceptor has one at most, and
\* so has the loop; the channel has no more than fit.  All of them together with
\* the registered ones stay within the limit and what may be on its way.
OnTheWay(state) == IF \E c \in Connections : conn[c] = state THEN 1 ELSE 0
OneOnTheWay ==
    \A c, d \in Connections : conn[c] \in {"accepting", "taken"} /\ conn[d] = conn[c] => c = d
LoadIsBounded ==
    MaxConns > 0 =>
        connCount + Len(acceptCh) + OnTheWay("taken") + OnTheWay("accepting") <= MaxConns + AcceptBuffer + 1

\* The loop hands over what it took before it returns, and Close waits for it.
LoopHandsOver ==
    /\ "loop" \notin acceptors => \A c \in Connections : conn[c] # "taken"
    /\ "close" \notin acceptors => "loop" \notin acceptors

BrokerInv == QueuedIsSomewhere /\ HistoryIsRecent
SocketInv == OneOnTheWay /\ LoadIsBounded /\ LoopHandsOver /\ CountMatches /\ NoneAfterClose /\ IsFiniteSet(Open)

\* The inductive invariant.
IpcIInv == IpcTypeOK /\ BrokerInv /\ SocketInv

\* An idle broker and a socket without connections satisfy it.
LEMMA IpcInitIInv == IpcInit => IpcIInv
<1> SUFFICES ASSUME IpcInit PROVE IpcIInv
  OBVIOUS
<1> USE IpcAssumption DEF IpcInit
<1>1. IpcTypeOK
  <2>1. processing \subseteq IpcMessages /\ Cardinality(processing) <= 1
    BY FS_EmptySet
  <2>2. messageQueue \in Seq(IpcMessages) /\ Len(messageQueue) <= QueueBuffer
        /\ history \in Seq(IpcMessages) /\ historySent \in Seq(IpcMessages)
        /\ acceptCh \in Seq(Connections) /\ Len(acceptCh) <= AcceptBuffer
    OBVIOUS
  <2> QED
    BY <2>1, <2>2 DEF IpcTypeOK
<1>2. BrokerInv
  BY SubSeqEmpty DEF BrokerInv, QueuedIsSomewhere, InQueue, HistoryIsRecent
<1>3. Open = {}
  BY DEF Open
<1>4. SocketInv
  BY <1>3, FS_EmptySet DEF SocketInv, OneOnTheWay, LoadIsBounded, OnTheWay, LoopHandsOver, CountMatches, NoneAfterClose
<1> QED
  BY <1>1, <1>2, <1>4 DEF IpcIInv

\* What a step that concerns the broker, or the socket, leaves alone.
LEMMA SocketKept == SocketInv /\ UNCHANGED socketVars => SocketInv'
  BY DEF SocketInv, socketVars, OneOnTheWay, LoadIsBounded, OnTheWay, LoopHandsOver, CountMatches, NoneAfterClose, Open

\* And a step of the socket leaves the broker alone.
LEMMA BrokerKept == BrokerInv /\ UNCHANGED brokerVars => BrokerInv'
  BY DEF BrokerInv, brokerVars, QueuedIsSomewhere, InQueue, HistoryIsRecent

\* The registered connections after a step of one connection.
LEMMA OpenAfter ==
    ASSUME IpcTypeOK, NEW c \in Connections, NEW to, conn' = [conn EXCEPT ![c] = to]
    PROVE  Open' = IF to = "open" THEN Open \cup {c} ELSE Open \ {c}
  BY DEF IpcTypeOK, Open

\* The types.
LEMMA IpcTypeStep == IpcIInv /\ [IpcNext]_ipcVars => IpcTypeOK'
<1> SUFFICES ASSUME IpcIInv, [IpcNext]_ipcVars PROVE IpcTypeOK'
  OBVIOUS
<1> USE IpcAssumption DEF brokerVars, socketVars, ToMessage, ToConn
<1>0. IpcTypeOK /\ BrokerInv /\ SocketInv
  BY DEF IpcIInv
<1>1. ASSUME NEW m \in IpcMessages, ReceiveMessage(m) PROVE IpcTypeOK'
  <2>1. CASE ToMessage(m, "new", "queued") /\ Len(messageQueue) < QueueBuffer /\ messageQueue' = Append(messageQueue, m)
    <3>1. messageQueue' \in Seq(IpcMessages) /\ Len(messageQueue') <= QueueBuffer
      BY <1>0, <2>1 DEF IpcTypeOK
    <3>2. received' \in [IpcMessages -> {"new", "queued", "refused", "panicked", "handled", "sent", "unsent"}]
      BY <1>0, <2>1 DEF IpcTypeOK
    <3>3. lateReceives' \subseteq IpcMessages
      <4>1. lateReceives' = lateReceives \/ lateReceives' = lateReceives \cup {m}
        BY <1>1 DEF ReceiveMessage
      <4>2. lateReceives \subseteq IpcMessages
        BY <1>0 DEF IpcTypeOK
      <4> QED
        BY <4>1, <4>2
    <3> QED
      BY <1>0, <1>1, <3>1, <3>2, <3>3 DEF ReceiveMessage, IpcTypeOK
  <2>2. CASE /\ ToMessage(m, "new", "refused") \/ ToMessage(m, "new", "panicked")
             /\ UNCHANGED <<messageQueue, lateReceives>>
    <3>1. received' \in [IpcMessages -> {"new", "queued", "refused", "panicked", "handled", "sent", "unsent"}]
      BY <1>0, <2>2 DEF IpcTypeOK
    <3> QED
      BY <1>0, <1>1, <2>2, <3>1 DEF ReceiveMessage, IpcTypeOK
  <2> QED
    BY <1>1, <2>1, <2>2 DEF ReceiveMessage
<1>2. ASSUME NEW m \in IpcMessages, MessageHandled(m) PROVE IpcTypeOK'
  BY <1>0, <1>2, FS_EmptySet DEF MessageHandled, IpcTypeOK
<1>3. ASSUME NEW m \in IpcMessages, NEW id \in ContainerIds, SendMessage(m, id) PROVE IpcTypeOK'
  <2>1. history' \in Seq(IpcMessages) /\ historySent' \in Seq(IpcMessages)
    <3>1. CASE UNCHANGED <<history, historySent>>
      BY <1>0, <3>1 DEF IpcTypeOK
    <3>2. CASE storeMessage(m) /\ historySent' = Append(historySent, m)
      <4>1. Append(history, m) \in Seq(IpcMessages) /\ historySent' \in Seq(IpcMessages)
        BY <1>0, <3>2 DEF IpcTypeOK
      <4>2. history' = Recent(Append(history, m), MaxHistory)
        BY <3>2 DEF storeMessage, Recent
      <4> QED
        BY <4>1, <4>2, RecentProperties
    <3> QED
      BY <1>3, <3>1, <3>2 DEF SendMessage
  <2> QED
    BY <1>0, <1>3, <2>1 DEF SendMessage, IpcTypeOK
<1>4. CASE ProcessorTakes
  <2>1. Head(messageQueue) \in IpcMessages
    BY <1>0, <1>4 DEF ProcessorTakes, IpcTypeOK
  <2>2. Cardinality(processing') <= 1
    <3>1. processing' = {Head(messageQueue)}
      BY <1>4 DEF ProcessorTakes
    <3>2. Cardinality({Head(messageQueue)}) = 1
      BY FS_Singleton
    <3> QED
      BY <3>1, <3>2
  <2> QED
    BY <1>0, <1>4, <2>1, <2>2 DEF ProcessorTakes, IpcTypeOK
<1>5. CASE ProcessorStops \/ ClearSessionMessages \/ BrokerClose
  <2>1. CASE ProcessorStops
    BY <1>0, <2>1 DEF ProcessorStops, IpcTypeOK
  <2>2. CASE ClearSessionMessages
    BY <1>0, <2>2 DEF ClearSessionMessages, IpcTypeOK
  <2>3. CASE BrokerClose
    BY <1>0, <2>3 DEF BrokerClose, IpcTypeOK
  <2> QED
    BY <1>5, <2>1, <2>2, <2>3
<1>6. ASSUME NEW c \in Connections, AcceptConnection(c) \/ OfferConnection(c) PROVE IpcTypeOK'
  <2>1. CASE AcceptConnection(c)
    <3>1. conn' \in [Connections -> {"new", "accepting", "rejected", "queued", "taken", "open", "closed"}]
      BY <1>0, <2>1 DEF AcceptConnection, IpcTypeOK
    <3> QED
      BY <1>0, <2>1, <3>1 DEF AcceptConnection, IpcTypeOK
  <2>2. CASE OfferConnection(c)
    <3>1. conn' \in [Connections -> {"new", "accepting", "rejected", "queued", "taken", "open", "closed"}]
      BY <1>0, <2>2 DEF OfferConnection, IpcTypeOK
    <3>2. acceptCh' \in Seq(Connections) /\ Len(acceptCh') <= AcceptBuffer
      <4>1. acceptCh' = acceptCh \/ (Len(acceptCh) < AcceptBuffer /\ acceptCh' = Append(acceptCh, c))
        BY <2>2 DEF OfferConnection
      <4>2. acceptCh \in Seq(Connections) /\ Len(acceptCh) <= AcceptBuffer
        BY <1>0 DEF IpcTypeOK
      <4> QED
        BY <4>1, <4>2, AppendProperties
    <3> QED
      BY <1>0, <2>2, <3>1, <3>2 DEF OfferConnection, IpcTypeOK
  <2> QED
    BY <1>6, <2>1, <2>2
<1>7. ASSUME NEW c \in Connections, HandleConnection(c) PROVE IpcTypeOK'
  BY <1>0, <1>7 DEF HandleConnection, IpcTypeOK
<1>8. ASSUME NEW c \in Connections, CloseConnection(c) PROVE IpcTypeOK'
  <2>1. connCount - 1 \in Nat
    <3>1. c \in Open /\ IsFiniteSet(Open) /\ connCount = Cardinality(Open)
      BY <1>0, <1>8 DEF CloseConnection, Open, SocketInv, CountMatches
    <3>2. Cardinality(Open) # 0 /\ Cardinality(Open) \in Nat
      BY <3>1, FS_EmptySet, FS_CardinalityType
    <3> QED
      BY <3>1, <3>2
  <2> QED
    BY <1>0, <1>8, <2>1 DEF CloseConnection, IpcTypeOK
<1>9. ASSUME NEW c \in Connections, NEW id \in ContainerIds, Authenticate(c, id) PROVE IpcTypeOK'
  BY <1>0, <1>9 DEF Authenticate, IpcTypeOK
<1>10. CASE TakeConnection
  BY <1>0, <1>10 DEF TakeConnection, IpcTypeOK
<1>11. CASE CloseSocketBegins
  BY <1>0, <1>11 DEF CloseSocketBegins, IpcTypeOK
<1>12. CASE CloseSocketEnds
  <2>1. conn' \in [Connections -> {"new", "accepting", "rejected", "queued", "taken", "open", "closed"}]
    BY <1>0, <1>12 DEF CloseSocketEnds, IpcTypeOK
  <2> QED
    BY <1>0, <1>12, <2>1 DEF CloseSocketEnds, IpcTypeOK
<1>13. ASSUME NEW g \in acceptors, AcceptorReturns(g) PROVE IpcTypeOK'
  BY <1>0, <1>13 DEF AcceptorReturns, IpcTypeOK
<1>14. CASE UNCHANGED ipcVars
  BY <1>0, <1>14 DEF ipcVars, IpcTypeOK
<1> QED
  BY <1>1, <1>2, <1>3, <1>4, <1>5, <1>6, <1>7, <1>8, <1>9, <1>10, <1>11, <1>12, <1>13, <1>14 DEF IpcNext

\* The broker's steps keep the messages where they are, and the history recent.
LEMMA BrokerStep ==
    ASSUME IpcTypeOK, BrokerInv,
           \/ \E m \in IpcMessages : ReceiveMessage(m) \/ MessageHandled(m) \/ \E i \in ContainerIds : SendMessage(m, i)
           \/ ProcessorTakes \/ ProcessorStops \/ ClearSessionMessages \/ BrokerClose
    PROVE  BrokerInv'
<1> USE DEF BrokerInv
<1>1. /\ messageQueue \in Seq(IpcMessages) /\ processing \subseteq IpcMessages
      /\ received \in [IpcMessages -> {"new", "queued", "refused", "panicked", "handled", "sent", "unsent"}]
  BY DEF IpcTypeOK
<1>2. ASSUME NEW m \in IpcMessages, ReceiveMessage(m) PROVE BrokerInv'
  <2>1. UNCHANGED <<processor, processing>> /\ HistoryIsRecent'
    BY <1>2 DEF ReceiveMessage, HistoryIsRecent
  <2>2. CASE /\ ToMessage(m, "new", "queued")
             /\ messageQueue' = Append(messageQueue, m)
             /\ lateReceives' = IF processor = "exited" THEN lateReceives \cup {m} ELSE lateReceives
    <3>1. /\ Len(messageQueue') = Len(messageQueue) + 1 /\ messageQueue'[Len(messageQueue) + 1] = m
          /\ \A i \in 1..Len(messageQueue) : messageQueue'[i] = messageQueue[i]
          /\ Len(messageQueue) \in Nat
      BY <1>1, <2>2, AppendProperties
    <3>2. \A n \in IpcMessages : n # m => received'[n] = received[n]
      BY <1>1, <2>2 DEF ToMessage
    <3>3. InQueue(m)' /\ \A n : InQueue(n) => InQueue(n)'
      BY <3>1 DEF InQueue
    <3>4. processor = "exited" => \A i \in 1..Len(messageQueue') : messageQueue'[i] \in lateReceives'
      BY <2>2, <3>1 DEF QueuedIsSomewhere
    <3> QED
      BY <2>1, <3>2, <3>3, <3>4 DEF QueuedIsSomewhere
  <2>3. CASE /\ ToMessage(m, "new", "refused") \/ ToMessage(m, "new", "panicked")
             /\ UNCHANGED <<messageQueue, lateReceives>>
    <3>1. \A n \in IpcMessages : received'[n] = "queued" => received[n] = "queued"
      BY <1>1, <2>3 DEF ToMessage
    <3> QED
      BY <2>1, <2>3, <3>1 DEF QueuedIsSomewhere, InQueue
  <2> QED
    BY <1>2, <2>2, <2>3 DEF ReceiveMessage
<1>3. ASSUME NEW m \in IpcMessages, MessageHandled(m) PROVE BrokerInv'
  <2>1. /\ \A n \in IpcMessages : received'[n] = IF n = m THEN "handled" ELSE received[n]
        /\ processing' = {} /\ m \in processing
        /\ UNCHANGED <<messageQueue, processor, lateReceives, history, historySent>>
    BY <1>1, <1>3 DEF MessageHandled, ToMessage
  <2> QED
    BY <2>1 DEF QueuedIsSomewhere, InQueue, HistoryIsRecent
<1>4. ASSUME NEW m \in IpcMessages, NEW id \in ContainerIds, SendMessage(m, id) PROVE BrokerInv'
  <2>1. \A n \in IpcMessages : received'[n] = "queued" => received[n] = "queued"
    BY <1>1, <1>4 DEF SendMessage, ToMessage
  <2>2. QueuedIsSomewhere'
    BY <1>4, <2>1 DEF SendMessage, QueuedIsSomewhere, InQueue
  <2>3. CASE UNCHANGED <<history, historySent>>
    BY <2>2, <2>3 DEF HistoryIsRecent
  <2>4. CASE storeMessage(m) /\ historySent' = Append(historySent, m)
    <3>1. historySent \in Seq(IpcMessages) /\ MaxHistory \in Nat \ {0}
      BY IpcAssumption DEF IpcTypeOK
    <3>2. history = Recent(historySent, MaxHistory)
      BY DEF HistoryIsRecent, Recent
    <3>3. history' = Recent(Append(history, m), MaxHistory)
      BY <2>4 DEF storeMessage, Recent
    <3>4. history' = Recent(Append(historySent, m), MaxHistory)
      BY <3>1, <3>2, <3>3, RecentAppend
    <3>5. HistoryIsRecent'
      BY <2>4, <3>4 DEF HistoryIsRecent, Recent
    <3> QED
      BY <2>2, <3>5
  <2> QED
    BY <1>4, <2>3, <2>4 DEF SendMessage
<1>5. CASE ProcessorTakes
  <2>1. /\ messageQueue # <<>> /\ processing = {} /\ processor # "exited"
        /\ processing' = {messageQueue[1]} /\ messageQueue' = Tail(messageQueue)
        /\ UNCHANGED <<received, processor, history, historySent>>
    BY <1>1, <1>5, HeadTailProperties DEF ProcessorTakes
  <2>2. Len(messageQueue) \in Nat /\ Len(messageQueue') = Len(messageQueue) - 1
        /\ \A i \in 1..Len(messageQueue) - 1 : messageQueue'[i] = messageQueue[i + 1]
    BY <1>1, <2>1, HeadTailProperties
  <2>3. \A n : InQueue(n) => n = messageQueue[1] \/ InQueue(n)'
    <3> SUFFICES ASSUME NEW n, NEW i \in 1..Len(messageQueue), messageQueue[i] = n, i # 1
                 PROVE  \E j \in 1..Len(messageQueue') : messageQueue'[j] = n
      BY DEF InQueue
    <3>1. i - 1 \in 1..Len(messageQueue') /\ messageQueue'[i - 1] = n
      BY <2>2
    <3> QED
      BY <3>1
  <2> QED
    BY <2>1, <2>3 DEF QueuedIsSomewhere, HistoryIsRecent
<1>6. CASE ProcessorStops
  <2>1. /\ processing = {} /\ UNCHANGED <<processing, messageQueue, received, lateReceives, history, historySent>>
        /\ processor' # "exited" \/ messageQueue = <<>>
    BY <1>6 DEF ProcessorStops
  <2> QED
    BY <2>1 DEF QueuedIsSomewhere, InQueue, HistoryIsRecent
<1>7. CASE ClearSessionMessages
  <2>1. HistoryIsRecent'
    <3>1. Recent(<<>>, MaxHistory) = <<>>
      BY IpcAssumption, SubSeqEmpty DEF Recent
    <3> QED
      BY <1>7, <3>1 DEF ClearSessionMessages, HistoryIsRecent, Recent
  <2> QED
    BY <1>7, <2>1 DEF ClearSessionMessages, QueuedIsSomewhere, InQueue
<1>8. CASE BrokerClose
  BY <1>8 DEF BrokerClose, QueuedIsSomewhere, InQueue, HistoryIsRecent
<1> QED
  BY <1>2, <1>3, <1>4, <1>5, <1>6, <1>7, <1>8

\* The steps of the socket keep the connections counted.
LEMMA SocketStep ==
    ASSUME IpcTypeOK, SocketInv,
           \/ \E c \in Connections :
                \/ AcceptConnection(c) \/ OfferConnection(c) \/ HandleConnection(c) \/ CloseConnection(c)
                \/ \E i \in ContainerIds : Authenticate(c, i)
           \/ TakeConnection \/ CloseSocketBegins \/ CloseSocketEnds
           \/ \E g \in acceptors : AcceptorReturns(g)
    PROVE  SocketInv'
<1> USE IpcAssumption DEF SocketInv
<1>1. /\ conn \in [Connections -> {"new", "accepting", "rejected", "queued", "taken", "open", "closed"}]
      /\ connCount \in Nat /\ acceptors \subseteq {"accept", "loop", "close"}
      /\ acceptCh \in Seq(Connections) /\ Len(acceptCh) \in Nat /\ Len(acceptCh) <= AcceptBuffer
  BY DEF IpcTypeOK
<1>2. ASSUME NEW c \in Connections, AcceptConnection(c) PROVE SocketInv'
  <2>1. /\ conn[c] = "new" /\ ~\E d \in Connections : conn[d] = "accepting"
        /\ \A d \in Connections \ {c} : conn'[d] = conn[d]
        /\ conn'[c] = IF MaxConns > 0 /\ connCount >= MaxConns THEN "rejected" ELSE "accepting"
        /\ UNCHANGED <<connCount, acceptCh, acceptors>>
    BY <1>1, <1>2 DEF AcceptConnection, ToConn
  <2>2. Open' = Open
    BY <2>1 DEF Open
  <2>3. OnTheWay("taken")' = OnTheWay("taken") /\ OnTheWay("taken") \in 0..1 /\ OnTheWay("accepting")' \in 0..1
        /\ (MaxConns > 0 /\ connCount >= MaxConns => OnTheWay("accepting")' = OnTheWay("accepting"))
    BY <2>1 DEF OnTheWay
  <2>4. LoadIsBounded'
    BY <1>1, <2>1, <2>3 DEF LoadIsBounded
  <2>5. OneOnTheWay' /\ LoopHandsOver'
    BY <2>1 DEF OneOnTheWay, LoopHandsOver
  <2> QED
    BY <2>1, <2>2, <2>4, <2>5 DEF CountMatches, NoneAfterClose
<1>3. ASSUME NEW c \in Connections, OfferConnection(c) PROVE SocketInv'
  <2>1. /\ conn[c] = "accepting" /\ conn'[c] \in {"queued", "rejected"}
        /\ \A d \in Connections \ {c} : conn'[d] = conn[d]
        /\ acceptCh' = acceptCh \/ acceptCh' = Append(acceptCh, c)
        /\ UNCHANGED <<connCount, acceptors>>
    BY <1>1, <1>3 DEF OfferConnection, ToConn
  <2>2. Open' = Open
    BY <2>1 DEF Open
  <2>3. OnTheWay("taken")' = OnTheWay("taken") /\ OnTheWay("taken") \in 0..1
    BY <2>1 DEF OnTheWay
  <2>4. OnTheWay("accepting") = 1 /\ OnTheWay("accepting")' = 0
    BY <2>1 DEF OnTheWay, OneOnTheWay
  <2>5. Len(acceptCh') <= Len(acceptCh) + 1 /\ Len(acceptCh') \in Nat
    BY <1>1, <2>1, AppendProperties
  <2>6. LoadIsBounded'
    BY <1>1, <2>1, <2>3, <2>4, <2>5 DEF LoadIsBounded
  <2>7. OneOnTheWay' /\ LoopHandsOver'
    BY <2>1 DEF OneOnTheWay, LoopHandsOver
  <2> QED
    BY <2>1, <2>2, <2>6, <2>7 DEF CountMatches, NoneAfterClose
<1>4. CASE TakeConnection
  <2>1. PICK c \in Connections :
             /\ conn[c] = "queued" /\ conn'[c] = "taken" /\ ~\E d \in Connections : conn[d] = "taken"
             /\ \A d \in Connections \ {c} : conn'[d] = conn[d]
             /\ Len(acceptCh') = Len(acceptCh) - 1
             /\ "loop" \in acceptors /\ UNCHANGED <<connCount, acceptors>>
    <3>1. Head(acceptCh) \in Connections /\ Len(Tail(acceptCh)) = Len(acceptCh) - 1
      BY <1>1, <1>4, HeadTailProperties DEF TakeConnection
    <3> QED
      BY <1>1, <1>4, <3>1 DEF TakeConnection, ToConn
  <2>2. Open' = Open
    BY <2>1 DEF Open
  <2>3. OnTheWay("taken") = 0 /\ OnTheWay("taken")' = 1
    BY <2>1 DEF OnTheWay
  <2>4. OnTheWay("accepting")' = OnTheWay("accepting") /\ OnTheWay("accepting") \in 0..1
    BY <2>1 DEF OnTheWay
  <2>5. LoadIsBounded'
    BY <1>1, <2>1, <2>3, <2>4 DEF LoadIsBounded
  <2>6. OneOnTheWay' /\ LoopHandsOver'
    BY <2>1 DEF OneOnTheWay, LoopHandsOver
  <2> QED
    BY <2>1, <2>2, <2>5, <2>6 DEF CountMatches, NoneAfterClose
<1>5. ASSUME NEW c \in Connections, HandleConnection(c) PROVE SocketInv'
  <2>1. /\ conn[c] = "taken" /\ conn'[c] = "open"
        /\ \A d \in Connections \ {c} : conn'[d] = conn[d]
        /\ connCount' = connCount + 1 /\ UNCHANGED <<acceptCh, acceptors>>
    BY <1>1, <1>5 DEF HandleConnection, ToConn
  <2>2. Open' = Open \cup {c} /\ c \notin Open
    BY <2>1 DEF Open
  <2>3. IsFiniteSet(Open') /\ Cardinality(Open') = Cardinality(Open) + 1
    BY <2>2, FS_AddElement
  <2>4. OnTheWay("taken") = 1 /\ OnTheWay("taken")' = 0
    BY <2>1 DEF OnTheWay, OneOnTheWay
  <2>5. OnTheWay("accepting")' = OnTheWay("accepting") /\ OnTheWay("accepting") \in 0..1
    BY <2>1 DEF OnTheWay
  <2>6. LoadIsBounded'
    BY <1>1, <2>1, <2>4, <2>5 DEF LoadIsBounded
  <2>7. OneOnTheWay' /\ LoopHandsOver' /\ NoneAfterClose'
    BY <2>1 DEF OneOnTheWay, LoopHandsOver, NoneAfterClose
  <2>8. CountMatches'
    BY <2>1, <2>3 DEF CountMatches
  <2> QED
    BY <2>3, <2>6, <2>7, <2>8
<1>6. ASSUME NEW c \in Connections, CloseConnection(c) PROVE SocketInv'
  <2>1. /\ conn[c] = "open" /\ conn'[c] = "closed"
        /\ \A d \in Connections \ {c} : conn'[d] = conn[d]
        /\ connCount' = connCount - 1 /\ UNCHANGED <<acceptCh, acceptors>>
    BY <1>1, <1>6 DEF CloseConnection, ToConn
  <2>2. Open' = Open \ {c} /\ c \in Open
    BY <2>1 DEF Open
  <2>3. IsFiniteSet(Open') /\ Cardinality(Open') = Cardinality(Open) - 1
    BY <2>2, FS_RemoveElement
  <2>4. OnTheWay("taken")' = OnTheWay("taken") /\ OnTheWay("accepting")' = OnTheWay("accepting")
        /\ OnTheWay("taken") \in 0..1 /\ OnTheWay("accepting") \in 0..1
    BY <2>1 DEF OnTheWay
  <2>5. LoadIsBounded'
    BY <1>1, <2>1, <2>4 DEF LoadIsBounded
  <2>6. OneOnTheWay' /\ LoopHandsOver' /\ NoneAfterClose'
    BY <2>1, <2>2 DEF OneOnTheWay, LoopHandsOver, NoneAfterClose
  <2>7. CountMatches'
    BY <2>1, <2>3 DEF CountMatches
  <2> QED
    BY <2>3, <2>5, <2>6, <2>7
<1>7. ASSUME UNCHANGED <<conn, connCount, acceptCh, acceptors>> PROVE SocketInv'
  BY <1>7 DEF OneOnTheWay, LoadIsBounded, OnTheWay, LoopHandsOver, CountMatches, NoneAfterClose, Open
<1>8. CASE CloseSocketEnds
  <2>1. /\ \A c \in Connections : conn'[c] = IF conn[c] = "open" THEN "closed" ELSE conn[c]
        /\ connCount' = 0 /\ acceptors = {"close"} /\ acceptors' = {} /\ acceptCh' = acceptCh
    BY <1>1, <1>8 DEF CloseSocketEnds, Open
  <2>2. Open' = {} /\ IsFiniteSet({}) /\ Cardinality({}) = 0
    BY <2>1, FS_EmptySet DEF Open
  <2>3. OnTheWay("taken")' = OnTheWay("taken") /\ OnTheWay("accepting")' = OnTheWay("accepting")
        /\ OnTheWay("taken") \in 0..1 /\ OnTheWay("accepting") \in 0..1
    BY <2>1 DEF OnTheWay
  <2>4. LoadIsBounded'
    BY <1>1, <2>1, <2>3 DEF LoadIsBounded
  <2>5. OneOnTheWay' /\ LoopHandsOver'
    BY <2>1 DEF OneOnTheWay, LoopHandsOver
  <2> QED
    BY <2>1, <2>2, <2>4, <2>5 DEF CountMatches, NoneAfterClose
<1>9. ASSUME NEW g \in acceptors, AcceptorReturns(g) PROVE SocketInv'
  <2>1. /\ acceptors' = acceptors \ {g} /\ g # "close" /\ UNCHANGED <<conn, connCount, acceptCh>>
        /\ g = "loop" => \A c \in Connections : conn[c] # "taken"
    BY <1>9 DEF AcceptorReturns
  <2>2. LoopHandsOver' /\ NoneAfterClose'
    BY <2>1 DEF LoopHandsOver, NoneAfterClose, Open
  <2> QED
    BY <2>1, <2>2 DEF OneOnTheWay, LoadIsBounded, OnTheWay, CountMatches, Open
<1> QED
  BY <1>2, <1>3, <1>4, <1>5, <1>6, <1>7, <1>8, <1>9 DEF Authenticate, CloseSocketBegins

\* Every step of the broker, the bridge and the socket preserves it.
LEMMA IpcStep == IpcIInv /\ [IpcNext]_ipcVars => IpcIInv'
<1> SUFFICES ASSUME IpcIInv, [IpcNext]_ipcVars PROVE BrokerInv' /\ SocketInv'
  BY IpcTypeStep DEF IpcIInv
<1>1. IpcTypeOK /\ BrokerInv /\ SocketInv
  BY DEF IpcIInv
<1>2. CASE \/ \E m \in IpcMessages : ReceiveMessage(m) \/ MessageHandled(m) \/ \E i \in ContainerIds : SendMessage(m, i)
           \/ ProcessorTakes \/ ProcessorStops \/ ClearSessionMessages \/ BrokerClose
  <2>1. UNCHANGED socketVars
    BY <1>2 DEF ReceiveMessage, MessageHandled, SendMessage, ProcessorTakes, ProcessorStops, ClearSessionMessages, BrokerClose
  <2>2. SocketInv'
    BY <1>1, <2>1, SocketKept
  <2>3. BrokerInv'
    BY <1>1, <1>2, BrokerStep
  <2> QED
    BY <2>2, <2>3
<1>3. CASE \/ \E c \in Connections :
                \/ AcceptConnection(c) \/ OfferConnection(c) \/ HandleConnection(c) \/ CloseConnection(c)
                \/ \E i \in ContainerIds : Authenticate(c, i)
           \/ TakeConnection \/ CloseSocketBegins \/ CloseSocketEnds
           \/ \E g \in acceptors : AcceptorReturns(g)
  <2>1. UNCHANGED <<processor, processing, messageQueue, received, lateReceives, history, historySent>>
    BY <1>3 DEF AcceptConnection, OfferConnection, HandleConnection, CloseConnection, Authenticate, TakeConnection,
       CloseSocketBegins, CloseSocketEnds, AcceptorReturns, brokerVars
  <2>2. BrokerInv'
    BY <1>1, <2>1 DEF BrokerInv, QueuedIsSomewhere, InQueue, HistoryIsRecent
  <2>3. SocketInv'
    BY <1>1, <1>3, SocketStep
  <2> QED
    BY <2>2, <2>3
<1>4. CASE UNCHANGED ipcVars
  BY <1>1, <1>4, SocketKept, BrokerKept DEF ipcVars
<1> QED
  BY <1>2, <1>3, <1>4 DEF IpcNext

\* However receiving, closing and connecting overlap: what Receive queued in time is
\* handled, connCount is the number of registered connections, these pass the limit by
\* no more than the acceptor, the channel and the loop hold, none is left after Close,
\* and a session keeps its last messages (broker.go, socket.go).
THEOREM IpcStaysSafe == IpcSpec => []IpcSafe
<1>1. IpcIInv => IpcSafe
  <2> SUFFICES ASSUME IpcIInv PROVE IpcSafe
    OBVIOUS
  <2>1. QueuedIsHandled
    BY DEF IpcIInv, BrokerInv, QueuedIsSomewhere, InQueue, QueuedIsHandled
  <2>2. LimitOvershoot
    <3>1. /\ MaxConns > 0 =>
               connCount + Len(acceptCh) + OnTheWay("taken") + OnTheWay("accepting") <= MaxConns + AcceptBuffer + 1
          /\ connCount = Cardinality(Open) /\ connCount \in Nat /\ acceptCh \in Seq(Connections)
      BY DEF IpcIInv, IpcTypeOK, SocketInv, CountMatches, LoadIsBounded
    <3>2. OnTheWay("taken") \in 0..1 /\ OnTheWay("accepting") \in 0..1
      BY DEF OnTheWay
    <3>3. Len(acceptCh) \in Nat
      BY <3>1
    <3> QED
      BY <3>1, <3>2, <3>3, IpcAssumption DEF LimitOvershoot
  <2> QED
    BY <2>1, <2>2 DEF IpcIInv, BrokerInv, SocketInv, IpcSafe
<1> QED
  BY IpcInitIInv, IpcStep, <1>1, PTL DEF IpcSpec

-----------------------------------------------------------------------------
(* The event bus.                                                          *)

InChannel(e) == \E i \in 1..Len(publishCh) : publishCh[i] = e

\* A dispatch that waits for handlers holds the read lock.
AwaitedHoldsLock == \A e \in Events : awaited[e] # {} => e \in readers

\* An event that Publish accepted is finished, late, in the channel or in the
\* worker's hands; after the worker left only late ones are.
AcceptedIsSomewhere ==
    /\ \A d, e \in busCurrent : d = e
    /\ \A e \in Events : publisher[e] = "accepted" =>
         e \in dispatched \cup lateSends \cup busCurrent \/ InChannel(e)
    /\ busWorker = "exited" =>
         busCurrent = {} /\ \A i \in 1..Len(publishCh) : publishCh[i] \in lateSends

\* A group holds the subscriptions of its type and those without one.
GroupsMatch == \A t \in Types : \A s \in handlerGroups[t] : FilterOf[s] \in {AnyType, t}

BusParts == NeverAfterUnsubscribe /\ AwaitedHoldsLock /\ AcceptedIsSomewhere /\ GroupsAreSubscribed /\ GroupsMatch

\* The inductive invariant.
BusIInv == BusTypeOK /\ BusParts

\* A bus without subscriptions and publications satisfies it.
LEMMA BusInitIInv == BusInit => BusIInv
<1> SUFFICES ASSUME BusInit PROVE BusIInv
  OBVIOUS
<1> USE BusAssumption DEF BusInit
<1>1. busCurrent \in SUBSET Events /\ Cardinality(busCurrent) <= 1
  BY FS_EmptySet
<1>2. publishCh \in Seq(Events) /\ Len(publishCh) <= BusBuffer
  OBVIOUS
<1>3. BusTypeOK
  BY <1>1, <1>2 DEF BusTypeOK
<1>4. BusParts
  BY DEF BusParts, NeverAfterUnsubscribe, AwaitedHoldsLock, AcceptedIsSomewhere, InChannel, GroupsAreSubscribed, GroupsMatch
<1> QED
  BY <1>3, <1>4 DEF BusIInv

\* The types.
LEMMA BusTypeStep == BusTypeOK /\ [BusNext]_busVars => BusTypeOK'
<1> SUFFICES ASSUME BusTypeOK, [BusNext]_busVars PROVE BusTypeOK'
  OBVIOUS
<1> USE DEF ToPublisher, BusUnmoved
<1>1. ASSUME NEW s \in Subscribers, Subscribe(s) PROVE BusTypeOK'
  <2>1. handlerGroups' \in [Types -> SUBSET Subscribers]
    BY <1>1 DEF Subscribe, BusTypeOK
  <2> QED
    BY <1>1, <2>1 DEF Subscribe, BusTypeOK
<1>2. ASSUME NEW s \in Subscribers, Unsubscribe(s) PROVE BusTypeOK'
  <2>1. handlerGroups' \in [Types -> SUBSET Subscribers]
    BY <1>2 DEF Unsubscribe, BusTypeOK
  <2> QED
    BY <1>2, <2>1 DEF Unsubscribe, BusTypeOK
<1>3. ASSUME NEW e \in Events, PublishChecks(e) \/ PublishGivesUp(e) \/ PublishPanics(e) \/ PublishSync(e) PROVE BusTypeOK'
  <2>1. publisher' \in [Events -> {"new", "checked", "accepted", "refused", "panicked", "sync", "done"}]
    BY <1>3 DEF PublishChecks, PublishGivesUp, PublishPanics, PublishSync, BusTypeOK
  <2>2. UNCHANGED <<subscriptions, handlerGroups, busClosed, publishChClosed, busWorker,
                    busCurrent, awaited, readers, delivered, dispatched, publishCh, lateSends>>
    BY <1>3 DEF PublishChecks, PublishGivesUp, PublishPanics, PublishSync
  <2> QED
    BY <2>1, <2>2 DEF BusTypeOK
<1>4. ASSUME NEW e \in Events, PublishSends(e) PROVE BusTypeOK'
  <2>1. publishCh' \in Seq(Events) /\ Len(publishCh') <= BusBuffer
    BY <1>4, AppendProperties, BusAssumption DEF PublishSends, BusTypeOK
  <2>2. lateSends' \subseteq Events
    BY <1>4 DEF PublishSends, BusTypeOK
  <2> QED
    BY <1>4, <2>1, <2>2 DEF PublishSends, BusTypeOK
<1>5. ASSUME NEW e \in Events, DispatchBegins(e) PROVE BusTypeOK'
  <2>1. awaited' \in [Events -> SUBSET Subscribers]
    BY <1>5 DEF DispatchBegins, BusTypeOK
  <2> QED
    BY <1>5, <2>1 DEF DispatchBegins, BusTypeOK
<1>6. ASSUME NEW e \in Events, DispatchEnds(e) PROVE BusTypeOK'
  <2>1. Cardinality(busCurrent') <= 1
    <3>1. busCurrent' \in SUBSET busCurrent /\ IsFiniteSet(busCurrent)
      BY <1>6, BusAssumption, FS_Subset DEF DispatchEnds, BusTypeOK
    <3>2. Cardinality(busCurrent') <= Cardinality(busCurrent) /\ Cardinality(busCurrent') \in Nat
          /\ Cardinality(busCurrent) \in Nat
      BY <3>1, FS_Subset, FS_CardinalityType
    <3> QED
      BY <3>2 DEF BusTypeOK
  <2> QED
    BY <1>6, <2>1 DEF DispatchEnds, BusTypeOK
<1>7. ASSUME NEW e \in Events, NEW s \in Subscribers, HandlerReturns(e, s) PROVE BusTypeOK'
  BY <1>7 DEF HandlerReturns, BusTypeOK
<1>8. CASE BusWorkerTakes
  <2>1. Head(publishCh) \in Events /\ publishCh' \in Seq(Events) /\ Len(publishCh') <= BusBuffer
    BY <1>8, HeadTailProperties, BusAssumption DEF BusWorkerTakes, BusTypeOK
  <2>2. Cardinality({Head(publishCh)}) = 1
    BY FS_Singleton
  <2>3. Cardinality(busCurrent') <= 1
    BY <1>8, <2>2 DEF BusWorkerTakes
  <2> QED
    BY <1>8, <2>1, <2>3 DEF BusWorkerTakes, BusTypeOK
<1>9. CASE BusWorkerStops
  BY <1>9 DEF BusWorkerStops, BusTypeOK
<1>10. CASE BusWorkerExits
  BY <1>10 DEF BusWorkerExits, BusTypeOK
<1>11. CASE BusCloseBegins
  BY <1>11 DEF BusCloseBegins, BusTypeOK
<1>12. CASE BusCloseEnds
  BY <1>12 DEF BusCloseEnds, BusTypeOK
<1>13. CASE UNCHANGED busVars
  BY <1>13 DEF busVars, BusTypeOK
<1> QED
  BY <1>1, <1>2, <1>3, <1>4, <1>5, <1>6, <1>7, <1>8, <1>9, <1>10, <1>11, <1>12, <1>13 DEF BusNext

\* Every step preserves the invariant.
LEMMA BusStep == BusIInv /\ [BusNext]_busVars => BusIInv'
<1> SUFFICES ASSUME BusIInv, [BusNext]_busVars PROVE BusIInv'
  OBVIOUS
<1>1. BusTypeOK /\ BusTypeOK' /\ BusParts
  BY BusTypeStep DEF BusIInv
<1> SUFFICES BusParts'
  BY <1>1 DEF BusIInv
<1> USE DEF BusParts
<1>2. /\ publisher \in [Events -> {"new", "checked", "accepted", "refused", "panicked", "sync", "done"}]
      /\ awaited \in [Events -> SUBSET Subscribers] /\ publishCh \in Seq(Events) /\ Len(publishCh) \in Nat
      /\ handlerGroups \in [Types -> SUBSET Subscribers] /\ subscriptions \subseteq Subscribers
      /\ busCurrent \subseteq Events
  BY <1>1 DEF BusTypeOK
\* The parts, by the variables they read.
<1>3. ASSUME UNCHANGED <<awaited, readers, subscriptions>> PROVE NeverAfterUnsubscribe' /\ AwaitedHoldsLock'
  BY <1>1, <1>3 DEF NeverAfterUnsubscribe, AwaitedHoldsLock
<1>4. ASSUME UNCHANGED <<publisher, dispatched, lateSends, busCurrent, publishCh, busWorker>> PROVE AcceptedIsSomewhere'
  BY <1>1, <1>4 DEF AcceptedIsSomewhere, InChannel
<1>5. ASSUME UNCHANGED <<subscriptions, handlerGroups>> PROVE GroupsAreSubscribed' /\ GroupsMatch'
  BY <1>1, <1>5 DEF GroupsAreSubscribed, GroupsMatch
<1>6. ASSUME NEW s \in Subscribers, Subscribe(s) \/ Unsubscribe(s) PROVE BusParts'
  <2>1. AcceptedIsSomewhere'
    BY <1>4, <1>6 DEF Subscribe, Unsubscribe
  <2>2. \A e \in Events : awaited[e] = {}
    BY <1>1, <1>6 DEF Subscribe, Unsubscribe, WriteLock, AwaitedHoldsLock
  <2>3. NeverAfterUnsubscribe' /\ AwaitedHoldsLock'
    BY <1>6, <2>2 DEF Subscribe, Unsubscribe, NeverAfterUnsubscribe, AwaitedHoldsLock
  <2>4. GroupsAreSubscribed' /\ GroupsMatch'
    <3>1. CASE Subscribe(s)
      BY <1>1, <1>2, <3>1 DEF Subscribe, GroupsAreSubscribed, GroupsMatch
    <3>2. CASE Unsubscribe(s)
      BY <1>1, <1>2, <3>2 DEF Unsubscribe, GroupsAreSubscribed, GroupsMatch
    <3> QED
      BY <1>6, <3>1, <3>2
  <2> QED
    BY <2>1, <2>3, <2>4
<1>7. ASSUME NEW e \in Events, PublishChecks(e) \/ PublishGivesUp(e) \/ PublishPanics(e) \/ PublishSync(e) PROVE BusParts'
  <2>1. \A d \in Events : publisher'[d] = "accepted" => publisher[d] = "accepted"
    BY <1>2, <1>7 DEF PublishChecks, PublishGivesUp, PublishPanics, PublishSync, ToPublisher
  <2>2. UNCHANGED <<awaited, readers, subscriptions, handlerGroups, dispatched, lateSends, busCurrent, publishCh, busWorker>>
    BY <1>7 DEF PublishChecks, PublishGivesUp, PublishPanics, PublishSync, BusUnmoved
  <2>3. AcceptedIsSomewhere'
    BY <1>1, <2>1, <2>2 DEF AcceptedIsSomewhere, InChannel
  <2> QED
    BY <1>3, <1>5, <2>2, <2>3
<1>8. ASSUME NEW e \in Events, PublishSends(e) PROVE BusParts'
  <2>1. /\ Len(publishCh') = Len(publishCh) + 1 /\ publishCh'[Len(publishCh) + 1] = e
        /\ \A i \in 1..Len(publishCh) : publishCh'[i] = publishCh[i]
        /\ \A d \in Events \ {e} : publisher'[d] = publisher[d]
        /\ UNCHANGED <<awaited, readers, subscriptions, handlerGroups, dispatched, busCurrent, busWorker>>
        /\ lateSends' = IF busWorker = "exited" THEN lateSends \cup {e} ELSE lateSends
    BY <1>2, <1>8, AppendProperties DEF PublishSends, ToPublisher, BusUnmoved
  <2>2. InChannel(e)' /\ \A d : InChannel(d) => InChannel(d)'
    BY <1>2, <2>1 DEF InChannel
  <2>3. busWorker = "exited" => \A i \in 1..Len(publishCh') : publishCh'[i] \in lateSends'
    BY <1>1, <1>2, <2>1 DEF AcceptedIsSomewhere
  <2>4. AcceptedIsSomewhere'
    BY <1>1, <2>1, <2>2, <2>3 DEF AcceptedIsSomewhere
  <2> QED
    BY <1>3, <1>5, <2>1, <2>4
<1>9. ASSUME NEW e \in Events, DispatchBegins(e) PROVE BusParts'
  BY <1>1, <1>2, <1>4, <1>5, <1>9 DEF DispatchBegins, NeverAfterUnsubscribe, AwaitedHoldsLock
<1>10. ASSUME NEW e \in Events, NEW s \in Subscribers, HandlerReturns(e, s) PROVE BusParts'
  BY <1>1, <1>2, <1>4, <1>5, <1>10 DEF HandlerReturns, NeverAfterUnsubscribe, AwaitedHoldsLock
<1>11. ASSUME NEW e \in Events, DispatchEnds(e) PROVE BusParts'
  <2>1. /\ awaited[e] = {} /\ readers' = readers \ {e} /\ busCurrent' = busCurrent \ {e}
        /\ UNCHANGED <<awaited, subscriptions, handlerGroups, lateSends, publishCh, busWorker>>
        /\ dispatched' = IF e \in busCurrent THEN dispatched \cup {e} ELSE dispatched
        /\ \A d \in Events : publisher'[d] = "accepted" => publisher[d] = "accepted"
    BY <1>2, <1>11 DEF DispatchEnds
  <2>2. NeverAfterUnsubscribe' /\ AwaitedHoldsLock'
    BY <1>1, <2>1 DEF NeverAfterUnsubscribe, AwaitedHoldsLock
  <2>3. AcceptedIsSomewhere'
    BY <1>1, <2>1 DEF AcceptedIsSomewhere, InChannel
  <2> QED
    BY <1>5, <2>1, <2>2, <2>3
<1>12. CASE BusWorkerTakes
  <2>1. /\ publishCh # <<>> /\ busCurrent = {} /\ busWorker # "exited"
        /\ busCurrent' = {publishCh[1]} /\ publishCh' = Tail(publishCh)
        /\ UNCHANGED <<awaited, readers, subscriptions, handlerGroups, publisher, dispatched, lateSends, busWorker>>
    BY <1>2, <1>12, HeadTailProperties DEF BusWorkerTakes, WorkerFree
  <2>2. /\ Len(publishCh') = Len(publishCh) - 1
        /\ \A i \in 1..Len(publishCh) - 1 : publishCh'[i] = publishCh[i + 1]
    BY <1>2, <2>1, HeadTailProperties
  <2>3. \A d : InChannel(d) => d = publishCh[1] \/ InChannel(d)'
    <3> SUFFICES ASSUME NEW d, NEW i \in 1..Len(publishCh), publishCh[i] = d, i # 1
                 PROVE  \E j \in 1..Len(publishCh') : publishCh'[j] = d
      BY DEF InChannel
    <3>1. i - 1 \in 1..Len(publishCh') /\ publishCh'[i - 1] = d
      BY <1>2, <2>2
    <3> QED
      BY <3>1
  <2>4. AcceptedIsSomewhere'
    BY <1>1, <2>1, <2>3 DEF AcceptedIsSomewhere
  <2> QED
    BY <1>3, <1>5, <2>1, <2>4
<1>13. CASE BusWorkerStops \/ BusWorkerExits
  <2>1. /\ UNCHANGED <<awaited, readers, subscriptions, handlerGroups, publisher, dispatched, lateSends, busCurrent, publishCh>>
        /\ busCurrent = {} /\ (busWorker' # "exited" \/ publishCh = <<>>)
    BY <1>13 DEF BusWorkerStops, BusWorkerExits, WorkerFree
  <2>2. AcceptedIsSomewhere'
    BY <1>1, <2>1 DEF AcceptedIsSomewhere, InChannel
  <2> QED
    BY <1>3, <1>5, <2>1, <2>2
<1>14. CASE BusCloseBegins \/ BusCloseEnds \/ UNCHANGED busVars
  BY <1>3, <1>4, <1>5, <1>14 DEF BusCloseBegins, BusCloseEnds, busVars
<1> QED
  BY <1>6, <1>7, <1>8, <1>9, <1>10, <1>11, <1>12, <1>13, <1>14 DEF BusNext

\* However publishing, dispatching, subscribing and closing overlap: no handler is
\* called for a subscription that was removed, what Publish accepted before the worker
\* left is dispatched, and no group keeps a removed subscription (bus.go).
THEOREM BusStaysSafe == BusSpec => []BusSafe
<1>1. BusIInv => BusSafe
  BY DEF BusIInv, BusParts, BusSafe, AcceptedIsSomewhere, InChannel, LostOnlyWhenLate
<1> QED
  BY BusInitIInv, BusStep, <1>1, PTL DEF BusSpec

-----------------------------------------------------------------------------
(* The streams of events.                                                  *)

\* Appending to the second of two concatenated sequences appends to the whole
\* (an event written into a stream's channel comes after all its client has got).
LEMMA AppendConcat ==
    ASSUME NEW S
    PROVE  \A s, c \in Seq(S), e \in S : s \o Append(c, e) = Append(s \o c, e)
<1> TAKE s, c \in Seq(S), e \in S
<1>1. <<e>> \in Seq(S) /\ s \o c \in Seq(S)
  BY ConcatProperties
<1>2. Append(c, e) = c \o <<e>>
  BY AppendIsConcat
<1>3. (s \o c) \o <<e>> = s \o (c \o <<e>>)
  BY <1>1, ConcatAssociative
<1>4. ASSUME NEW t \in Seq(S) PROVE Append(t, e) = t \o <<e>>
  BY AppendIsConcat
<1> QED
  BY <1>1, <1>2, <1>3, <1>4

\* Forwarding an event moves it from the channel to the client.
LEMMA ForwardConcat ==
    ASSUME NEW S, NEW s \in Seq(S), NEW c \in Seq(S), c # <<>>
    PROVE  Append(s, Head(c)) \o Tail(c) = s \o c
<1> DEFINE a == Append(s, Head(c))
           l == a \o Tail(c)
           r == s \o c
<1>1. /\ Len(s) \in Nat /\ Len(c) \in Nat \ {0}
      /\ Head(c) = c[1] /\ Head(c) \in S /\ Tail(c) \in Seq(S) /\ Len(Tail(c)) = Len(c) - 1
      /\ \A i \in 1..Len(c) - 1 : Tail(c)[i] = c[i + 1]
  BY HeadTailProperties, EmptySeq
<1>2. /\ a \in Seq(S) /\ Len(a) = Len(s) + 1 /\ a[Len(s) + 1] = c[1] /\ \A i \in 1..Len(s) : a[i] = s[i]
  BY <1>1, AppendProperties
<1> HIDE DEF a
<1>3. /\ l \in Seq(S) /\ Len(l) = Len(s) + Len(c)
      /\ \A i \in 1..Len(s) + Len(c) : l[i] = IF i <= Len(s) + 1 THEN a[i] ELSE Tail(c)[i - (Len(s) + 1)]
  <2>1. /\ l \in Seq(S) /\ Len(l) = Len(a) + Len(Tail(c))
        /\ \A i \in 1..Len(a) + Len(Tail(c)) : l[i] = IF i <= Len(a) THEN a[i] ELSE Tail(c)[i - Len(a)]
    BY <1>1, <1>2, ConcatProperties
  <2>2. Len(a) = Len(s) + 1 /\ Len(a) + Len(Tail(c)) = Len(s) + Len(c)
    BY <1>1, <1>2
  <2> HIDE DEF l
  <2> QED
    BY <2>1, <2>2
<1>4. /\ r \in Seq(S) /\ Len(r) = Len(s) + Len(c)
      /\ \A i \in 1..Len(s) + Len(c) : r[i] = IF i <= Len(s) THEN s[i] ELSE c[i - Len(s)]
  BY ConcatProperties
<1> HIDE DEF l, r
<1>5. ASSUME NEW i \in 1..Len(s) + Len(c) PROVE l[i] = r[i]
  <2> USE <1>1
  <2>0. i \in Nat /\ Len(s) \in Nat /\ Len(c) \in Nat
    OBVIOUS
  <2>1. CASE i <= Len(s)
    <3>1. l[i] = a[i] /\ r[i] = s[i]
      BY <1>3, <1>4, <2>0, <2>1
    <3>2. i \in 1..Len(s)
      BY <2>0, <2>1
    <3> QED
      BY <1>2, <3>1, <3>2
  <2>2. CASE i = Len(s) + 1
    <3>1. l[i] = a[i] /\ r[i] = c[i - Len(s)]
      BY <1>3, <1>4, <2>0, <2>2, SMTT(20)
    <3>2. i - Len(s) = 1
      BY <2>0, <2>2
    <3> QED
      BY <1>2, <2>2, <3>1, <3>2
  <2>3. CASE i > Len(s) + 1
    <3>1. i - (Len(s) + 1) \in 1..Len(c) - 1 /\ i - (Len(s) + 1) + 1 = i - Len(s)
      BY <1>1, <2>3
    <3>2. l[i] = Tail(c)[i - (Len(s) + 1)] /\ r[i] = c[i - Len(s)]
      BY <1>1, <1>3, <1>4, <2>3
    <3> QED
      BY <1>1, <3>1, <3>2
  <2> QED
    BY <1>1, <2>1, <2>2, <2>3
<1>6. l = r
  BY <1>3, <1>4, <1>5, SeqEqual
<1> QED
  BY <1>6 DEF l, r, a

\* What a handler has, sent or not.
Seen(x) == esSent[x] \o esChannel[x]

\* A handler keeps its subscription past the end only when the bus was closed.
LateHasLeft == \A x \in esLeftLate : esSub[x] \in {"left", "closed"}

\* The goroutines of a dispatch belong to subscriptions, and to one event.
SendingIsMapped ==
    /\ \A p \in esSending : p[2] \in esMap
    /\ \A p, q \in esSending : p[1] = q[1]

\* Events keep their order from the queue through the dispatch to the handlers.
EventsAdvance ==
    /\ \A i \in 1..Len(esQueue) : esQueue[i] <= esAccepted
    /\ \A i, j \in 1..Len(esQueue) : i < j => esQueue[i] < esQueue[j]
    /\ \A p \in esSending :
         /\ p[1] <= esAccepted
         /\ \A i \in 1..Len(esQueue) : p[1] < esQueue[i]
         /\ \A k \in 1..Len(Seen(p[2])) : Seen(p[2])[k] < p[1]
    /\ \A x \in StreamClients : \A k \in 1..Len(Seen(x)) :
         /\ Seen(x)[k] <= esAccepted
         /\ \A i \in 1..Len(esQueue) : Seen(x)[k] < esQueue[i]

\* The inductive invariant.
EsIInv ==
    /\ EsTypeOK /\ OpenChannelsOnly /\ LateHasLeft /\ SendingIsMapped
    /\ EventsAdvance /\ EventsInOrder

\* Without subscribers no stream is owed an event.
LEMMA EsInitIInv == EsInit => EsIInv
<1> SUFFICES ASSUME EsInit PROVE EsIInv
  OBVIOUS
<1> USE EsAssumption DEF EsInit
<1>1. \A x \in StreamClients : Seen(x) = <<>>
  <2>1. \A x \in StreamClients : esSent[x] = <<>> /\ esChannel[x] = <<>>
    OBVIOUS
  <2>2. <<>> \o <<>> = <<>>
    BY EmptySeq, ConcatEmptySeq
  <2> QED
    BY <2>1, <2>2 DEF Seen
<1>2. EventsAdvance /\ EventsInOrder
  BY <1>1 DEF EventsAdvance, EventsInOrder, Seen
<1>3. EsTypeOK
  <2>1. esQueue \in Seq(1..MaxBusEvents) /\ esChannel \in [StreamClients -> Seq(1..MaxBusEvents)]
        /\ esSent \in [StreamClients -> Seq(1..MaxBusEvents)] /\ \A x \in StreamClients : Len(esChannel[x]) <= ChannelCap
    BY EmptySeq
  <2>2. esAccepted \in 0..MaxBusEvents /\ esCallers \subseteq 1..esAccepted
    OBVIOUS
  <2> QED
    BY <2>1, <2>2 DEF EsTypeOK
<1> QED
  BY <1>2, <1>3 DEF EsIInv, OpenChannelsOnly, LateHasLeft, SendingIsMapped

\* The types, and that what is mapped is what is subscribed.
LEMMA EsTypeStep == EsIInv /\ [EsNext]_esVars => EsTypeOK' /\ LateHasLeft'
<1> SUFFICES ASSUME EsIInv, [EsNext]_esVars PROVE EsTypeOK' /\ LateHasLeft'
  OBVIOUS
<1>0. EsTypeOK /\ LateHasLeft
  BY DEF EsIInv
<1> USE EsAssumption DEF esBusVars, esFeed, esOwn
<1>1. CASE PublishEvent
  <2>1. esAccepted' \in 0..MaxBusEvents /\ esAccepted' = esAccepted + 1 /\ esAccepted + 1 \in 1..MaxBusEvents
    BY <1>0, <1>1 DEF PublishEvent, EsTypeOK
  <2>2. esQueue' \in Seq(1..MaxBusEvents)
    BY <1>0, <1>1, <2>1, AppendProperties DEF PublishEvent, EsTypeOK
  <2>3. esCallers' \subseteq 1..esAccepted'
    BY <1>0, <1>1, <2>1 DEF PublishEvent, EsTypeOK
  <2> QED
    BY <1>0, <1>1, <2>1, <2>2, <2>3 DEF PublishEvent, EsTypeOK, LateHasLeft
<1>2. ASSUME NEW e \in 1..MaxBusEvents, CallerLeaves(e) PROVE EsTypeOK' /\ LateHasLeft'
  BY <1>0, <1>2 DEF CallerLeaves, EsTypeOK, LateHasLeft
<1>3. CASE Dispatch
  <2>1. Head(esQueue) \in 1..MaxBusEvents /\ esQueue' \in Seq(1..MaxBusEvents)
    BY <1>0, <1>3, HeadTailProperties DEF Dispatch, EsTypeOK
  <2>2. esSending' \subseteq (1..MaxBusEvents) \X StreamClients
    BY <1>0, <1>3, <2>1 DEF Dispatch, EsTypeOK
  <2> QED
    BY <1>0, <1>3, <2>1, <2>2 DEF Dispatch, EsTypeOK, LateHasLeft
<1>4. ASSUME NEW e \in 1..MaxBusEvents, NEW x \in StreamClients, HandleSends(e, x) PROVE EsTypeOK' /\ LateHasLeft'
  <2>1. /\ esChannel' = [esChannel EXCEPT ![x] = Append(esChannel[x], e)] /\ Len(esChannel[x]) < ChannelCap
        /\ Append(esChannel[x], e) \in Seq(1..MaxBusEvents) /\ Len(Append(esChannel[x], e)) = Len(esChannel[x]) + 1
        /\ Len(esChannel[x]) \in Nat
    BY <1>0, <1>4, AppendProperties DEF HandleSends, EsTypeOK
  <2>2. esChannel' \in [StreamClients -> Seq(1..MaxBusEvents)] /\ \A y \in StreamClients : Len(esChannel'[y]) <= ChannelCap
    BY <1>0, <2>1 DEF EsTypeOK
  <2> QED
    BY <1>0, <1>4, <2>2 DEF HandleSends, EsTypeOK, LateHasLeft
<1>5. ASSUME NEW e \in 1..MaxBusEvents, NEW x \in StreamClients, HandlePanics(e, x) \/ HandleGivesUp(e, x)
      PROVE  EsTypeOK' /\ LateHasLeft'
  BY <1>0, <1>5 DEF HandlePanics, HandleGivesUp, EsTypeOK, LateHasLeft
<1>6. CASE CloseEventBus \/ DrainEnds
  BY <1>0, <1>6 DEF CloseEventBus, DrainEnds, EsTypeOK, LateHasLeft
<1>7. ASSUME NEW x \in StreamClients, SubscribeStream(x) \/ LeaveStream(x) \/ LeavingStep(x) PROVE EsTypeOK' /\ LateHasLeft'
  <2>1. /\ esSub' \in [StreamClients -> {"unused", "open", "leaving", "left", "closed"}]
        /\ esMap' \subseteq StreamClients /\ esLeftLate' \subseteq StreamClients
        /\ UNCHANGED <<esAlive, esBusVars, esFeed, esSending, esChannel, esSent>>
    BY <1>0, <1>7 DEF SubscribeStream, LeaveStream, LeavingStep, UnsubscribeStream, CloseChannel, EsTypeOK
  <2>2. LateHasLeft' /\ esMap' = {y \in StreamClients : esSub'[y] \in {"open", "leaving"}} \cup esLeftLate'
    <3>1. CASE SubscribeStream(x) \/ LeaveStream(x)
      BY <1>0, <3>1 DEF SubscribeStream, LeaveStream, EsTypeOK, LateHasLeft
    <3>2. CASE UnsubscribeStream(x)
      BY <1>0, <3>2 DEF UnsubscribeStream, EsTypeOK, LateHasLeft
    <3>3. CASE CloseChannel(x)
      BY <1>0, <3>3 DEF CloseChannel, EsTypeOK, LateHasLeft
    <3> QED
      BY <1>7, <3>1, <3>2, <3>3 DEF LeavingStep
  <2> QED
    BY <1>0, <2>1, <2>2 DEF EsTypeOK
<1>8. ASSUME NEW x \in StreamClients, ForwardEvent(x) PROVE EsTypeOK' /\ LateHasLeft'
  <2>1. /\ Head(esChannel[x]) \in 1..MaxBusEvents /\ Tail(esChannel[x]) \in Seq(1..MaxBusEvents)
        /\ Len(Tail(esChannel[x])) = Len(esChannel[x]) - 1
    BY <1>0, <1>8, HeadTailProperties DEF ForwardEvent, EsTypeOK
  <2>2. Append(esSent[x], Head(esChannel[x])) \in Seq(1..MaxBusEvents)
    BY <1>0, <2>1, AppendProperties DEF EsTypeOK
  <2>3. /\ esChannel' \in [StreamClients -> Seq(1..MaxBusEvents)] /\ esSent' \in [StreamClients -> Seq(1..MaxBusEvents)]
        /\ \A y \in StreamClients : Len(esChannel'[y]) <= ChannelCap
    BY <1>0, <1>8, <2>1, <2>2 DEF ForwardEvent, EsTypeOK
  <2> QED
    BY <1>0, <1>8, <2>3 DEF ForwardEvent, EsTypeOK, LateHasLeft
<1>9. CASE UNCHANGED esVars
  BY <1>0, <1>9 DEF esVars, EsTypeOK, LateHasLeft
<1> QED
  BY <1>1, <1>2, <1>3, <1>4, <1>5, <1>6, <1>7, <1>8, <1>9 DEF EsNext, BusWorkerStep

\* Every step preserves the invariant.
LEMMA EsStep == EsIInv /\ [EsNext]_esVars => EsIInv'
<1> SUFFICES ASSUME EsIInv, [EsNext]_esVars PROVE EsIInv'
  OBVIOUS
<1>1. EsTypeOK /\ EsTypeOK' /\ OpenChannelsOnly /\ LateHasLeft /\ LateHasLeft' /\ SendingIsMapped /\ EventsAdvance /\ EventsInOrder
  BY EsTypeStep DEF EsIInv
<1> SUFFICES OpenChannelsOnly' /\ SendingIsMapped' /\ EventsAdvance' /\ EventsInOrder'
  BY <1>1 DEF EsIInv
<1> USE EsAssumption
<1>2. /\ esQueue \in Seq(1..MaxBusEvents) /\ Len(esQueue) \in Nat /\ esAccepted \in 0..MaxBusEvents
      /\ esSending \subseteq (1..MaxBusEvents) \X StreamClients /\ \A i \in 1..Len(esQueue) : esQueue[i] \in 1..MaxBusEvents
      /\ \A x \in StreamClients : esSent[x] \in Seq(1..MaxBusEvents) /\ esChannel[x] \in Seq(1..MaxBusEvents)
  BY <1>1, ElementOfSeq DEF EsTypeOK
<1>3. \A x \in StreamClients : /\ Seen(x) \in Seq(1..MaxBusEvents) /\ Len(Seen(x)) \in Nat
                               /\ \A k \in 1..Len(Seen(x)) : Seen(x)[k] \in 1..MaxBusEvents
  <2> SUFFICES ASSUME NEW x \in StreamClients
               PROVE  Seen(x) \in Seq(1..MaxBusEvents) /\ Len(Seen(x)) \in Nat
                      /\ \A k \in 1..Len(Seen(x)) : Seen(x)[k] \in 1..MaxBusEvents
    OBVIOUS
  <2>1. Seen(x) \in Seq(1..MaxBusEvents)
    BY <1>2, ConcatProperties DEF Seen
  <2> HIDE DEF Seen
  <2> QED
    BY <2>1, ElementOfSeq
<1>4. EventsInOrder <=> \A x \in StreamClients : \A i, j \in 1..Len(Seen(x)) : i < j => Seen(x)[i] < Seen(x)[j]
  BY DEF EventsInOrder, Seen
<1>5. EventsInOrder' <=> \A x \in StreamClients : \A i, j \in 1..Len(Seen(x)') : i < j => Seen(x)'[i] < Seen(x)'[j]
  BY DEF EventsInOrder, Seen
\* Steps of the handlers that move no event.
<1>6. ASSUME UNCHANGED <<esAccepted, esQueue>>, esSending' \subseteq esSending, \A x \in StreamClients : Seen(x)' = Seen(x)
      PROVE  EventsAdvance' /\ EventsInOrder'
  <2>1. \A p \in esSending : p[2] \in StreamClients
    BY <1>2
  <2> HIDE DEF Seen
  <2>2. EventsInOrder'
    BY <1>1, <1>4, <1>5, <1>6
  <2> QED
    BY <1>1, <1>6, <2>1, <2>2 DEF EventsAdvance
<1>7. ASSUME UNCHANGED <<esAlive, esLeftLate>> PROVE OpenChannelsOnly'
  BY <1>1, <1>7 DEF OpenChannelsOnly
<1>8. ASSUME UNCHANGED esMap, esSending' \subseteq esSending PROVE SendingIsMapped'
  BY <1>1, <1>8 DEF SendingIsMapped
<1>9. ASSUME UNCHANGED <<esChannel, esSent>> PROVE \A x \in StreamClients : Seen(x)' = Seen(x)
  BY <1>9 DEF Seen
<1>19. /\ \A i \in 1..Len(esQueue) : esQueue[i] <= esAccepted
       /\ \A i, j \in 1..Len(esQueue) : i < j => esQueue[i] < esQueue[j]
  BY <1>1 DEF EventsAdvance
<1> USE DEF esBusVars, esFeed, esOwn
<1>10. CASE PublishEvent
  <2>1. /\ esAccepted' = esAccepted + 1 /\ UNCHANGED <<esAlive, esLeftLate, esSending, esMap, esChannel, esSent>>
        /\ Len(esQueue') = Len(esQueue) + 1 /\ esQueue'[Len(esQueue) + 1] = esAccepted + 1
        /\ \A i \in 1..Len(esQueue) : esQueue'[i] = esQueue[i]
    BY <1>2, <1>10, AppendProperties DEF PublishEvent
  <2>2. \A x \in StreamClients : Seen(x)' = Seen(x)
    BY <1>9, <2>1
  <2>3. EventsInOrder'
    BY <1>1, <1>4, <1>5, <2>2
  <2>4. \A p \in esSending : p[1] \in 1..MaxBusEvents /\ p[2] \in StreamClients
    BY <1>2
  <2>5. EventsAdvance'
    <3>1. /\ \A i \in 1..Len(esQueue') : esQueue'[i] <= esAccepted'
          /\ \A i, j \in 1..Len(esQueue') : i < j => esQueue'[i] < esQueue'[j]
      <4>1. \A i \in 1..Len(esQueue') : i \in 1..Len(esQueue) \/ i = Len(esQueue) + 1
        BY <1>2, <2>1
      <4>2. \A i \in 1..Len(esQueue) : esQueue'[i] <= esAccepted /\ esQueue'[i] \in Int
        BY <1>2, <1>19, <2>1
      <4>3. \A i \in 1..Len(esQueue') : esQueue'[i] <= esAccepted + 1
        BY <1>2, <2>1, <4>1, <4>2
      <4>4. ASSUME NEW i \in 1..Len(esQueue'), NEW j \in 1..Len(esQueue'), i < j PROVE esQueue'[i] < esQueue'[j]
        <5>1. i \in 1..Len(esQueue)
          BY <1>2, <2>1, <4>4
        <5>2. CASE j = Len(esQueue) + 1
          BY <1>2, <2>1, <4>2, <5>1, <5>2
        <5>3. CASE j \in 1..Len(esQueue)
          BY <1>19, <2>1, <4>4, <5>1, <5>3
        <5> QED
          BY <4>1, <5>2, <5>3
      <4> QED
        BY <2>1, <4>3, <4>4
    <3>2. ASSUME NEW n \in 1..MaxBusEvents, n <= esAccepted, \A i \in 1..Len(esQueue) : n < esQueue[i]
          PROVE  n <= esAccepted' /\ \A i \in 1..Len(esQueue') : n < esQueue'[i]
      BY <1>2, <2>1, <3>2
    <3> HIDE DEF Seen
    <3>3. \A p \in esSending' :
             /\ p[1] <= esAccepted'
             /\ \A i \in 1..Len(esQueue') : p[1] < esQueue'[i]
             /\ \A k \in 1..Len(Seen(p[2])') : Seen(p[2])'[k] < p[1]
      BY <1>1, <2>1, <2>2, <2>4, <3>2 DEF EventsAdvance
    <3>4. \A x \in StreamClients : \A k \in 1..Len(Seen(x)') :
             Seen(x)'[k] <= esAccepted' /\ \A i \in 1..Len(esQueue') : Seen(x)'[k] < esQueue'[i]
      BY <1>1, <1>3, <2>2, <3>2 DEF EventsAdvance
    <3> QED
      BY <3>1, <3>3, <3>4 DEF EventsAdvance
  <2> QED
    BY <1>7, <1>8, <2>1, <2>3, <2>5
<1>11. CASE Dispatch
  <2> DEFINE n == esQueue[1]
  <2>1. /\ esQueue # <<>> /\ Len(esQueue) >= 1 /\ esSending = {} /\ esSending' = {<<n, x>> : x \in esMap}
        /\ Len(esQueue') = Len(esQueue) - 1 /\ \A i \in 1..Len(esQueue) - 1 : esQueue'[i] = esQueue[i + 1]
        /\ UNCHANGED <<esAlive, esLeftLate, esAccepted, esMap, esChannel, esSent>>
    BY <1>2, <1>11, HeadTailProperties, EmptySeq DEF Dispatch
  <2>2. \A x \in StreamClients : Seen(x)' = Seen(x)
    BY <1>9, <2>1
  <2>3. EventsInOrder'
    BY <1>1, <1>4, <1>5, <2>2
  <2>4. n \in 1..MaxBusEvents /\ n <= esAccepted /\ \A i \in 1..Len(esQueue') : n < esQueue'[i]
    <3>1. 1 \in 1..Len(esQueue) /\ \A i \in 1..Len(esQueue') : i + 1 \in 1..Len(esQueue) /\ 1 < i + 1 /\ i \in 1..Len(esQueue) - 1
      BY <1>2, <2>1
    <3> QED
      BY <1>2, <1>19, <2>1, <3>1
  <2>5. SendingIsMapped'
    BY <2>1 DEF SendingIsMapped
  <2>7. /\ 1 \in 1..Len(esQueue)
        /\ \A i \in 1..Len(esQueue') : i + 1 \in 1..Len(esQueue) /\ esQueue'[i] = esQueue[i + 1]
        /\ \A i, j \in 1..Len(esQueue') : i < j => i + 1 < j + 1
    BY <1>2, <2>1
  <2>6. EventsAdvance'
    <3>1. /\ \A i \in 1..Len(esQueue') : esQueue'[i] <= esAccepted'
          /\ \A i, j \in 1..Len(esQueue') : i < j => esQueue'[i] < esQueue'[j]
      BY <1>19, <2>1, <2>7
    <3> HIDE DEF Seen
    <3>2. \A x \in StreamClients : \A k \in 1..Len(Seen(x)) :
             Seen(x)[k] < n /\ Seen(x)[k] <= esAccepted /\ \A i \in 1..Len(esQueue') : Seen(x)[k] < esQueue'[i]
      BY <1>1, <2>1, <2>7 DEF EventsAdvance
    <3>3. esMap \subseteq StreamClients
      BY <1>1 DEF EsTypeOK
    <3> HIDE DEF n
    <3>4. \A p \in esSending' : p[1] = n /\ p[2] \in StreamClients
      BY <2>1, <3>3
    <3> QED
      BY <2>1, <2>2, <2>4, <3>1, <3>2, <3>4 DEF EventsAdvance
  <2> QED
    BY <1>7, <2>1, <2>3, <2>5, <2>6
<1>12. ASSUME NEW e \in 1..MaxBusEvents, NEW x \in StreamClients, HandleSends(e, x)
       PROVE  OpenChannelsOnly' /\ SendingIsMapped' /\ EventsAdvance' /\ EventsInOrder'
  <2>1. /\ <<e, x>> \in esSending /\ esSending' = esSending \ {<<e, x>>}
        /\ esChannel'[x] = Append(esChannel[x], e) /\ \A y \in StreamClients \ {x} : esChannel'[y] = esChannel[y]
        /\ UNCHANGED <<esAlive, esLeftLate, esMap, esAccepted, esQueue, esSent>>
    BY <1>1, <1>12 DEF HandleSends, EsTypeOK
  <2>2. /\ Len(Seen(x)') = Len(Seen(x)) + 1 /\ Seen(x)'[Len(Seen(x)) + 1] = e
        /\ \A k \in 1..Len(Seen(x)) : Seen(x)'[k] = Seen(x)[k]
    <3>1. Seen(x)' = Append(Seen(x), e)
      <4>1. esSent[x] \in Seq(1..MaxBusEvents) /\ esChannel[x] \in Seq(1..MaxBusEvents)
        BY <1>2
      <4>2. esSent[x] \o Append(esChannel[x], e) = Append(esSent[x] \o esChannel[x], e)
        <5>1. \A s, c \in Seq(1..MaxBusEvents), d \in 1..MaxBusEvents : s \o Append(c, d) = Append(s \o c, d)
          BY AppendConcat
        <5> QED
          BY <4>1, <5>1
      <4> QED
        BY <2>1, <4>2 DEF Seen
    <3> QED
      BY <1>3, <3>1, AppendProperties
  <2>3. \A y \in StreamClients \ {x} : Seen(y)' = Seen(y)
    BY <2>1 DEF Seen
  <2> HIDE DEF Seen
  <2>4. /\ e <= esAccepted /\ \A i \in 1..Len(esQueue) : e < esQueue[i]
        /\ \A k \in 1..Len(Seen(x)) : Seen(x)[k] < e
    BY <1>1, <2>1 DEF EventsAdvance
  <2>5. \A p \in esSending' : p[2] \in StreamClients /\ p[2] # x
    <3> SUFFICES ASSUME NEW p \in esSending', p[2] = x PROVE FALSE
      BY <1>2, <2>1
    <3>1. p \in (1..MaxBusEvents) \X StreamClients /\ p[1] = e
      BY <1>1, <1>2, <2>1 DEF SendingIsMapped
    <3>2. p = <<e, x>>
      BY <3>1
    <3> QED
      BY <2>1, <3>2
  <2>6. EventsInOrder'
    <3>1. ASSUME NEW y \in StreamClients, NEW i \in 1..Len(Seen(y)'), NEW j \in 1..Len(Seen(y)'), i < j
          PROVE  Seen(y)'[i] < Seen(y)'[j]
      <4>1. CASE y # x
        BY <1>1, <1>4, <2>3, <3>1, <4>1
      <4>2. CASE y = x /\ j = Len(Seen(x)) + 1
        BY <1>3, <2>2, <2>4, <3>1, <4>2, SMTT(20)
      <4>3. CASE y = x /\ j # Len(Seen(x)) + 1
        <5>1. i \in 1..Len(Seen(x)) /\ j \in 1..Len(Seen(x))
          BY <1>3, <2>2, <3>1, <4>3, SMTT(20)
        <5> QED
          BY <1>1, <1>4, <2>2, <3>1, <4>3, <5>1
      <4> QED
        BY <4>1, <4>2, <4>3
    <3> QED
      BY <1>5, <3>1
  <2>7. EventsAdvance'
    <3>1. \A y \in StreamClients : \A k \in 1..Len(Seen(y)') :
             Seen(y)'[k] <= esAccepted /\ \A i \in 1..Len(esQueue) : Seen(y)'[k] < esQueue[i]
      <4>1. \A k \in 1..Len(Seen(x)') : k \in 1..Len(Seen(x)) \/ k = Len(Seen(x)) + 1
        BY <1>3, <2>2
      <4> QED
        BY <1>1, <2>2, <2>3, <2>4, <4>1 DEF EventsAdvance
    <3> QED
      BY <1>1, <2>1, <2>3, <2>5, <3>1 DEF EventsAdvance
  <2> QED
    BY <1>7, <1>8, <2>1, <2>6, <2>7
<1>13. ASSUME NEW e \in 1..MaxBusEvents, NEW x \in StreamClients, HandlePanics(e, x)
       PROVE  OpenChannelsOnly' /\ SendingIsMapped' /\ EventsAdvance' /\ EventsInOrder'
  <2>1. x \in esLeftLate /\ esLeftLate' = esLeftLate
    BY <1>1, <1>13 DEF HandlePanics, SendingIsMapped, EsTypeOK
  <2> QED
    BY <1>6, <1>8, <1>9, <1>13, <2>1 DEF HandlePanics, OpenChannelsOnly
<1>14. ASSUME NEW e \in 1..MaxBusEvents, NEW x \in StreamClients, HandleGivesUp(e, x)
       PROVE  OpenChannelsOnly' /\ SendingIsMapped' /\ EventsAdvance' /\ EventsInOrder'
  BY <1>6, <1>7, <1>8, <1>9, <1>14 DEF HandleGivesUp
<1>15. CASE CloseEventBus \/ DrainEnds \/ \E e \in 1..MaxBusEvents : CallerLeaves(e)
  BY <1>6, <1>7, <1>8, <1>9, <1>15 DEF CloseEventBus, DrainEnds, CallerLeaves
<1>16. ASSUME NEW x \in StreamClients, SubscribeStream(x) \/ LeaveStream(x) \/ LeavingStep(x)
       PROVE  OpenChannelsOnly' /\ SendingIsMapped' /\ EventsAdvance' /\ EventsInOrder'
  <2>1. UNCHANGED <<esAlive, esAccepted, esQueue, esSending, esChannel, esSent>> /\ (esMap' = esMap \/ esSending = {})
        /\ esLeftLate \subseteq esLeftLate'
    BY <1>16 DEF SubscribeStream, LeaveStream, LeavingStep, UnsubscribeStream, CloseChannel, WriteLockFree
  <2>2. SendingIsMapped' /\ OpenChannelsOnly'
    BY <1>1, <2>1 DEF SendingIsMapped, OpenChannelsOnly
  <2> QED
    BY <1>6, <1>9, <2>1, <2>2
<1>17. ASSUME NEW x \in StreamClients, ForwardEvent(x)
       PROVE  OpenChannelsOnly' /\ SendingIsMapped' /\ EventsAdvance' /\ EventsInOrder'
  <2>1. /\ esChannel[x] # <<>> /\ esSent'[x] = Append(esSent[x], Head(esChannel[x])) /\ esChannel'[x] = Tail(esChannel[x])
        /\ \A y \in StreamClients \ {x} : esSent'[y] = esSent[y] /\ esChannel'[y] = esChannel[y]
    BY <1>1, <1>17 DEF ForwardEvent, EsTypeOK
  <2>2. \A y \in StreamClients : Seen(y)' = Seen(y)
    <3>1. esSent[x] \in Seq(1..MaxBusEvents) /\ esChannel[x] \in Seq(1..MaxBusEvents)
      BY <1>2
    <3>2. Append(esSent[x], Head(esChannel[x])) \o Tail(esChannel[x]) = esSent[x] \o esChannel[x]
      BY <2>1, <3>1, ForwardConcat
    <3> QED
      BY <2>1, <3>2 DEF Seen
  <2> QED
    BY <1>6, <1>7, <1>8, <1>17, <2>2 DEF ForwardEvent
<1>18. CASE UNCHANGED esVars
  BY <1>6, <1>7, <1>8, <1>9, <1>18 DEF esVars
<1> QED
  BY <1>10, <1>11, <1>12, <1>13, <1>14, <1>15, <1>16, <1>17, <1>18 DEF EsNext, BusWorkerStep

\* While clients subscribe, read slowly, leave and the bus closes: a channel is written
\* to after it was closed only if the bus was closed before its handler left, and each
\* client gets the events in the order of the bus and none twice
\* (orchestrator_service.go:650, :709).
THEOREM EventStreamsStaySafe == EsSpec => []EventStreamsSafe
<1>1. EsIInv => EventStreamsSafe
  BY DEF EsIInv, EventStreamsSafe
<1> QED
  BY EsInitIInv, EsStep, <1>1, PTL DEF EsSpec
-----------------------------------------------------------------------------
(* The event router.                                                       *)

\* The tables hold what is registered, and an exact pattern has one route.
TablesAgree ==
    \A r \in Routes, t \in Topics :
        /\ r \in exact[t] <=> <<r, [prefix |-> t, wild |-> FALSE]>> \in registered
        /\ r \in wildcards[t] <=> <<r, [prefix |-> t, wild |-> TRUE]>> \in registered

ExactIsOne == \A t \in Topics : exact[t] = {} \/ \E r \in Routes : exact[t] = {r}

\* The inductive invariant of the router.
RtIInv ==
    /\ exact \in [Topics -> SUBSET Routes] /\ wildcards \in [Topics -> SUBSET Routes]
    /\ active \subseteq Routes /\ routerClosed \in BOOLEAN /\ registered \subseteq Routes \X Patterns
    /\ ExactIsOne /\ TablesAgree

\* A pattern is its prefix and whether it is wild.
LEMMA PatternShape ==
    \A p \in Patterns : /\ p.prefix \in Topics /\ p.wild \in BOOLEAN
                        /\ p = [prefix |-> p.prefix, wild |-> TRUE] \/ p = [prefix |-> p.prefix, wild |-> FALSE]
                        /\ p.wild => p = [prefix |-> p.prefix, wild |-> TRUE]
                        /\ ~p.wild => p = [prefix |-> p.prefix, wild |-> FALSE]
BY DEF Patterns

\* The tables are empty at first.
LEMMA RtInit == RouterInit => RtIInv
<1> SUFFICES ASSUME RouterInit PROVE RtIInv
  OBVIOUS
<1>1. \A t \in Topics : exact[t] = {} /\ wildcards[t] = {}
  BY DEF RouterInit
<1>2. ExactIsOne /\ TablesAgree
  BY <1>1 DEF RouterInit, ExactIsOne, TablesAgree
<1> QED
  BY <1>2 DEF RouterInit, RtIInv

\* Every step of the router keeps its invariant.
LEMMA RtNext == RtIInv /\ [RouterNext]_routerVars => RtIInv'
<1> SUFFICES ASSUME RtIInv, [RouterNext]_routerVars PROVE RtIInv'
  OBVIOUS
<1> USE DEF RtIInv
<1>1. ASSUME NEW r \in Routes, NEW p \in Patterns, AddRoute(r, p)
      PROVE  RtIInv'
  <2>1. p.prefix \in Topics /\ \A q \in Patterns : <<r, q>> \notin registered
    <3>1. \A q : <<r, q>> \in registered => r \in Added
      <4> SUFFICES ASSUME NEW q, <<r, q>> \in registered PROVE r \in Added
        OBVIOUS
      <4>1. <<r, q>>[1] = r
        OBVIOUS
      <4> QED
        BY <4>1 DEF Added
    <3> QED
      BY <1>1, <3>1, PatternShape DEF AddRoute
  <2>2. CASE p.wild
    <3>1. /\ wildcards' = [wildcards EXCEPT ![p.prefix] = @ \cup {r}] /\ exact' = exact
          /\ active' = active \cup {r} /\ routerClosed' = routerClosed
          /\ registered' = registered \cup {<<r, p>>}
      <4>1. {rp \in registered : p.wild \/ rp[2] # p} = registered
        BY <2>2
      <4> QED
        BY <1>1, <2>2, <4>1 DEF AddRoute
    <3>2. p = [prefix |-> p.prefix, wild |-> TRUE]
      BY <2>2, PatternShape
    <3>3. /\ wildcards' \in [Topics -> SUBSET Routes] /\ registered' \subseteq Routes \X Patterns
          /\ \A t \in Topics : wildcards'[t] = IF t = p.prefix THEN wildcards[t] \cup {r} ELSE wildcards[t]
      <4>1. /\ wildcards' \in [Topics -> SUBSET Routes]
            /\ \A t \in Topics : wildcards'[t] = IF t = p.prefix THEN wildcards[t] \cup {r} ELSE wildcards[t]
        <5>1. wildcards \in [Topics -> SUBSET Routes] /\ wildcards[p.prefix] \cup {r} \subseteq Routes
          BY <2>1
        <5> QED
          BY <2>1, <3>1, <5>1
      <4>2. <<r, p>> \in Routes \X Patterns
        OBVIOUS
      <4> QED
        BY <3>1, <4>1, <4>2
    <3>4. ASSUME NEW s \in Routes, NEW t \in Topics
          PROVE  /\ s \in exact'[t] <=> <<s, [prefix |-> t, wild |-> FALSE]>> \in registered'
                 /\ s \in wildcards'[t] <=> <<s, [prefix |-> t, wild |-> TRUE]>> \in registered'
      <4>1. <<s, [prefix |-> t, wild |-> FALSE]>> # <<r, p>>
        BY <3>2
      <4>2. <<s, [prefix |-> t, wild |-> TRUE]>> = <<r, p>> <=> s = r /\ t = p.prefix
        BY <3>2
      <4> QED
        BY <3>1, <3>3, <4>1, <4>2 DEF TablesAgree
    <3>5. TablesAgree'
      BY <3>4 DEF TablesAgree
    <3> QED
      BY <3>1, <3>3, <3>5 DEF ExactIsOne
  <2>3. CASE ~p.wild
    <3>1. /\ exact' = [exact EXCEPT ![p.prefix] = {r}] /\ wildcards' = wildcards
          /\ active' = active \cup {r} /\ routerClosed' = routerClosed
          /\ registered' = {rp \in registered : rp[2] # p} \cup {<<r, p>>}
      <4>1. {rp \in registered : p.wild \/ rp[2] # p} = {rp \in registered : rp[2] # p}
        BY <2>3
      <4> QED
        BY <1>1, <2>3, <4>1 DEF AddRoute
    <3>2. p = [prefix |-> p.prefix, wild |-> FALSE]
      BY <2>3, PatternShape
    <3>3. /\ exact' \in [Topics -> SUBSET Routes] /\ registered' \subseteq Routes \X Patterns
          /\ \A t \in Topics : exact'[t] = IF t = p.prefix THEN {r} ELSE exact[t]
      BY <2>1, <3>1
    <3>4. ASSUME NEW s \in Routes, NEW t \in Topics
          PROVE  /\ s \in exact'[t] <=> <<s, [prefix |-> t, wild |-> FALSE]>> \in registered'
                 /\ s \in wildcards'[t] <=> <<s, [prefix |-> t, wild |-> TRUE]>> \in registered'
      <4>1. /\ <<s, [prefix |-> t, wild |-> TRUE]>> # <<r, p>>
            /\ <<s, [prefix |-> t, wild |-> TRUE]>>[2] # p
        BY <3>2
      <4>2. /\ <<s, [prefix |-> t, wild |-> FALSE]>> = <<r, p>> <=> s = r /\ t = p.prefix
            /\ <<s, [prefix |-> t, wild |-> FALSE]>>[2] # p <=> t # p.prefix
        BY <3>2
      <4>3. <<s, [prefix |-> t, wild |-> TRUE]>> \in registered' <=> <<s, [prefix |-> t, wild |-> TRUE]>> \in registered
        BY <3>1, <4>1
      <4>4. <<s, [prefix |-> t, wild |-> FALSE]>> \in registered'
                <=> IF t = p.prefix THEN s = r ELSE <<s, [prefix |-> t, wild |-> FALSE]>> \in registered
        BY <3>1, <4>2
      <4> QED
        BY <3>1, <3>3, <4>3, <4>4 DEF TablesAgree
    <3>5. TablesAgree'
      BY <3>4 DEF TablesAgree
    <3>6. ExactIsOne'
      BY <3>3 DEF ExactIsOne
    <3> QED
      BY <3>1, <3>3, <3>5, <3>6
  <2> QED
    BY <2>2, <2>3
<1>2. ASSUME NEW r \in Routes, RemoveRoute(r)
      PROVE  RtIInv'
  <2>1. /\ exact' = [t \in Topics |-> exact[t] \ {r}] /\ wildcards' = [t \in Topics |-> wildcards[t] \ {r}]
        /\ active' = active \ {r} /\ routerClosed' = routerClosed
        /\ registered' = {rp \in registered : rp[1] # r}
    BY <1>2 DEF RemoveRoute
  <2>2. \A s \in Routes, q \in Patterns : <<s, q>> \in registered' <=> <<s, q>> \in registered /\ s # r
    BY <2>1
  <2>3. TablesAgree'
    BY <2>1, <2>2 DEF TablesAgree, Patterns
  <2>4. ExactIsOne'
    <3> SUFFICES ASSUME NEW t \in Topics PROVE exact'[t] = {} \/ \E s \in Routes : exact'[t] = {s}
      BY DEF ExactIsOne
    <3>1. exact'[t] = exact[t] \ {r}
      BY <2>1
    <3> QED
      BY <3>1 DEF ExactIsOne
  <2> QED
    BY <2>1, <2>3, <2>4
<1>3. ASSUME NEW r \in Routes, SetRouteActive(r)
      PROVE  RtIInv'
  BY <1>3 DEF SetRouteActive, TablesAgree, ExactIsOne
<1>4. CASE CloseRouter
  BY <1>4 DEF CloseRouter, TablesAgree, ExactIsOne
<1>5. CASE UNCHANGED routerVars
  BY <1>5 DEF routerVars, TablesAgree, ExactIsOne
<1> QED
  BY <1>1, <1>2, <1>3, <1>4, <1>5 DEF RouterNext
\* What findHandlers collects for a topic is what matchPattern accepts.
LEMMA RtSafe == RtIInv => RouterTypeOK /\ FindsEveryMatch /\ TablesHoldRegistered
<1> SUFFICES ASSUME RtIInv PROVE RouterTypeOK /\ FindsEveryMatch /\ TablesHoldRegistered
  OBVIOUS
<1> USE DEF RtIInv
<1>1. RouterTypeOK
  <2>1. \A t \in Topics : Cardinality(exact[t]) <= 1
    <3> SUFFICES ASSUME NEW t \in Topics PROVE Cardinality(exact[t]) <= 1
      OBVIOUS
    <3>1. CASE exact[t] = {}
      <4>1. Cardinality(exact[t]) = 0
        BY <3>1, FS_EmptySet
      <4> QED
        BY <4>1
    <3>2. ASSUME NEW r, exact[t] = {r} PROVE Cardinality(exact[t]) <= 1
      <4>1. Cardinality(exact[t]) = 1
        BY <3>2, FS_Singleton
      <4> QED
        BY <4>1
    <3> QED
      BY <3>1, <3>2 DEF ExactIsOne
  <2> QED
    BY <2>1 DEF RouterTypeOK
<1>2. TablesHoldRegistered
  <2> SUFFICES ASSUME NEW t \in Topics, NEW r \in Routes, r \in exact[t] \/ r \in wildcards[t]
               PROVE  r \in Added
    BY DEF TablesHoldRegistered
  <2>1. PICK p : <<r, p>> \in registered
    BY DEF TablesAgree
  <2>2. <<r, p>>[1] = r
    OBVIOUS
  <2> QED
    BY <2>1, <2>2 DEF Added
<1>3. ASSUME NEW topic \in Topics, topic # <<>>, NEW r \in active
      PROVE  r \in FindHandlers(topic) <=> \E p \in Patterns : <<r, p>> \in registered /\ MatchPattern(topic, p)
  <2> DEFINE Pat(t, w) == [prefix |-> t, wild |-> w]
             Pre(n) == SubSeq(topic, 1, n)
  <2>1. /\ topic \in Seq(STRING) /\ Len(topic) \in Nat \ {0} /\ Pre(0) = <<>>
        /\ \A n \in 0..Len(topic) : Pre(n) \in Topics /\ Len(Pre(n)) = n
    BY <1>3, RouterAssumption
  <2>2. /\ \A t, w : Pat(t, w).prefix = t /\ Pat(t, w).wild = w
        /\ \A t \in Topics, w \in BOOLEAN : Pat(t, w) \in Patterns
    BY DEF Patterns
  <2>3. r \in Routes
    BY <1>3
  <2> HIDE DEF Pat
  <2>4. r \in FindHandlers(topic) <=>
            \/ r \in exact[topic]
            \/ \E n \in 1..Len(topic) : MatchPattern(topic, Pat(Pre(n), TRUE)) /\ r \in wildcards[Pre(n)]
            \/ r \in wildcards[<<>>]
    <3>1. \A n : Pat(Pre(n), TRUE).prefix = Pre(n)
      BY <2>2
    <3> HIDE DEF Pre
    <3> DEFINE ns == {m \in 1..Len(topic) : MatchPattern(topic, Pat(Pre(m), TRUE))}
               wilds == UNION {wildcards[Pat(Pre(n), TRUE).prefix] : n \in ns}
    <3>2. FindHandlers(topic) =
              (exact[topic] \cup wilds \cup wildcards[<<>>]) \cap active
      BY DEF FindHandlers, Pat, Pre
    <3>3. \A n : n \in ns <=> n \in 1..Len(topic) /\ MatchPattern(topic, Pat(Pre(n), TRUE))
      OBVIOUS
    <3> HIDE DEF ns
    <3>4. r \in wilds <=> \E n \in ns : r \in wildcards[Pre(n)]
      BY <3>1
    <3> HIDE DEF wilds
    <3>5. r \in FindHandlers(topic) <=>
              \/ r \in exact[topic]
              \/ \E n \in ns : r \in wildcards[Pre(n)]
              \/ r \in wildcards[<<>>]
      BY <1>3, <3>2, <3>4
    <3> QED
      BY <3>3, <3>5
  <2>5. \A t \in Topics : /\ r \in exact[t] <=> <<r, Pat(t, FALSE)>> \in registered
                          /\ r \in wildcards[t] <=> <<r, Pat(t, TRUE)>> \in registered
    BY <2>3 DEF TablesAgree, Pat
  <2>6. /\ \A t : MatchPattern(topic, Pat(t, FALSE)) <=> topic = t
        /\ \A t : MatchPattern(topic, Pat(t, TRUE)) <=> Len(t) < Len(topic) /\ Pre(Len(t)) = t
    BY <2>2 DEF MatchPattern
  <2>7. \A p \in Patterns : /\ p.prefix \in Topics
                            /\ p = Pat(p.prefix, TRUE) \/ p = Pat(p.prefix, FALSE)
    BY PatternShape DEF Pat
  <2> HIDE DEF Pre
  <2>8. ASSUME r \in FindHandlers(topic)
        PROVE  \E p \in Patterns : <<r, p>> \in registered /\ MatchPattern(topic, p)
    <3>1. CASE r \in exact[topic]
      BY <2>2, <2>5, <2>6, <3>1
    <3>2. ASSUME NEW n \in 1..Len(topic), MatchPattern(topic, Pat(Pre(n), TRUE)), r \in wildcards[Pre(n)]
          PROVE  \E p \in Patterns : <<r, p>> \in registered /\ MatchPattern(topic, p)
      <4>1. Pre(n) \in Topics
        BY <2>1
      <4> QED
        BY <2>2, <2>5, <3>2, <4>1
    <3>3. CASE r \in wildcards[<<>>]
      <4>1. <<>> \in Topics /\ Len(<<>>) = 0
        BY <2>1
      <4>2. MatchPattern(topic, Pat(<<>>, TRUE))
        <5>1. Len(<<>>) < Len(topic) /\ Pre(Len(<<>>)) = <<>>
          BY <2>1, <4>1
        <5> QED
          BY <2>6, <5>1
      <4> QED
        BY <2>2, <2>5, <3>3, <4>1, <4>2
    <3> QED
      BY <2>4, <2>8, <3>1, <3>2, <3>3
  <2>9. ASSUME NEW p \in Patterns, <<r, p>> \in registered, MatchPattern(topic, p)
        PROVE  r \in FindHandlers(topic)
    <3>1. CASE p = Pat(p.prefix, FALSE)
      BY <2>4, <2>5, <2>6, <2>7, <2>9, <3>1
    <3>2. CASE p = Pat(p.prefix, TRUE)
      <4>1. Len(p.prefix) < Len(topic) /\ Pre(Len(p.prefix)) = p.prefix /\ r \in wildcards[p.prefix]
        BY <2>5, <2>6, <2>7, <2>9, <3>2
      <4>2. p.prefix \in Seq(STRING)
        BY <2>7, RouterAssumption
      <4>3. Len(p.prefix) \in 0..Len(topic)
        BY <2>1, <4>1, <4>2
      <4>4. CASE Len(p.prefix) = 0
        BY <2>1, <2>4, <4>1, <4>4
      <4>5. CASE Len(p.prefix) \in 1..Len(topic)
        <5>1. MatchPattern(topic, Pat(Pre(Len(p.prefix)), TRUE))
          BY <2>9, <3>2, <4>1
        <5> QED
          BY <2>4, <4>1, <4>5, <5>1
      <4> QED
        BY <2>1, <4>3, <4>4, <4>5
    <3> QED
      BY <2>7, <3>1, <3>2
  <2> QED
    BY <2>8, <2>9
<1>4. FindsEveryMatch
  <2>1. \A topic : FindHandlers(topic) \subseteq active
    BY DEF FindHandlers
  <2> QED
    BY <1>3, <2>1 DEF FindsEveryMatch
<1> QED
  BY <1>1, <1>2, <1>4

\* Looking up the prefixes of a topic always finds what testing every
\* registered route would find, and a removed or replaced route is in no
\* table (router.go, AddRoute, RemoveRoute, findHandlers).
LEMMA RouterFindsEveryMatch == RouterSpec => [](RouterTypeOK /\ FindsEveryMatch /\ TablesHoldRegistered)
<1>1. RouterSpec => []RtIInv
  BY RtInit, RtNext, PTL DEF RouterSpec
<1> QED
  BY <1>1, RtSafe, PTL
-----------------------------------------------------------------------------
(* The event handlers: RetryHandler around TimeoutHandler.                 *)

\* How many times the wrapped handler was started, by what RetryHandler does;
\* while Handle waits, the goroutine it waits for runs.
AttemptOK(status, a, running, n) ==
    /\ status = "idle" => a = 0 /\ n = 0
    /\ status = "waiting" => n = a + 1 /\ a <= MaxAttempts /\ running >= 1
    /\ status = "backoff" => n = a /\ a <= MaxAttempts
    /\ n <= MaxAttempts + 1

\* The inductive invariant of the retries.
ReIInv ==
    /\ attempt \in [Handled -> Nat]
    /\ retry \in [Handled -> {"idle", "waiting", "backoff", "done", "failed"}]
    /\ inflight \in [Handled -> Nat] /\ started \in [Handled -> Nat]
    /\ \A e \in Handled : AttemptOK(retry[e], attempt[e], inflight[e], started[e])

\* No attempt runs at first.
LEMMA ReInit == HandlersInit => ReIInv
<1> SUFFICES ASSUME HandlersInit PROVE ReIInv
  OBVIOUS
<1>1. MaxAttempts \in Nat
  BY HandlersAssumption
<1> QED
  BY <1>1 DEF HandlersInit, ReIInv, AttemptOK

\* An attempt that failed: the next one, or the end.
LEMMA ReFails ==
    ASSUME ReIInv, NEW e \in Handled, retry[e] = "waiting", AttemptFails(e), started' = started,
           NEW i \in Nat, inflight' = [inflight EXCEPT ![e] = i]
    PROVE  ReIInv'
<1> USE DEF ReIInv
<1>1. MaxAttempts \in Nat /\ attempt[e] \in Nat /\ started[e] \in Nat
  BY HandlersAssumption
<1>2. /\ attempt' \in [Handled -> Nat] /\ attempt' = [attempt EXCEPT ![e] = attempt[e] + 1]
      /\ retry' \in [Handled -> {"idle", "waiting", "backoff", "done", "failed"}]
      /\ retry' = [retry EXCEPT ![e] = IF attempt[e] < MaxAttempts THEN "backoff" ELSE "failed"]
  BY <1>1 DEF AttemptFails
<1>3. AttemptOK(retry[e], attempt[e], inflight[e], started[e])
  OBVIOUS
<1>4. AttemptOK(retry'[e], attempt'[e], inflight'[e], started'[e])
  <2>1. started[e] = attempt[e] + 1 /\ attempt[e] <= MaxAttempts
    BY <1>3 DEF AttemptOK
  <2>2. attempt'[e] = attempt[e] + 1 /\ started'[e] = started[e]
    BY <1>2
  <2>3. CASE attempt[e] < MaxAttempts
    <3>1. retry'[e] = "backoff"
      BY <1>2, <2>3
    <3> QED
      BY <1>1, <2>1, <2>2, <2>3, <3>1 DEF AttemptOK
  <2>4. CASE ~(attempt[e] < MaxAttempts)
    <3>1. retry'[e] = "failed"
      BY <1>2, <2>4
    <3> QED
      BY <1>1, <2>1, <2>2, <3>1 DEF AttemptOK
  <2> QED
    BY <2>3, <2>4
<1>5. \A d \in Handled \ {e} : retry'[d] = retry[d] /\ attempt'[d] = attempt[d] /\ inflight'[d] = inflight[d]
  BY <1>2
<1>6. \A d \in Handled : AttemptOK(retry'[d], attempt'[d], inflight'[d], started'[d])
  BY <1>4, <1>5
<1>7. inflight' \in [Handled -> Nat] /\ started' \in [Handled -> Nat]
  OBVIOUS
<1> QED
  BY <1>2, <1>6, <1>7

\* A step that ends the retries of an event, or an attempt nobody waits for.
LEMMA ReKeeps ==
    ASSUME ReIInv, NEW e \in Handled, attempt' = attempt, started' = started,
           NEW i \in Nat, inflight' = [inflight EXCEPT ![e] = i],
           \/ retry' = [retry EXCEPT ![e] = "done"]
           \/ retry' = [retry EXCEPT ![e] = "failed"]
           \/ retry' = retry /\ (retry[e] = "waiting" => i >= 1)
    PROVE  ReIInv'
<1> USE DEF ReIInv
<1>1. AttemptOK(retry[e], attempt[e], inflight[e], started[e])
  OBVIOUS
<1>2. inflight' \in [Handled -> Nat] /\ inflight'[e] = i
  OBVIOUS
<1>3. retry' \in [Handled -> {"idle", "waiting", "backoff", "done", "failed"}]
  OBVIOUS
<1>4. AttemptOK(retry'[e], attempt'[e], inflight'[e], started'[e])
  <2>1. CASE retry'[e] \in {"done", "failed"}
    BY <1>1, <2>1 DEF AttemptOK
  <2>2. CASE retry'[e] = retry[e] /\ (retry[e] = "waiting" => i >= 1)
    BY <1>1, <1>2, <2>2 DEF AttemptOK
  <2> QED
    BY <2>1, <2>2
<1>5. \A d \in Handled \ {e} : retry'[d] = retry[d] /\ inflight'[d] = inflight[d]
  OBVIOUS
<1>6. \A d \in Handled : AttemptOK(retry'[d], attempt'[d], inflight'[d], started'[d])
  BY <1>4, <1>5
<1> QED
  BY <1>2, <1>3, <1>6

\* Every step of the handlers keeps the invariant of the retries.
LEMMA ReNext == ReIInv /\ [RetryNext \/ BufferNext]_handlerVars => ReIInv'
<1> SUFFICES ASSUME ReIInv, [RetryNext \/ BufferNext]_handlerVars PROVE ReIInv'
  OBVIOUS
<1>m. MaxAttempts \in Nat
  BY HandlersAssumption
<1>t. ASSUME NEW e \in Handled
      PROVE  /\ attempt[e] \in Nat /\ inflight[e] \in Nat /\ started[e] \in Nat
             /\ AttemptOK(retry[e], attempt[e], inflight[e], started[e])
             /\ inflight = [inflight EXCEPT ![e] = inflight[e]]
  BY DEF ReIInv
<1>1. ASSUME NEW e \in Handled, TryHandle(e)
      PROVE  ReIInv'
  <2> USE DEF ReIInv
  <2>1. /\ retry' = [retry EXCEPT ![e] = "waiting"] /\ inflight' = [inflight EXCEPT ![e] = inflight[e] + 1]
        /\ started' = [started EXCEPT ![e] = started[e] + 1] /\ attempt' = attempt
    BY <1>1 DEF TryHandle
  <2>2. /\ retry'[e] = "waiting" /\ inflight'[e] = inflight[e] + 1 /\ started'[e] = started[e] + 1
        /\ inflight' \in [Handled -> Nat] /\ started' \in [Handled -> Nat]
        /\ retry' \in [Handled -> {"idle", "waiting", "backoff", "done", "failed"}]
    BY <2>1, <1>t
  <2>3. started[e] = attempt[e] /\ attempt[e] <= MaxAttempts
    BY <1>1, <1>t, <1>m DEF TryHandle, AttemptOK
  <2>4. AttemptOK(retry'[e], attempt'[e], inflight'[e], started'[e])
    BY <1>m, <1>t, <2>1, <2>2, <2>3 DEF AttemptOK
  <2>5. \A d \in Handled \ {e} : retry'[d] = retry[d] /\ inflight'[d] = inflight[d] /\ started'[d] = started[d]
    BY <2>1
  <2>6. \A d \in Handled : AttemptOK(retry'[d], attempt'[d], inflight'[d], started'[d])
    BY <2>1, <2>4, <2>5
  <2> QED
    BY <2>1, <2>2, <2>6
<1>2. ASSUME NEW e \in Handled, AttemptReturns(e)
      PROVE  ReIInv'
  <2>1. inflight[e] >= 1 /\ inflight[e] - 1 \in Nat /\ retry[e] = "waiting"
    BY <1>2, <1>t DEF AttemptReturns, AttemptOK
  <2>2. inflight' = [inflight EXCEPT ![e] = inflight[e] - 1] /\ started' = started
    BY <1>2 DEF AttemptReturns
  <2>3. \/ retry' = [retry EXCEPT ![e] = "done"] /\ attempt' = attempt
        \/ AttemptFails(e)
        \/ retry' = [retry EXCEPT ![e] = "failed"] /\ attempt' = attempt
    BY <1>2 DEF AttemptReturns
  <2> QED
    BY <2>1, <2>2, <2>3, ReFails, ReKeeps
<1>3. ASSUME NEW e \in Handled, AttemptTimesOut(e)
      PROVE  ReIInv'
  <2>1. /\ retry[e] = "waiting" /\ AttemptFails(e) /\ started' = started
        /\ inflight' = [inflight EXCEPT ![e] = inflight[e]]
    BY <1>3, <1>t DEF AttemptTimesOut
  <2> QED
    BY <1>t, <2>1, ReFails
<1>4. ASSUME NEW e \in Handled, StragglerReturns(e)
      PROVE  ReIInv'
  <2>1. inflight[e] - 1 \in Nat /\ (retry[e] = "waiting" => inflight[e] - 1 >= 1)
    BY <1>4, <1>t DEF StragglerReturns
  <2>2. /\ inflight' = [inflight EXCEPT ![e] = inflight[e] - 1] /\ started' = started /\ attempt' = attempt
        /\ retry' = retry
    BY <1>4 DEF StragglerReturns
  <2> QED
    BY <2>1, <2>2, ReKeeps
<1>5. ASSUME NEW e \in Handled, RetryCanceled(e)
      PROVE  ReIInv'
  <2>1. /\ retry' = [retry EXCEPT ![e] = "failed"] /\ started' = started /\ attempt' = attempt
        /\ inflight' = [inflight EXCEPT ![e] = inflight[e]]
    BY <1>5, <1>t DEF RetryCanceled
  <2> QED
    BY <1>t, <2>1, ReKeeps
<1>6. ASSUME UNCHANGED retryVars
      PROVE  ReIInv'
  BY <1>6 DEF ReIInv, retryVars, AttemptOK
<1>7. ASSUME BufferNext
      PROVE  UNCHANGED retryVars
  BY <1>7 DEF BufferNext, BufferHandle, FlushOne, FlushTick, BufferClose, FinalFlush, FlushLoopReturns,
              CloseFlush, BufferClosed
<1>8. ASSUME UNCHANGED handlerVars
      PROVE  UNCHANGED retryVars
  BY <1>8 DEF handlerVars
<1> QED
  BY <1>1, <1>2, <1>3, <1>4, <1>5, <1>6, <1>7, <1>8 DEF RetryNext
-----------------------------------------------------------------------------
(* The event handlers: BufferedHandler.                                    *)

\* Every element of all is in one place of one queue, and nothing else is.
OnePlace(q, all) ==
    /\ \A e \in all : \E n \in DOMAIN q : \E i \in DOMAIN q[n] : q[n][i] = e
    /\ \A n, m \in DOMAIN q : \A i \in DOMAIN q[n], j \in DOMAIN q[m] : q[n][i] = q[m][j] => n = m /\ i = j
    /\ \A n \in DOMAIN q : \A i \in DOMAIN q[n] : q[n][i] \in all

\* A whole queue moves to an empty one.
LEMMA MoveQueue ==
    ASSUME NEW q, NEW r, NEW all, NEW from \in DOMAIN q, NEW to \in DOMAIN q, from # to,
           DOMAIN r = DOMAIN q, q[to] = <<>>, r[to] = q[from], r[from] = <<>>,
           \A n \in DOMAIN q \ {from, to} : r[n] = q[n],
           OnePlace(q, all)
    PROVE  OnePlace(r, all)
<1>1. DOMAIN r[from] = {} /\ DOMAIN q[to] = {}
  OBVIOUS
<1> DEFINE back(n) == IF n = to THEN from ELSE n
<1>2. \A n \in DOMAIN r : \A i \in DOMAIN r[n] :
          /\ n # from /\ back(n) \in DOMAIN q /\ i \in DOMAIN q[back(n)] /\ q[back(n)][i] = r[n][i]
  BY <1>1
<1>3. ASSUME NEW n \in DOMAIN r, NEW m \in DOMAIN r, NEW i \in DOMAIN r[n], NEW j \in DOMAIN r[m],
             r[n][i] = r[m][j]
      PROVE  n = m /\ i = j
  <2>1. back(n) = back(m) /\ i = j
    BY <1>2, <1>3 DEF OnePlace
  <2>2. n # from /\ m # from
    BY <1>2
  <2> QED
    BY <2>1, <2>2
<1>4. ASSUME NEW e \in all
      PROVE  \E n \in DOMAIN r : \E i \in DOMAIN r[n] : r[n][i] = e
  <2>1. PICK n \in DOMAIN q : \E i \in DOMAIN q[n] : q[n][i] = e
    BY DEF OnePlace
  <2>2. PICK i \in DOMAIN q[n] : q[n][i] = e
    BY <2>1
  <2>3. n # to
    BY <1>1
  <2>4. CASE n = from
    BY <2>2, <2>4
  <2>5. CASE n # from
    BY <2>2, <2>3, <2>5
  <2> QED
    BY <2>4, <2>5
<1>5. \A n \in DOMAIN r : \A i \in DOMAIN r[n] : r[n][i] \in all
  BY <1>2 DEF OnePlace
<1> QED
  BY <1>3, <1>4, <1>5 DEF OnePlace

\* A new element at the end of a queue.
LEMMA AppendNew ==
    ASSUME NEW S, NEW q, NEW r, NEW all, NEW to \in DOMAIN q, q[to] \in Seq(S), NEW e \in S, e \notin all,
           DOMAIN r = DOMAIN q, r[to] = Append(q[to], e),
           \A n \in DOMAIN q \ {to} : r[n] = q[n],
           OnePlace(q, all)
    PROVE  OnePlace(r, all \cup {e})
<1> DEFINE k == Len(q[to]) + 1
<1>1. /\ DOMAIN r[to] = DOMAIN q[to] \cup {k} /\ k \notin DOMAIN q[to] /\ r[to][k] = e
      /\ \A i \in DOMAIN q[to] : r[to][i] = q[to][i]
  BY AppendProperties
<1> HIDE DEF k
<1>2. \A n \in DOMAIN r : \A i \in DOMAIN r[n] :
          \/ n = to /\ i = k /\ r[n][i] = e
          \/ i \in DOMAIN q[n] /\ r[n][i] = q[n][i] /\ q[n][i] \in all
  BY <1>1 DEF OnePlace
<1>3. ASSUME NEW n \in DOMAIN r, NEW m \in DOMAIN r, NEW i \in DOMAIN r[n], NEW j \in DOMAIN r[m],
             r[n][i] = r[m][j]
      PROVE  n = m /\ i = j
  <2>1. CASE r[n][i] = e
    <3>1. n = to /\ i = k
      BY <1>2, <2>1
    <3>2. r[m][j] = e
      BY <1>3, <2>1
    <3>3. m = to /\ j = k
      BY <1>2, <3>2
    <3> QED
      BY <3>1, <3>3
  <2>2. CASE r[n][i] # e
    <3>1. i \in DOMAIN q[n] /\ r[n][i] = q[n][i]
      BY <1>2, <2>2
    <3>2. r[m][j] # e
      BY <1>3, <2>2
    <3>3. j \in DOMAIN q[m] /\ r[m][j] = q[m][j]
      BY <1>2, <3>2
    <3>4. q[n][i] = q[m][j] /\ n \in DOMAIN q /\ m \in DOMAIN q
      BY <1>3, <3>1, <3>3
    <3> QED
      BY <3>1, <3>3, <3>4 DEF OnePlace
  <2> QED
    BY <2>1, <2>2
<1>4. ASSUME NEW d \in all \cup {e}
      PROVE  \E n \in DOMAIN r : \E i \in DOMAIN r[n] : r[n][i] = d
  <2>1. CASE d = e
    BY <1>1, <2>1
  <2>2. CASE d \in all
    <3>1. PICK n \in DOMAIN q : \E i \in DOMAIN q[n] : q[n][i] = d
      BY <2>2 DEF OnePlace
    <3>2. PICK i \in DOMAIN q[n] : q[n][i] = d
      BY <3>1
    <3> QED
      BY <1>1, <3>2
  <2> QED
    BY <2>1, <2>2
<1>5. \A n \in DOMAIN r : \A i \in DOMAIN r[n] : r[n][i] \in all \cup {e}
  BY <1>2
<1> QED
  BY <1>3, <1>4, <1>5 DEF OnePlace

\* The first element of a queue goes to the end of another.
LEMMA MoveHead ==
    ASSUME NEW S, NEW q, NEW r, NEW all, NEW from \in DOMAIN q, NEW to \in DOMAIN q, from # to,
           q[to] \in Seq(S), q[from] \in Seq(S), q[from] # <<>>,
           DOMAIN r = DOMAIN q, r[to] = Append(q[to], Head(q[from])), r[from] = Tail(q[from]),
           \A n \in DOMAIN q \ {from, to} : r[n] = q[n],
           OnePlace(q, all)
    PROVE  OnePlace(r, all)
<1> DEFINE k == Len(q[to]) + 1
           l == Len(q[from])
<1>1. /\ l \in Nat \ {0} /\ Head(q[from]) = q[from][1] /\ q[from][1] \in S /\ DOMAIN q[from] = 1..l
      /\ DOMAIN r[from] = 1..(l - 1)
      /\ \A i \in 1..(l - 1) : r[from][i] = q[from][i + 1]
  BY HeadTailProperties
<1>2. /\ DOMAIN r[to] = DOMAIN q[to] \cup {k} /\ k \notin DOMAIN q[to] /\ r[to][k] = q[from][1]
      /\ \A i \in DOMAIN q[to] : r[to][i] = q[to][i]
  BY <1>1, AppendProperties
<1> HIDE DEF k, l
\* Where the element of a place of r was in q.
<1> DEFINE bn(n, i) == IF n = to /\ i = k THEN from ELSE n
           bi(n, i) == IF n = to /\ i = k THEN 1 ELSE IF n = from THEN i + 1 ELSE i
<1>3. ASSUME NEW n \in DOMAIN r, NEW i \in DOMAIN r[n]
      PROVE  bn(n, i) \in DOMAIN q /\ bi(n, i) \in DOMAIN q[bn(n, i)] /\ q[bn(n, i)][bi(n, i)] = r[n][i]
  <2>1. CASE n = to /\ i = k
    BY <1>1, <1>2, <2>1
  <2>2. CASE n = to /\ i # k
    BY <1>2, <1>3, <2>2
  <2>3. CASE n = from
    <3>1. i \in 1..(l - 1) /\ r[n][i] = q[from][i + 1] /\ i + 1 \in 1..l
      BY <1>1, <1>3, <2>3
    <3>2. bn(n, i) = from /\ bi(n, i) = i + 1
      BY <2>3
    <3> QED
      BY <1>1, <3>1, <3>2
  <2>4. CASE n \notin {from, to}
    BY <1>3, <2>4
  <2> QED
    BY <2>1, <2>2, <2>3, <2>4
<1>4. ASSUME NEW n \in DOMAIN r, NEW m \in DOMAIN r, NEW i \in DOMAIN r[n], NEW j \in DOMAIN r[m],
             r[n][i] = r[m][j]
      PROVE  n = m /\ i = j
  <2>1. q[bn(n, i)][bi(n, i)] = q[bn(m, j)][bi(m, j)]
    BY <1>3, <1>4
  <2>2. /\ bn(n, i) \in DOMAIN q /\ bi(n, i) \in DOMAIN q[bn(n, i)]
        /\ bn(m, j) \in DOMAIN q /\ bi(m, j) \in DOMAIN q[bn(m, j)]
    BY <1>3
  <2> HIDE DEF bn, bi
  <2>3. bn(n, i) = bn(m, j) /\ bi(n, i) = bi(m, j)
    BY <2>1, <2>2 DEF OnePlace
  <2>4. n = from => i \in 1..(l - 1)
    BY <1>1, <1>4
  <2>5. m = from => j \in 1..(l - 1)
    BY <1>1, <1>4
  <2>6. l \in Nat
    BY <1>1
  <2>7. CASE n = to /\ i = k
    <3>1. bn(n, i) = from /\ bi(n, i) = 1
      BY <2>7 DEF bn, bi
    <3>2. CASE m = to /\ j = k
      BY <2>7, <3>2
    <3>3. CASE ~(m = to /\ j = k)
      <4>1. m = from
        BY <2>3, <3>1, <3>3 DEF bn
      <4>2. bi(m, j) = j + 1
        BY <4>1 DEF bi
      <4>3. j + 1 = 1
        BY <2>3, <3>1, <4>2
      <4>4. j \in 1..(l - 1)
        BY <2>5, <4>1
      <4> QED
        BY <2>6, <4>3, <4>4
    <3> QED
      BY <3>2, <3>3
  <2>8. CASE ~(n = to /\ i = k)
    <3>1. bn(n, i) = n
      BY <2>8 DEF bn
    <3>2. CASE m = to /\ j = k
      <4>1. bn(m, j) = from /\ bi(m, j) = 1
        BY <3>2 DEF bn, bi
      <4>2. n = from
        BY <2>3, <3>1, <4>1
      <4>3. bi(n, i) = i + 1
        BY <4>2 DEF bi
      <4> QED
        BY <2>3, <2>4, <2>6, <4>1, <4>2, <4>3
    <3>3. CASE ~(m = to /\ j = k)
      <4>1. n = m
        BY <2>3, <3>1, <3>3 DEF bn
      <4>2. CASE n = from
        <5>1. bi(n, i) = i + 1 /\ bi(m, j) = j + 1
          BY <4>1, <4>2 DEF bi
        <5>2. i + 1 = j + 1
          BY <2>3, <5>1
        <5>3. i \in 1..(l - 1) /\ j \in 1..(l - 1)
          BY <2>4, <2>5, <4>1, <4>2
        <5>4. i = j
          BY <2>6, <5>2, <5>3
        <5> QED
          BY <4>1, <5>4
      <4>3. CASE n # from
        BY <2>3, <2>8, <3>3, <4>1, <4>3 DEF bi
      <4> QED
        BY <4>2, <4>3
    <3> QED
      BY <3>2, <3>3
  <2> QED
    BY <2>7, <2>8
<1>5. ASSUME NEW e \in all
      PROVE  \E n \in DOMAIN r : \E i \in DOMAIN r[n] : r[n][i] = e
  <2>1. PICK n \in DOMAIN q : \E i \in DOMAIN q[n] : q[n][i] = e
    BY DEF OnePlace
  <2>2. PICK i \in DOMAIN q[n] : q[n][i] = e
    BY <2>1
  <2>3. CASE n = from /\ i = 1
    BY <1>2, <2>2, <2>3
  <2>4. CASE n = from /\ i # 1
    <3>1. i - 1 \in 1..(l - 1) /\ i = (i - 1) + 1
      BY <1>1, <2>2, <2>4
    <3>2. r[from][i - 1] = e
      BY <1>1, <2>2, <2>4, <3>1
    <3> QED
      BY <1>1, <3>1, <3>2
  <2>5. CASE n = to
    BY <1>2, <2>2, <2>5
  <2>6. CASE n \notin {from, to}
    BY <2>2, <2>6
  <2> QED
    BY <2>3, <2>4, <2>5, <2>6
<1>6. \A n \in DOMAIN r : \A i \in DOMAIN r[n] : r[n][i] \in all
  <2> HIDE DEF bn, bi
  <2> QED
    BY <1>3 DEF OnePlace
<1> QED
  BY <1>4, <1>5, <1>6 DEF OnePlace
\* Close works in order: the last flush of flushLoop takes what was added
\* before, and what is added afterwards is not waited for.
FlushesInOrder ==
    /\ flushLoop # "ticking" => bufferClose # "open" /\ \A i \in DOMAIN buffer : buffer[i] \notin beforeClose
    /\ flushLoop = "stopped" => taken["flushLoop"] = <<>>
    /\ bufferClose \in {"flushing", "closed"} => flushLoop = "stopped"
    /\ bufferClose \in {"open", "stopping"} => taken["Close"] = <<>>
    /\ \A i \in DOMAIN taken["Close"] : taken["Close"][i] \notin beforeClose

BufferTypeOK ==
    /\ buffer \in Seq(Handled) /\ taken \in [AllFlushers -> Seq(Handled)] /\ batched \in Seq(Handled)
    /\ flushLoop \in {"ticking", "final", "stopped"}
    /\ bufferClose \in {"open", "stopping", "flushing", "closed"}
    /\ buffered \subseteq Handled /\ beforeClose \subseteq buffered

\* The inductive invariant of the buffer.
BfIInv == BufferTypeOK /\ OnePlace(Queues, buffered) /\ FlushesInOrder

\* The flush loop and Close are among those who flush.
LEMMA FlusherNames == /\ "flushLoop" \in AllFlushers /\ "Close" \in AllFlushers
                      /\ "buffer" \notin AllFlushers /\ "batched" \notin AllFlushers
                      /\ \A f \in Flushers : f \in AllFlushers /\ f # "flushLoop" /\ f # "Close"
BY HandlersAssumption DEF AllFlushers

\* The queues by their names.
LEMMA QueueNames ==
    /\ DOMAIN Queues = AllFlushers \cup {"buffer", "batched"}
    /\ Queues["buffer"] = buffer /\ Queues["batched"] = batched
    /\ \A f \in AllFlushers : Queues[f] = taken[f]
BY FlusherNames DEF Queues

\* Nothing is buffered at first.
LEMMA BfInit == HandlersInit => BfIInv
<1> SUFFICES ASSUME HandlersInit PROVE BfIInv
  OBVIOUS
<1>1. /\ buffer = <<>> /\ batched = <<>> /\ taken = [f \in AllFlushers |-> <<>>]
      /\ buffered = {} /\ beforeClose = {} /\ flushLoop = "ticking" /\ bufferClose = "open"
  BY DEF HandlersInit
<1>2. \A n \in DOMAIN Queues : DOMAIN Queues[n] = {}
  BY <1>1, QueueNames
<1>3. OnePlace(Queues, buffered)
  BY <1>1, <1>2 DEF OnePlace
<1>4. BufferTypeOK
  BY <1>1 DEF BufferTypeOK
<1>5. FlushesInOrder
  BY <1>1, FlusherNames DEF FlushesInOrder
<1> QED
  BY <1>3, <1>4, <1>5 DEF BfIInv

\* A flush moves the buffer into the copy of the one that flushes.
LEMMA FlushMoves ==
    ASSUME BufferTypeOK, OnePlace(Queues, buffered), NEW f \in AllFlushers, TakeBuffer(f, buffer),
           batched' = batched, buffered' = buffered
    PROVE  OnePlace(Queues', buffered')
<1>1. /\ taken[f] = <<>> /\ taken' = [taken EXCEPT ![f] = buffer] /\ buffer' = <<>>
  BY DEF TakeBuffer
<1>2. DOMAIN taken = AllFlushers
  BY DEF BufferTypeOK
<1>3. taken'[f] = buffer /\ \A g \in AllFlushers \ {f} : taken'[g] = taken[g]
  BY <1>1, <1>2
<1>4. /\ DOMAIN Queues' = DOMAIN Queues /\ Queues'[f] = Queues["buffer"] /\ Queues[f] = <<>>
      /\ Queues'["buffer"] = <<>>
      /\ \A n \in DOMAIN Queues \ {"buffer", f} : Queues'[n] = Queues[n]
  BY <1>1, <1>3, FlusherNames DEF Queues
<1>5. "buffer" \in DOMAIN Queues /\ f \in DOMAIN Queues /\ f # "buffer"
  BY QueueNames, FlusherNames
<1>6. OnePlace(Queues', buffered)
  BY <1>4, <1>5, MoveQueue
<1> QED
  BY <1>6

\* What one step of the buffer does.
LEMMA BfHandle ==
    ASSUME BfIInv, NEW f \in Flushers, NEW e \in Handled, BufferHandle(f, e)
    PROVE  BfIInv'
<1> USE DEF BfIInv
<1> DEFINE b == Append(buffer, e)
           q == [Queues EXCEPT !["buffer"] = b]
<1>1. /\ taken[f] = <<>> /\ e \notin buffered /\ buffered' = buffered \cup {e} /\ batched' = batched
      /\ flushLoop' = flushLoop /\ bufferClose' = bufferClose
      /\ beforeClose' = IF bufferClose = "open" THEN beforeClose \cup {e} ELSE beforeClose
      /\ TakeBuffer(f, b) \/ (buffer' = b /\ taken' = taken)
  BY DEF BufferHandle
<1>2. /\ b \in Seq(Handled)
      /\ \A i \in DOMAIN b : b[i] = e \/ (i \in DOMAIN buffer /\ b[i] = buffer[i])
  BY AppendProperties DEF BufferTypeOK
<1>3. /\ DOMAIN q = DOMAIN Queues /\ q["buffer"] = b /\ q["batched"] = batched
      /\ \A g \in AllFlushers : q[g] = taken[g]
      /\ \A n \in DOMAIN Queues \ {"buffer"} : q[n] = Queues[n]
  <2>1. "buffer" \in DOMAIN Queues /\ "batched" \in DOMAIN Queues /\ AllFlushers \subseteq DOMAIN Queues
    BY QueueNames
  <2> QED
    BY <2>1, QueueNames, FlusherNames
<1>4. OnePlace(q, buffered \cup {e})
  <2>1. Queues["buffer"] = buffer /\ buffer \in Seq(Handled) /\ "buffer" \in DOMAIN Queues
    BY QueueNames DEF BufferTypeOK
  <2> HIDE DEF q
  <2>2. Queues["buffer"] \in Seq(Handled) /\ q["buffer"] = Append(Queues["buffer"], e)
    BY <1>3, <2>1
  <2> QED
    BY <1>1, <1>3, <2>1, <2>2, AppendNew
<1>f. f \in AllFlushers /\ f # "flushLoop" /\ f # "Close" /\ f # "buffer" /\ f # "batched"
  BY FlusherNames
<1>t. taken \in [AllFlushers -> Seq(Handled)]
  BY DEF BufferTypeOK
<1> HIDE DEF q, b
<1>o. /\ beforeClose' \subseteq buffered' /\ buffered' \subseteq Handled
      /\ bufferClose # "open" => beforeClose' = beforeClose
  BY <1>1 DEF BufferTypeOK
<1>5. CASE TakeBuffer(f, b)
  <2>1. taken' = [taken EXCEPT ![f] = b] /\ buffer' = <<>>
    BY <1>5 DEF TakeBuffer
  <2>2. taken'[f] = b /\ \A g \in AllFlushers \ {f} : taken'[g] = taken[g]
    BY <1>f, <1>t, <2>1
  <2>3. /\ DOMAIN Queues' = DOMAIN q /\ Queues'[f] = q["buffer"] /\ Queues'["buffer"] = <<>>
        /\ q[f] = <<>> /\ \A n \in DOMAIN q \ {"buffer", f} : Queues'[n] = q[n]
    <3>1. /\ Queues'["buffer"] = <<>> /\ Queues'["batched"] = batched /\ Queues'[f] = b
          /\ DOMAIN Queues' = AllFlushers \cup {"buffer", "batched"}
          /\ \A g \in AllFlushers \ {f} : Queues'[g] = taken[g]
      BY <1>1, <1>f, <2>1, <2>2, FlusherNames DEF Queues
    <3> QED
      BY <1>1, <1>3, <1>f, <3>1, QueueNames
  <2>4. OnePlace(Queues', buffered \cup {e})
    <3>1. "buffer" \in DOMAIN q /\ f \in DOMAIN q
      BY <1>3, <1>f, QueueNames
    <3> QED
      BY <1>4, <1>f, <2>3, <3>1, MoveQueue
  <2>5. BufferTypeOK'
    <3>1. taken' \in [AllFlushers -> Seq(Handled)]
      BY <1>2, <1>f, <1>t, <2>1
    <3> QED
      BY <1>1, <1>o, <2>1, <3>1 DEF BufferTypeOK
  <2>6. FlushesInOrder'
    <3>1. taken'["flushLoop"] = taken["flushLoop"] /\ taken'["Close"] = taken["Close"]
      BY <1>f, <2>2, FlusherNames
    <3> QED
      BY <1>1, <1>o, <2>1, <3>1 DEF FlushesInOrder
  <2> QED
    BY <1>1, <2>4, <2>5, <2>6
<1>6. CASE buffer' = b /\ taken' = taken
  <2>1. Queues' = q
    <3>1. Queues' = [n \in AllFlushers \cup {"buffer", "batched"} |-> q[n]]
      BY <1>1, <1>3, <1>6, FlusherNames DEF Queues
    <3>2. q = [n \in DOMAIN q |-> q[n]]
      BY DEF q
    <3> QED
      BY <1>3, <3>1, <3>2, QueueNames
  <2>2. BufferTypeOK'
    BY <1>1, <1>2, <1>o, <1>6 DEF BufferTypeOK
  <2>3. FlushesInOrder'
    <3>1. ASSUME flushLoop # "ticking", NEW i \in DOMAIN b PROVE b[i] \notin beforeClose'
      <4>1. beforeClose' = beforeClose /\ e \notin beforeClose
        BY <1>1, <3>1 DEF FlushesInOrder, BufferTypeOK
      <4> QED
        BY <1>2, <3>1, <4>1 DEF FlushesInOrder
    <3> QED
      BY <1>1, <1>6, <1>o, <3>1 DEF FlushesInOrder
  <2> QED
    BY <1>1, <1>4, <2>1, <2>2, <2>3
<1> QED
  BY <1>1, <1>5, <1>6

\* A flush passes the first of the events it took.
LEMMA BfFlushOne ==
    ASSUME BfIInv, NEW f \in AllFlushers, FlushOne(f)
    PROVE  BfIInv'
<1> USE DEF BfIInv
<1>1. /\ taken[f] # <<>> /\ batched' = Append(batched, Head(taken[f])) /\ taken' = [taken EXCEPT ![f] = Tail(taken[f])]
      /\ buffer' = buffer /\ flushLoop' = flushLoop /\ bufferClose' = bufferClose
      /\ buffered' = buffered /\ beforeClose' = beforeClose
  BY DEF FlushOne
<1>2. taken \in [AllFlushers -> Seq(Handled)] /\ batched \in Seq(Handled)
  BY DEF BufferTypeOK
<1>3. /\ Head(taken[f]) \in Handled /\ Tail(taken[f]) \in Seq(Handled)
      /\ \A i \in DOMAIN Tail(taken[f]) : i + 1 \in DOMAIN taken[f] /\ Tail(taken[f])[i] = taken[f][i + 1]
  <2>1. taken[f] \in Seq(Handled) /\ taken[f] # <<>>
    BY <1>1, <1>2
  <2> HIDE DEF BfIInv
  <2> QED
    BY <2>1, HeadTailProperties
<1>4. taken'[f] = Tail(taken[f]) /\ \A g \in AllFlushers \ {f} : taken'[g] = taken[g]
  BY <1>1, <1>2
<1>5. taken' \in [AllFlushers -> Seq(Handled)] /\ batched' \in Seq(Handled)
  <2>1. taken' \in [AllFlushers -> Seq(Handled)]
    BY <1>1, <1>2, <1>3
  <2>2. batched' \in Seq(Handled)
    BY <1>1, <1>2, <1>3
  <2> QED
    BY <2>1, <2>2
<1>6. BufferTypeOK'
  BY <1>1, <1>5 DEF BufferTypeOK
<1>7. OnePlace(Queues', buffered)
  <2>1. /\ DOMAIN Queues' = AllFlushers \cup {"buffer", "batched"} /\ Queues'["buffer"] = buffer
        /\ Queues'["batched"] = batched' /\ \A g \in AllFlushers : Queues'[g] = taken'[g]
    BY <1>1, FlusherNames DEF Queues
  <2>2. /\ DOMAIN Queues' = DOMAIN Queues /\ Queues'["batched"] = Append(Queues["batched"], Head(Queues[f]))
        /\ Queues'[f] = Tail(Queues[f])
        /\ \A n \in DOMAIN Queues \ {f, "batched"} : Queues'[n] = Queues[n]
    BY <1>1, <1>4, <2>1, QueueNames
  <2>3. /\ f \in DOMAIN Queues /\ "batched" \in DOMAIN Queues /\ f # "batched"
        /\ Queues[f] \in Seq(Handled) /\ Queues[f] # <<>> /\ Queues["batched"] \in Seq(Handled)
    BY <1>1, <1>2, QueueNames, FlusherNames
  <2> QED
    BY <2>2, <2>3, MoveHead
<1>8. FlushesInOrder'
  <2>1. flushLoop = "stopped" => taken'["flushLoop"] = <<>>
    BY <1>1, <1>4, FlusherNames DEF FlushesInOrder
  <2>2. bufferClose \in {"open", "stopping"} => taken'["Close"] = <<>>
    BY <1>1, <1>4, FlusherNames DEF FlushesInOrder
  <2>3. ASSUME NEW i \in DOMAIN taken'["Close"]
        PROVE  taken'["Close"][i] \notin beforeClose
    <3>1. CASE f = "Close"
      <4>1. i + 1 \in DOMAIN taken["Close"] /\ taken'["Close"][i] = taken["Close"][i + 1]
        BY <1>3, <1>4, <3>1
      <4> QED
        BY <4>1 DEF FlushesInOrder
    <3>2. CASE f # "Close"
      <4>1. taken'["Close"] = taken["Close"]
        BY <1>4, <3>2, FlusherNames
      <4> QED
        BY <4>1 DEF FlushesInOrder
    <3> QED
      BY <3>1, <3>2
  <2> QED
    BY <1>1, <2>1, <2>2, <2>3 DEF FlushesInOrder
<1> QED
  BY <1>1, <1>6, <1>7, <1>8

\* A flush by flushLoop or by Close.
LEMMA BfTakes ==
    ASSUME BfIInv, NEW f \in {"flushLoop", "Close"}, TakeBuffer(f, buffer),
           batched' = batched, buffered' = buffered, beforeClose' = beforeClose,
           \/ f = "flushLoop" /\ flushLoop = "ticking" /\ bufferClose' = bufferClose
                /\ \/ flushLoop' = "ticking"
                   \/ flushLoop' = "final" /\ bufferClose = "stopping"
           \/ f = "Close" /\ flushLoop = "stopped" /\ flushLoop' = flushLoop /\ bufferClose' = "flushing"
    PROVE  BfIInv'
<1> USE DEF BfIInv
<1>1. f \in AllFlushers /\ taken[f] = <<>> /\ taken' = [taken EXCEPT ![f] = buffer] /\ buffer' = <<>>
  BY FlusherNames DEF TakeBuffer
<1>2. taken \in [AllFlushers -> Seq(Handled)] /\ buffer \in Seq(Handled)
  BY DEF BufferTypeOK
<1>3. /\ taken' \in [AllFlushers -> Seq(Handled)] /\ taken'[f] = buffer
      /\ \A g \in AllFlushers \ {f} : taken'[g] = taken[g]
  BY <1>1, <1>2
<1>4. BufferTypeOK'
  BY <1>1, <1>3 DEF BufferTypeOK
<1>5. OnePlace(Queues', buffered')
  BY <1>1, FlushMoves
<1>6. FlushesInOrder'
  <2>1. CASE f = "flushLoop"
    <3>1. taken'["Close"] = taken["Close"]
      BY <1>3, <2>1, FlusherNames
    <3>2. flushLoop' # "stopped" /\ DOMAIN buffer' = {} /\ bufferClose' = bufferClose /\ flushLoop = "ticking"
      BY <1>1, <2>1
    <3>3. flushLoop' # "ticking" => bufferClose # "open"
      BY <2>1
    <3> QED
      BY <3>1, <3>2, <3>3 DEF FlushesInOrder
  <2>2. CASE f = "Close"
    <3>1. taken'["flushLoop"] = taken["flushLoop"] /\ taken'["Close"] = buffer
      BY <1>3, <2>2, FlusherNames
    <3>2. flushLoop = "stopped" /\ flushLoop' = "stopped" /\ bufferClose' = "flushing" /\ DOMAIN buffer' = {}
      BY <1>1, <2>2
    <3> QED
      BY <3>1, <3>2 DEF FlushesInOrder
  <2> QED
    BY <2>1, <2>2
<1> QED
  BY <1>4, <1>5, <1>6

\* Every step of the handlers keeps the invariant of the buffer.
LEMMA BfNext == BfIInv /\ [RetryNext \/ BufferNext]_handlerVars => BfIInv'
<1> SUFFICES ASSUME BfIInv, [RetryNext \/ BufferNext]_handlerVars PROVE BfIInv'
  OBVIOUS
<1>s. ASSUME UNCHANGED <<buffer, taken, batched>>
      PROVE  Queues' = Queues
  BY <1>s DEF Queues
<1>1. ASSUME NEW f \in Flushers, NEW e \in Handled, BufferHandle(f, e) PROVE BfIInv'
  BY <1>1, BfHandle
<1>2. ASSUME NEW f \in AllFlushers, FlushOne(f) PROVE BfIInv'
  BY <1>2, BfFlushOne
<1>3. CASE FlushTick
  <2>1. /\ TakeBuffer("flushLoop", buffer) /\ flushLoop = "ticking" /\ flushLoop' = "ticking"
        /\ bufferClose' = bufferClose /\ batched' = batched /\ buffered' = buffered /\ beforeClose' = beforeClose
    BY <1>3 DEF FlushTick
  <2> QED
    BY <2>1, BfTakes
<1>4. CASE BufferClose
  <2>1. OnePlace(Queues', buffered')
    BY <1>4, <1>s DEF BufferClose, BfIInv
  <2>2. BufferTypeOK' /\ FlushesInOrder'
    BY <1>4 DEF BufferClose, BfIInv, BufferTypeOK, FlushesInOrder
  <2> QED
    BY <2>1, <2>2 DEF BfIInv
<1>5. CASE FinalFlush
  <2>1. /\ TakeBuffer("flushLoop", buffer) /\ flushLoop = "ticking" /\ flushLoop' = "final"
        /\ bufferClose = "stopping"
        /\ bufferClose' = bufferClose /\ batched' = batched /\ buffered' = buffered /\ beforeClose' = beforeClose
    BY <1>5 DEF FinalFlush
  <2> QED
    BY <2>1, BfTakes
<1>6. CASE FlushLoopReturns
  <2>1. OnePlace(Queues', buffered')
    BY <1>6, <1>s DEF FlushLoopReturns, BfIInv
  <2>2. BufferTypeOK' /\ FlushesInOrder'
    BY <1>6 DEF FlushLoopReturns, BfIInv, BufferTypeOK, FlushesInOrder
  <2> QED
    BY <2>1, <2>2 DEF BfIInv
<1>7. CASE CloseFlush
  <2>1. /\ TakeBuffer("Close", buffer) /\ flushLoop = "stopped" /\ flushLoop' = flushLoop
        /\ bufferClose' = "flushing" /\ batched' = batched /\ buffered' = buffered /\ beforeClose' = beforeClose
    BY <1>7 DEF CloseFlush
  <2> QED
    BY <2>1, BfTakes
<1>8. CASE BufferClosed
  <2>1. OnePlace(Queues', buffered')
    BY <1>8, <1>s DEF BufferClosed, BfIInv
  <2>2. BufferTypeOK' /\ FlushesInOrder'
    BY <1>8 DEF BufferClosed, BfIInv, BufferTypeOK, FlushesInOrder
  <2> QED
    BY <2>1, <2>2 DEF BfIInv
<1>9. ASSUME UNCHANGED bufferVars PROVE BfIInv'
  <2>1. OnePlace(Queues', buffered')
    BY <1>9, <1>s DEF bufferVars, BfIInv
  <2>2. BufferTypeOK' /\ FlushesInOrder'
    BY <1>9 DEF bufferVars, BfIInv, BufferTypeOK, FlushesInOrder
  <2> QED
    BY <2>1, <2>2 DEF BfIInv
<1>10. ASSUME RetryNext PROVE UNCHANGED bufferVars
  BY <1>10 DEF RetryNext, TryHandle, AttemptReturns, AttemptTimesOut, StragglerReturns, RetryCanceled
<1>11. ASSUME UNCHANGED handlerVars PROVE UNCHANGED bufferVars
  BY <1>11 DEF handlerVars
<1> QED
  BY <1>1, <1>2, <1>3, <1>4, <1>5, <1>6, <1>7, <1>8, <1>9, <1>10, <1>11 DEF BufferNext

\* A set of places of one element, and what Close leaves behind.
LEMMA BfSafe == ReIInv /\ BfIInv => HandlersTypeOK /\ AttemptsBounded /\ BufferedOnce /\ CloseFlushes
<1> SUFFICES ASSUME ReIInv, BfIInv PROVE HandlersTypeOK /\ AttemptsBounded /\ BufferedOnce /\ CloseFlushes
  OBVIOUS
<1>1. HandlersTypeOK
  BY DEF ReIInv, BfIInv, BufferTypeOK, HandlersTypeOK
<1>2. AttemptsBounded
  BY DEF ReIInv, AttemptOK, AttemptsBounded
<1>3. BufferedOnce
  <2> SUFFICES ASSUME NEW e \in Handled
               PROVE  Cardinality(Places(e)) = (IF e \in buffered THEN 1 ELSE 0)
    BY DEF BufferedOnce
  <2> DEFINE q == Queues
             at(n) == {i \in DOMAIN q[n] : q[n][i] = e}
  <2>1. OnePlace(q, buffered)
    BY DEF BfIInv
  <2>2. \A pl : pl \in Places(e) <=> \E n \in DOMAIN q : \E i \in DOMAIN q[n] : q[n][i] = e /\ pl = <<n, i>>
    <3>1. Places(e) = UNION {{n} \X at(n) : n \in DOMAIN q}
      BY DEF Places
    <3> HIDE DEF q
    <3>2. \A n, pl : pl \in {n} \X at(n) <=> \E i \in DOMAIN q[n] : q[n][i] = e /\ pl = <<n, i>>
      OBVIOUS
    <3> HIDE DEF at
    <3> QED
      BY <3>1, <3>2
  <2> HIDE DEF q, at
  <2>3. CASE e \in buffered
    <3>1. PICK n \in DOMAIN q : \E i \in DOMAIN q[n] : q[n][i] = e
      BY <2>1, <2>3 DEF OnePlace
    <3>2. PICK i \in DOMAIN q[n] : q[n][i] = e
      BY <3>1
    <3>3. \A m \in DOMAIN q : \A j \in DOMAIN q[m] : q[m][j] = e => m = n /\ j = i
      BY <2>1, <3>2 DEF OnePlace
    <3>4. Places(e) = {<<n, i>>}
      BY <2>2, <3>2, <3>3
    <3>5. Cardinality(Places(e)) = 1
      BY <3>4, FS_Singleton
    <3> QED
      BY <2>3, <3>5
  <2>4. CASE e \notin buffered
    <3>1. Places(e) = {}
      BY <2>1, <2>2, <2>4 DEF OnePlace
    <3>2. Cardinality(Places(e)) = 0
      BY <3>1, FS_EmptySet
    <3> QED
      BY <2>4, <3>2
  <2> QED
    BY <2>3, <2>4
<1>4. CloseFlushes
  <2> SUFFICES ASSUME bufferClose = "closed", NEW e \in beforeClose
               PROVE  \/ \E i \in DOMAIN batched : batched[i] = e
                      \/ \E f \in Flushers : \E i \in DOMAIN taken[f] : taken[f][i] = e
    BY DEF CloseFlushes
  <2>1. e \in buffered /\ OnePlace(Queues, buffered)
    BY DEF BfIInv, BufferTypeOK
  <2>2. PICK n \in DOMAIN Queues : \E i \in DOMAIN Queues[n] : Queues[n][i] = e
    BY <2>1 DEF OnePlace
  <2>3. PICK i \in DOMAIN Queues[n] : Queues[n][i] = e
    BY <2>2
  <2>4. flushLoop = "stopped" /\ taken["flushLoop"] = <<>>
    BY DEF BfIInv, FlushesInOrder
  <2>5. n # "buffer"
    BY <2>3, <2>4, QueueNames DEF BfIInv, FlushesInOrder
  <2>6. n # "Close"
    BY <2>3, QueueNames, FlusherNames DEF BfIInv, FlushesInOrder
  <2>7. n # "flushLoop"
    <3>1. DOMAIN taken["flushLoop"] = {}
      BY <2>4
    <3> QED
      BY <2>3, <3>1, QueueNames, FlusherNames
  <2>8. n \in Flushers \/ n = "batched"
    BY <2>5, <2>6, <2>7, QueueNames DEF AllFlushers
  <2>9. CASE n = "batched"
    BY <2>3, <2>9, QueueNames
  <2>10. CASE n \in Flushers
    BY <2>3, <2>10, QueueNames, FlusherNames
  <2> QED
    BY <2>8, <2>9, <2>10
<1> QED
  BY <1>1, <1>2, <1>3, <1>4

\* An event given to the handlers is tried as often as RetryHandler allows,
\* leaves the buffer once, and is handled before Close returns unless a caller
\* that filled a batch has it (handler.go).
LEMMA HandlersStaySafe == HandlersSpec => [](HandlersTypeOK /\ AttemptsBounded /\ BufferedOnce /\ CloseFlushes)
<1>1. HandlersSpec => []ReIInv
  BY ReInit, ReNext, PTL DEF HandlersSpec
<1>2. HandlersSpec => []BfIInv
  BY BfInit, BfNext, PTL DEF HandlersSpec
<1> QED
  BY <1>1, <1>2, BfSafe, PTL
-----------------------------------------------------------------------------
(* The event middleware.                                                   *)

MiddlewareTypes ==
    /\ clock \in 0..MaxTime /\ entered \in 0..MaxPasses
    /\ seenEvents \subseteq EventIds \X (0..MaxTime)
    /\ allowed \subseteq Sources /\ blocked \subseteq Sources
    /\ passed \in Seq(EventIds \X (0..MaxTime)) /\ cleared \in 0..Len(passed)

\* The events passed in the order of their times.
PassedInOrder ==
    \A i, j \in 1..Len(passed) : passed[j][2] <= clock /\ (i <= j => passed[i][2] <= passed[j][2])

\* The rate limit remembers every event that still counts.
RateRemembers ==
    /\ events \subseteq 1..Len(passed) /\ Cardinality(events) <= MaxEvents
    /\ \A i \in 1..Len(passed) : InWindow(passed[i][2]) => i \in events

\* The events of the window that starts with the i-th.
WindowFrom(i) == {j \in 1..Len(passed) : j >= i /\ passed[j][2] < passed[i][2] + Window}

WindowsBounded == \A i \in 1..Len(passed) : Cardinality(WindowFrom(i)) <= MaxEvents

\* The deduplication remembers every event within the ttl.
TtlRemembers ==
    \A i \in 1..Len(passed) : cleared < i /\ passed[i][2] + Ttl >= clock => passed[i] \in seenEvents

\* The inductive invariant of the middleware.
MwIInv ==
    /\ MiddlewareTypes /\ PassedInOrder /\ RateRemembers /\ WindowsBounded
    /\ TtlRemembers /\ NoDuplicateWithinTtl

\* The constants and the lengths as numbers.
LEMMA MwNumbers ==
    ASSUME MiddlewareTypes
    PROVE  /\ MaxEvents \in Nat \ {0} /\ Window \in Nat \ {0} /\ Ttl \in Nat \ {0}
           /\ clock \in Nat /\ Len(passed) \in Nat /\ cleared \in Nat /\ cleared <= Len(passed)
           /\ DOMAIN passed = 1..Len(passed)
           /\ \A i \in 1..Len(passed) : passed[i][1] \in EventIds /\ passed[i][2] \in Nat
<1>1. MaxEvents \in Nat \ {0} /\ Window \in Nat \ {0} /\ Ttl \in Nat \ {0}
  BY MiddlewareAssumption
<1>2. passed \in Seq(EventIds \X (0..MaxTime)) /\ clock \in Nat /\ cleared \in 0..Len(passed)
  BY DEF MiddlewareTypes
<1>3. Len(passed) \in Nat /\ DOMAIN passed = 1..Len(passed)
  BY <1>2
<1>4. \A i \in 1..Len(passed) : passed[i] \in EventIds \X (0..MaxTime)
  BY <1>2, ElementOfSeq
<1>5. \A i \in 1..Len(passed) : passed[i][1] \in EventIds /\ passed[i][2] \in Nat
  BY <1>4
<1> QED
  BY <1>1, <1>2, <1>3, <1>5

\* Nothing has passed at first.
LEMMA MwInit == MiddlewareInit => MwIInv
<1> SUFFICES ASSUME MiddlewareInit PROVE MwIInv
  OBVIOUS
<1>1. /\ passed = <<>> /\ Len(passed) = 0 /\ events = {} /\ cleared = 0 /\ clock = 0 /\ entered = 0
      /\ seenEvents = {} /\ allowed = {} /\ blocked = {} /\ DOMAIN passed = {}
  BY DEF MiddlewareInit
<1>2. Cardinality(events) = 0 /\ MaxEvents \in Nat
  BY <1>1, FS_EmptySet, MiddlewareAssumption
<1>3. MiddlewareTypes
  BY <1>1, MiddlewareAssumption DEF MiddlewareTypes
<1>4. PassedInOrder /\ WindowsBounded /\ TtlRemembers /\ NoDuplicateWithinTtl
  BY <1>1 DEF PassedInOrder, WindowsBounded, TtlRemembers, NoDuplicateWithinTtl
<1>5. RateRemembers
  BY <1>1, <1>2 DEF RateRemembers
<1> QED
  BY <1>3, <1>4, <1>5 DEF MwIInv

\* Pruning keeps what is in the window, and a finite set of at most as many.
LEMMA MwRecent ==
    ASSUME MwIInv
    PROVE  /\ IsFiniteSet(RecentEvents) /\ Cardinality(RecentEvents) \in Nat
           /\ Cardinality(RecentEvents) <= MaxEvents
           /\ RecentEvents \subseteq 1..Len(passed)
           /\ \A i \in 1..Len(passed) : InWindow(passed[i][2]) <=> i \in RecentEvents
<1>1. events \subseteq 1..Len(passed) /\ Len(passed) \in Nat /\ MaxEvents \in Nat
  BY MwNumbers DEF MwIInv, RateRemembers
<1>2. IsFiniteSet(1..Len(passed))
  BY <1>1, FS_Interval
<1>3. IsFiniteSet(events)
  BY <1>1, <1>2, FS_Subset
<1>4. RecentEvents \subseteq events
  BY DEF RecentEvents
<1>5. IsFiniteSet(RecentEvents) /\ Cardinality(RecentEvents) <= Cardinality(events)
  BY <1>3, <1>4, FS_Subset
<1>6. Cardinality(RecentEvents) \in Nat /\ Cardinality(events) \in Nat
  BY <1>3, <1>5, FS_CardinalityType
<1>7. Cardinality(events) <= MaxEvents
  BY DEF MwIInv, RateRemembers
<1>8. \A i \in 1..Len(passed) : InWindow(passed[i][2]) <=> i \in RecentEvents
  BY <1>1 DEF MwIInv, RateRemembers, RecentEvents
<1>9. Cardinality(RecentEvents) <= MaxEvents
  BY <1>1, <1>5, <1>6, <1>7
<1> QED
  BY <1>1, <1>4, <1>5, <1>6, <1>8, <1>9

\* A step in which no event passes and nothing in the window is forgotten.
LEMMA MwKeeps ==
    ASSUME MwIInv, MiddlewareTypes', passed' = passed, clock' >= clock,
           events' = RecentEvents \/ events' = events,
           cleared' >= cleared, TtlRemembers'
    PROVE  MwIInv'
<1>1. /\ MaxEvents \in Nat \ {0} /\ Window \in Nat \ {0} /\ clock \in Nat /\ clock' \in Nat
      /\ Len(passed) \in Nat /\ cleared \in Nat /\ cleared' \in Nat
      /\ \A i \in 1..Len(passed) : passed[i][2] \in Nat
  <2>1. MiddlewareTypes
    BY DEF MwIInv
  <2>2. clock' \in Nat /\ cleared' \in Nat
    BY DEF MiddlewareTypes
  <2> QED
    BY <2>1, <2>2, MwNumbers
<1>2. PassedInOrder'
  BY <1>1 DEF MwIInv, PassedInOrder
<1>3. WindowsBounded'
  BY DEF MwIInv, WindowsBounded, WindowFrom
<1>4. NoDuplicateWithinTtl'
  <2>1. DOMAIN passed' = 1..Len(passed)
    BY MwNumbers DEF MwIInv
  <2>2. \A i \in DOMAIN passed' : i \in Nat /\ (cleared' < i => cleared < i)
    BY <1>1, <2>1
  <2> QED
    BY <2>2 DEF MwIInv, NoDuplicateWithinTtl
<1>5. RateRemembers'
  <2>1. events' \subseteq 1..Len(passed) /\ Cardinality(events') <= MaxEvents
    BY MwRecent DEF MwIInv, RateRemembers
  <2>2. \A i \in 1..Len(passed) : InWindow(passed[i][2])' => InWindow(passed[i][2])
    BY <1>1 DEF InWindow
  <2>3. \A i \in 1..Len(passed) : InWindow(passed[i][2])' => i \in events'
    BY <2>2, MwRecent DEF MwIInv, RateRemembers
  <2> QED
    BY <2>1, <2>3 DEF RateRemembers, InWindow
<1> QED
  BY <1>2, <1>3, <1>4, <1>5 DEF MwIInv
\* An event that passes the whole chain: fewer than maxEvents are remembered,
\* and no live entry has its identifier.
LEMMA MwPasses ==
    ASSUME MwIInv, NEW id \in EventIds, ~SeenBefore(id), RateLimitPasses, ChainPasses(id),
           seenEvents' = LiveSeen \cup {<<id, clock>>}, MiddlewareTypes',
           clock' = clock, cleared' = cleared
    PROVE  MwIInv'
<1> DEFINE n == Len(passed) + 1
<1>1. /\ MaxEvents \in Nat \ {0} /\ Window \in Nat \ {0} /\ Ttl \in Nat \ {0} /\ clock \in Nat
      /\ Len(passed) \in Nat /\ cleared \in Nat /\ cleared <= Len(passed)
      /\ \A i \in 1..Len(passed) : passed[i][1] \in EventIds /\ passed[i][2] \in Nat
  BY MwNumbers DEF MwIInv
<1>2. /\ Len(passed') = n /\ DOMAIN passed' = 1..n /\ passed'[n] = <<id, clock>>
      /\ \A i \in 1..Len(passed) : passed'[i] = passed[i]
  <2>1. passed \in Seq(EventIds \X (0..MaxTime)) /\ <<id, clock>> \in EventIds \X (0..MaxTime)
    BY DEF MwIInv, MiddlewareTypes
  <2> QED
    BY <2>1, AppendProperties DEF ChainPasses
<1>3. n \in Nat /\ n \notin 1..Len(passed) /\ \A i \in 1..n : i = n \/ (i \in 1..Len(passed) /\ i < n)
  BY <1>1
<1>n. passed'[n][1] = id /\ passed'[n][2] = clock
  BY <1>2
<1>p. events' = RecentEvents \cup {n}
  BY DEF ChainPasses
<1> HIDE DEF n
<1>r. /\ IsFiniteSet(RecentEvents) /\ Cardinality(RecentEvents) \in Nat
      /\ RecentEvents \subseteq 1..Len(passed)
      /\ \A i \in 1..Len(passed) : InWindow(passed[i][2]) <=> i \in RecentEvents
      /\ Cardinality(RecentEvents) < MaxEvents
  BY MwRecent DEF RateLimitPasses
<1>c. IsFiniteSet(RecentEvents \cup {n}) /\ Cardinality(RecentEvents \cup {n}) <= MaxEvents
  <2>1. /\ IsFiniteSet(RecentEvents \cup {n})
        /\ Cardinality(RecentEvents \cup {n})
              = IF n \in RecentEvents THEN Cardinality(RecentEvents) ELSE Cardinality(RecentEvents) + 1
    BY <1>r, FS_AddElement
  <2> QED
    BY <1>1, <1>r, <2>1
<1>o. \A i, j \in 1..Len(passed) : passed[j][2] <= clock /\ (i <= j => passed[i][2] <= passed[j][2])
  BY DEF MwIInv, PassedInOrder
<1>4. PassedInOrder'
  <2> SUFFICES ASSUME NEW i \in 1..n, NEW j \in 1..n
               PROVE  passed'[j][2] <= clock /\ (i <= j => passed'[i][2] <= passed'[j][2])
    BY <1>2 DEF PassedInOrder
  <2>1. \A k \in 1..n : passed'[k][2] <= clock
    BY <1>1, <1>2, <1>3, <1>n, <1>o
  <2>2. CASE j = n
    BY <1>n, <2>1, <2>2
  <2>3. CASE j # n
    <3>1. j \in 1..Len(passed)
      BY <1>3, <2>3
    <3>2. i <= j => i \in 1..Len(passed)
      BY <1>1, <3>1
    <3> QED
      BY <1>2, <1>o, <2>1, <3>1, <3>2
  <2> QED
    BY <2>2, <2>3
<1>5. RateRemembers'
  <2>1. events' \subseteq 1..n
    <3>1. n \in 1..n /\ 1..Len(passed) \subseteq 1..n
      BY <1>1 DEF n
    <3> QED
      BY <1>p, <1>r, <3>1
  <2>2. \A i \in 1..n : InWindow(passed'[i][2]) => i \in events'
    BY <1>2, <1>3, <1>p, <1>r
  <2>3. Cardinality(events') <= MaxEvents
    BY <1>c, <1>p
  <2>4. \A i \in 1..n : InWindow(passed[i][2])' <=> InWindow(passed'[i][2])
    BY DEF InWindow
  <2> QED
    BY <1>2, <2>1, <2>2, <2>3, <2>4 DEF RateRemembers
<1>6. WindowsBounded'
  <2> SUFFICES ASSUME NEW i \in 1..n PROVE Cardinality(WindowFrom(i)') <= MaxEvents
    BY <1>2 DEF WindowsBounded, WindowFrom
  <2>1. WindowFrom(i)' = {j \in 1..n : j >= i /\ passed'[j][2] < passed'[i][2] + Window}
    BY <1>2 DEF WindowFrom
  \* A window the event falls into has begun within the time the limit remembers.
  <2>2. CASE clock < passed'[i][2] + Window
    <3>1. WindowFrom(i)' \subseteq RecentEvents \cup {n}
      <4> SUFFICES ASSUME NEW j \in 1..n, j >= i, j # n PROVE j \in RecentEvents
        BY <2>1
      <4>1. j \in 1..Len(passed) /\ i \in 1..Len(passed) /\ i <= j
        BY <1>1, <1>3
      <4>2. passed[i][2] <= passed[j][2] /\ passed[i][2] \in Nat /\ passed[j][2] \in Nat
        BY <1>1, <1>o, <4>1
      <4>3. clock < passed[i][2] + Window
        BY <1>2, <2>2, <4>1
      <4>4. InWindow(passed[j][2])
        BY <1>1, <4>2, <4>3 DEF InWindow
      <4> QED
        BY <1>r, <4>1, <4>4
    <3>2. Cardinality(WindowFrom(i)') <= Cardinality(RecentEvents \cup {n}) /\ IsFiniteSet(WindowFrom(i)')
      BY <1>c, <3>1, FS_Subset
    <3>3. Cardinality(WindowFrom(i)') \in Nat /\ Cardinality(RecentEvents \cup {n}) \in Nat
      BY <1>c, <3>2, FS_CardinalityType
    <3> QED
      BY <1>1, <1>c, <3>2, <3>3
  <2>3. CASE ~(clock < passed'[i][2] + Window)
    <3>1. i \in 1..Len(passed)
      BY <1>1, <1>3, <1>n, <2>3
    <3>2. WindowFrom(i)' = WindowFrom(i)
      <4>1. \A j \in 1..n : j >= i /\ passed'[j][2] < passed'[i][2] + Window
                <=> j \in 1..Len(passed) /\ j >= i /\ passed[j][2] < passed[i][2] + Window
        BY <1>2, <1>3, <1>n, <2>3, <3>1
      <4>2. 1..Len(passed) \subseteq 1..n
        BY <1>1 DEF n
      <4> QED
        BY <2>1, <4>1, <4>2 DEF WindowFrom
    <3> QED
      BY <3>1, <3>2 DEF MwIInv, WindowsBounded
  <2> QED
    BY <2>2, <2>3
<1>7. TtlRemembers'
  <2> SUFFICES ASSUME NEW i \in 1..n, cleared < i, passed'[i][2] + Ttl >= clock
               PROVE  passed'[i] \in seenEvents'
    BY <1>2 DEF TtlRemembers
  <2>1. CASE i = n
    BY <1>2, <2>1
  <2>2. CASE i # n
    <3>1. i \in 1..Len(passed) /\ passed'[i] = passed[i]
      BY <1>2, <1>3, <2>2
    <3>2. passed[i] \in seenEvents
      BY <3>1 DEF MwIInv, TtlRemembers
    <3> QED
      BY <3>1, <3>2 DEF LiveSeen
  <2> QED
    BY <2>1, <2>2
<1>8. NoDuplicateWithinTtl'
  <2> SUFFICES ASSUME NEW i \in 1..n, NEW j \in 1..n, cleared < i, i < j, passed'[i][1] = passed'[j][1]
               PROVE  passed'[j][2] > passed'[i][2] + Ttl
    BY <1>2 DEF NoDuplicateWithinTtl
  <2>1. i \in 1..Len(passed) /\ passed'[i] = passed[i]
    <3>1. i \in 1..Len(passed)
      BY <1>1, <1>3
    <3> QED
      BY <1>2, <3>1
  <2>2. CASE j = n
    <3>1. passed[i][1] = id
      BY <1>n, <2>1, <2>2
    <3>2. passed[i][2] \in Nat
      BY <1>1, <2>1
    <3>3. passed[i] \notin LiveSeen
      BY <3>1 DEF SeenBefore
    <3>4. ~(passed[i][2] + Ttl >= clock)
      BY <2>1, <3>3 DEF MwIInv, TtlRemembers, LiveSeen
    <3>5. passed'[j][2] = clock /\ passed'[i][2] = passed[i][2]
      BY <1>n, <2>1, <2>2
    <3> QED
      BY <1>1, <3>2, <3>4, <3>5
  <2>3. CASE j # n
    <3>1. j \in 1..Len(passed) /\ passed'[j] = passed[j]
      BY <1>2, <1>3, <2>3
    <3>2. DOMAIN passed = 1..Len(passed)
      BY MwNumbers DEF MwIInv
    <3> QED
      BY <2>1, <3>1, <3>2 DEF MwIInv, NoDuplicateWithinTtl
  <2> QED
    BY <2>2, <2>3
<1> QED
  BY <1>4, <1>5, <1>6, <1>7, <1>8 DEF MwIInv

\* An event goes through the chain.
LEMMA MwChain ==
    ASSUME MwIInv, NEW id \in EventIds, Chain(id)
    PROVE  MwIInv'
<1>1. MiddlewareTypes /\ cleared \in Nat /\ Len(passed) \in Nat /\ clock \in Nat
  BY MwNumbers DEF MwIInv
<1>2. /\ entered' = entered + 1 /\ entered < MaxPasses /\ clock' = clock
      /\ allowed' = allowed /\ blocked' = blocked /\ cleared' = cleared
  BY DEF Chain
<1>3. entered' \in 0..MaxPasses
  BY <1>1, <1>2, MiddlewareAssumption DEF MiddlewareTypes
<1>4. LiveSeen \subseteq seenEvents /\ LiveSeen \cup {<<id, clock>>} \subseteq EventIds \X (0..MaxTime)
  BY <1>1 DEF LiveSeen, MiddlewareTypes
<1>5. ASSUME passed' = passed, LiveSeen \subseteq seenEvents' \/ seenEvents' = seenEvents,
             seenEvents' \subseteq EventIds \X (0..MaxTime),
             events' = RecentEvents \/ events' = events
      PROVE  MwIInv'
  <2>1. MiddlewareTypes'
    BY <1>1, <1>2, <1>3, <1>5 DEF MiddlewareTypes
  <2>2. TtlRemembers'
    <3> SUFFICES ASSUME NEW i \in 1..Len(passed), cleared < i, passed[i][2] + Ttl >= clock
                 PROVE  passed[i] \in seenEvents'
      BY <1>2, <1>5 DEF TtlRemembers
    <3>1. passed[i] \in seenEvents
      BY DEF MwIInv, TtlRemembers
    <3> QED
      BY <1>5, <3>1 DEF LiveSeen
  <2>3. clock' >= clock /\ cleared' >= cleared
    BY <1>1, <1>2
  <2> QED
    BY <1>5, <2>1, <2>2, <2>3, MwKeeps
<1>6. CASE UNCHANGED <<events, seenEvents, passed>>
  BY <1>1, <1>5, <1>6 DEF MiddlewareTypes
<1>7. CASE seenEvents' = LiveSeen /\ UNCHANGED <<events, passed>>
  BY <1>4, <1>5, <1>7
<1>8. CASE /\ ~SeenBefore(id)
           /\ seenEvents' = LiveSeen \cup {<<id, clock>>}
           /\ IF RateLimitPasses THEN ChainPasses(id) ELSE events' = RecentEvents /\ UNCHANGED passed
  <2>1. CASE RateLimitPasses
    <3>1. ChainPasses(id)
      BY <1>8, <2>1
    <3>2. passed' = Append(passed, <<id, clock>>)
      BY <3>1 DEF ChainPasses
    <3>3. passed' \in Seq(EventIds \X (0..MaxTime)) /\ Len(passed') = Len(passed) + 1
      BY <1>1, <3>2 DEF MiddlewareTypes
    <3>4. cleared' \in 0..Len(passed')
      BY <1>1, <1>2, <3>3 DEF MiddlewareTypes
    <3>5. MiddlewareTypes'
      BY <1>1, <1>2, <1>3, <1>4, <1>8, <3>3, <3>4 DEF MiddlewareTypes
    <3> QED
      BY <1>2, <1>8, <2>1, <3>1, <3>5, MwPasses
  <2>2. CASE ~RateLimitPasses
    BY <1>4, <1>5, <1>8, <2>2
  <2> QED
    BY <2>1, <2>2
<1> QED
  BY <1>6, <1>7, <1>8 DEF Chain

\* Every step of the middleware keeps its invariant.
LEMMA MwNext == MwIInv /\ [MiddlewareNext]_mwVars => MwIInv'
<1> SUFFICES ASSUME MwIInv, [MiddlewareNext]_mwVars PROVE MwIInv'
  OBVIOUS
<1>1. MiddlewareTypes /\ cleared \in Nat /\ cleared <= Len(passed) /\ Len(passed) \in Nat /\ clock \in Nat
  BY MwNumbers DEF MwIInv
<1>2. \A id \in EventIds : Chain(id) => MwIInv'
  BY MwChain
<1>3. CASE Tick
  <2>1. /\ clock' = clock + 1 /\ clock < MaxTime /\ passed' = passed /\ events' = events
        /\ seenEvents' = seenEvents /\ cleared' = cleared
    BY <1>3 DEF Tick
  <2>2. MiddlewareTypes'
    BY <1>1, <1>3, MiddlewareAssumption DEF Tick, MiddlewareTypes
  <2>3. TtlRemembers'
    <3>1. Ttl \in Nat /\ \A i \in 1..Len(passed) : passed[i][2] \in Nat
      BY <1>1, MwNumbers
    <3>2. \A i \in 1..Len(passed) : passed[i][2] + Ttl >= clock + 1 => passed[i][2] + Ttl >= clock
      BY <1>1, <3>1
    <3> QED
      BY <2>1, <3>2 DEF MwIInv, TtlRemembers
  <2> QED
    BY <1>1, <2>1, <2>2, <2>3, MwKeeps
<1>4. CASE ClearSeen
  <2>1. /\ clock' = clock /\ passed' = passed /\ events' = events /\ cleared' = Len(passed) /\ seenEvents' = {}
    BY <1>4 DEF ClearSeen
  <2>2. MiddlewareTypes'
    BY <1>1, <1>4 DEF ClearSeen, MiddlewareTypes
  <2>3. TtlRemembers'
    BY <1>1, <2>1 DEF TtlRemembers
  <2> QED
    BY <1>1, <2>1, <2>2, <2>3, MwKeeps
<1>5. ASSUME NEW s \in Sources, SetSource(s) PROVE MwIInv'
  <2>1. /\ clock' = clock /\ passed' = passed /\ events' = events /\ cleared' = cleared /\ seenEvents' = seenEvents
    BY <1>5 DEF SetSource
  <2>2. MiddlewareTypes'
    BY <1>1, <1>5 DEF SetSource, MiddlewareTypes
  <2>3. TtlRemembers'
    BY <2>1 DEF MwIInv, TtlRemembers
  <2> QED
    BY <1>1, <2>1, <2>2, <2>3, MwKeeps
<1>6. CASE UNCHANGED mwVars
  <2>1. /\ clock' = clock /\ passed' = passed /\ events' = events /\ cleared' = cleared /\ seenEvents' = seenEvents
    BY <1>6 DEF mwVars
  <2>2. MiddlewareTypes'
    BY <1>1, <1>6 DEF mwVars, MiddlewareTypes
  <2>3. TtlRemembers'
    BY <2>1 DEF MwIInv, TtlRemembers
  <2> QED
    BY <1>1, <2>1, <2>2, <2>3, MwKeeps
<1> QED
  BY <1>2, <1>3, <1>4, <1>5, <1>6 DEF MiddlewareNext

\* The invariant implies what is promised of the middleware.
LEMMA MwSafe == MwIInv => MiddlewareTypeOK /\ RateIsBounded /\ NoDuplicateWithinTtl
<1> SUFFICES ASSUME MwIInv PROVE MiddlewareTypeOK /\ RateIsBounded /\ NoDuplicateWithinTtl
  OBVIOUS
<1>1. DOMAIN passed = 1..Len(passed)
  BY MwNumbers DEF MwIInv
<1>2. RateIsBounded
  BY <1>1 DEF MwIInv, WindowsBounded, WindowFrom, RateIsBounded
<1>3. MiddlewareTypeOK
  BY DEF MwIInv, MiddlewareTypes, RateRemembers, MiddlewareTypeOK
<1> QED
  BY <1>2, <1>3 DEF MwIInv

\* No window has more events than the rate limit allows, and none of the
\* events that pass repeats another within the ttl (middleware.go).
LEMMA MiddlewareStaysSafe == MiddlewareSpec => [](MiddlewareTypeOK /\ RateIsBounded /\ NoDuplicateWithinTtl)
<1>1. MiddlewareSpec => []MwIInv
  BY MwInit, MwNext, PTL DEF MiddlewareSpec
<1> QED
  BY <1>1, MwSafe, PTL

\* An event finds every route that matches, is tried as often as allowed,
\* leaves the buffer once, and passes the middleware only within rate and ttl
\* (router.go, handler.go, middleware.go), whatever the topics, the limits and
\* the length of the behaviour.
THEOREM PipelineStaysSafe == RouterSpec /\ HandlersSpec /\ MiddlewareSpec => []PipelineSafe
BY RouterFindsEveryMatch, HandlersStaySafe, MiddlewareStaysSafe, PTL DEF PipelineSafe

-----------------------------------------------------------------------------
(* The assistant's client of the gateway.                                  *)

\* A call as the client sees it.
LcStates == {"new", "connecting", "calling", "reading", "done", "failed"}
Faults == Codes \cup {NoFault, "refused", "aborted", "empty"}
Servers == {"none", "open", "ended", "cancelled", "released"}
ClientCalls == [pc : LcStates, aborted : BOOLEAN, queue : Seq(Chunks), finished : BOOLEAN,
                fault : Faults, server : Servers, sent : Seq(Chunks), got : Seq(Chunks), left : BOOLEAN]

\* The server is there while somebody reads, the queue is the rest of what it
\* sent, and a stream is finished because it ended, completed or was aborted.
StreamRight(r) ==
    /\ r.got \o r.queue = r.sent
    /\ r.pc \in {"new", "connecting"} => r.server = "none" /\ r.sent = << >>
    /\ r.pc = "reading" => r.server \in {"open", "ended", "cancelled"}
    /\ r.pc = "calling" => r.server = "open"
    /\ r.pc = "reading" /\ r.aborted => r.server # "open"
    /\ r.finished /\ ~r.aborted => Has(r.sent, "complete") \/ r.server = "ended"
    /\ r.aborted /\ r.server = "released" => r.sent = << >>

\* How a call of its kind ends.
EndRight(kind, r) ==
    /\ r.pc = "reading" => kind = "stream"
    /\ r.pc = "calling" => kind = "unary"
    /\ kind = "stream" /\ r.pc = "done" /\ ~r.aborted /\ ~r.left =>
         r.got = r.sent /\ (Has(r.sent, "complete") \/ r.server = "ended")
    /\ kind = "stream" /\ r.pc \in {"done", "failed"} => r.server # "open"

CallRight(kind, r) == r \in ClientCalls /\ StreamRight(r) /\ EndRight(kind, r)

\* The connection: a channel for each attempt that failed and for the one there is.
ConnRight ==
    /\ lcConn \in [state : {"no", "trying", "yes"}, channels : Nat] /\ lcFailed \in Nat
    /\ lcConn.channels = lcFailed + (IF lcConn.state = "no" THEN 0 ELSE 1)

\* The inductive invariant.
LcIInv ==
    /\ ConnRight /\ lcCall \in [LcCalls -> ClientCalls]
    /\ \A c \in LcCalls : CallRight(KindOf[c], lcCall[c])

\* A chunk is queued when it was sent.
LEMMA ChunkQueued ==
    ASSUME NEW got \in Seq(Chunks), NEW queue \in Seq(Chunks), NEW k \in Chunks
    PROVE  got \o Append(queue, k) = Append(got \o queue, k)
<1>1. <<k>> \in Seq(Chunks) /\ got \o queue \in Seq(Chunks)
  BY ConcatProperties
<1>2. Append(queue, k) = queue \o <<k>> /\ Append(got \o queue, k) = (got \o queue) \o <<k>>
  BY <1>1, AppendIsConcat
<1> QED
  BY <1>1, <1>2, ConcatAssociative

\* A chunk is taken from the queue for the consumer.
LEMMA ChunkTaken ==
    ASSUME NEW got \in Seq(Chunks), NEW queue \in Seq(Chunks), queue # << >>
    PROVE  /\ Head(queue) \in Chunks /\ Tail(queue) \in Seq(Chunks)
           /\ Append(got, Head(queue)) \in Seq(Chunks)
           /\ Append(got, Head(queue)) \o Tail(queue) = got \o queue
<1>1. Head(queue) \in Chunks /\ Tail(queue) \in Seq(Chunks) /\ Len(Tail(queue)) = Len(queue) - 1
      /\ \A i \in 1..Len(Tail(queue)) : Tail(queue)[i] = queue[i + 1]
  BY HeadTailProperties
<1>2. <<Head(queue)>> \in Seq(Chunks) /\ Append(got, Head(queue)) = got \o <<Head(queue)>>
      /\ Append(got, Head(queue)) \in Seq(Chunks)
  BY <1>1, AppendIsConcat, AppendProperties
<1>3. <<Head(queue)>> \o Tail(queue) = queue
  <2> DEFINE s == <<Head(queue)>> \o Tail(queue)
  <2>1. Len(queue) \in Nat \ {0} /\ Head(queue) = queue[1]
    BY EmptySeq
  <2>2. /\ s \in Seq(Chunks) /\ Len(s) = 1 + Len(Tail(queue))
        /\ \A i \in 1..1 + Len(Tail(queue)) : s[i] = IF i <= 1 THEN <<Head(queue)>>[i] ELSE Tail(queue)[i - 1]
    BY <1>1, <1>2, ConcatProperties
  <2> HIDE DEF s
  <2>3. Len(s) = Len(queue) /\ \A i \in 1..Len(s) : s[i] = queue[i]
    BY <1>1, <2>1, <2>2
  <2>4. s = queue
    BY <2>2, <2>3, SeqEqual
  <2> QED
    BY <2>4 DEF s
<1> QED
  BY <1>1, <1>2, <1>3, ConcatAssociative

\* A completion among the chunks stays there.
LEMMA HasAppended ==
    ASSUME NEW s \in Seq(Chunks), NEW k \in Chunks
    PROVE  Has(Append(s, k), "complete") <=> Has(s, "complete") \/ k = "complete"
<1>1. /\ DOMAIN Append(s, k) = 1..Len(s) + 1 /\ DOMAIN s = 1..Len(s) /\ Len(s) \in Nat
      /\ Append(s, k)[Len(s) + 1] = k /\ \A i \in 1..Len(s) : Append(s, k)[i] = s[i]
  BY AppendProperties, LenProperties
<1> QED
  BY <1>1 DEF Has

\* A step that makes the call c what it may be preserves the invariant.
LEMMA CallSet ==
    ASSUME LcIInv, NEW c \in LcCalls, NEW r, Set(c, r), CallRight(KindOf[c], r), ConnRight'
    PROVE  LcIInv'
<1>1. /\ lcCall' = [lcCall EXCEPT ![c] = r] /\ lcCall \in [LcCalls -> ClientCalls] /\ r \in ClientCalls
      /\ \A d \in LcCalls : CallRight(KindOf[d], lcCall[d])
  BY DEF Set, LcIInv, CallRight
<1>2. lcCall' \in [LcCalls -> ClientCalls]
  BY <1>1
<1>3. \A d \in LcCalls : lcCall'[d] = IF d = c THEN r ELSE lcCall[d]
  BY <1>1
<1>4. \A d \in LcCalls : CallRight(KindOf[d], lcCall'[d])
  BY <1>1, <1>3
<1> QED
  BY <1>2, <1>4 DEF LcIInv

\* What the invariant says of a call.
LEMMA CallFacts ==
    ASSUME LcIInv, NEW c \in LcCalls
    PROVE  lcCall[c] \in ClientCalls /\ StreamRight(lcCall[c]) /\ EndRight(KindOf[c], lcCall[c])
BY DEF LcIInv, CallRight

\* A call is of one kind.
LEMMA KindIs == \A c \in LcCalls : KindOf[c] \in {"stream", "unary"}
BY KindAssumption

\* The first call makes a channel, the others wait for it.
LEMMA LcBeginStep ==
    ASSUME LcIInv, NEW c \in LcCalls, LcBegin(c)
    PROVE  LcIInv'
<1> DEFINE q == lcCall[c]
<1> DEFINE r == [q EXCEPT !.pc = "connecting"]
<1>1. q \in ClientCalls /\ StreamRight(q) /\ EndRight(KindOf[c], q)
  BY CallFacts
<1>2. Set(c, r) /\ q.pc = "new"
  BY DEF LcBegin
<1>3. ConnRight'
  <2>1. Join /\ lcFailed' = lcFailed
    BY DEF LcBegin
  <2> QED
    BY <2>1 DEF Join, ConnRight, LcIInv
<1>4. /\ r \in ClientCalls
      /\ r.pc = "connecting" /\ r.aborted = q.aborted /\ r.queue = q.queue
      /\ r.finished = q.finished /\ r.fault = q.fault /\ r.server = q.server
      /\ r.sent = q.sent /\ r.got = q.got /\ r.left = q.left
  BY <1>1, <1>2 DEF ClientCalls, LcStates, Servers, Faults
<1> HIDE DEF r
<1>5. StreamRight(r)
  BY <1>1, <1>2, <1>4 DEF StreamRight
<1>6. EndRight(KindOf[c], r)
  BY <1>1, <1>2, <1>4, KindIs DEF EndRight, StreamRight
<1> QED
  BY <1>2, <1>3, <1>4, <1>5, <1>6, CallSet DEF CallRight

\* complete sends its request, unless it was aborted.
LEMMA CallUnaryStep ==
    ASSUME LcIInv, NEW c \in LcCalls, CallUnary(c)
    PROVE  LcIInv'
<1> DEFINE q == lcCall[c]
<1> DEFINE r == IF q.aborted THEN [q EXCEPT !.pc = "failed", !.fault = "aborted"] ELSE [q EXCEPT !.pc = "calling", !.server = "open"]
<1>1. q \in ClientCalls /\ StreamRight(q) /\ EndRight(KindOf[c], q)
  BY CallFacts
<1>2. Set(c, r) /\ q.pc = "connecting" /\ KindOf[c] = "unary"
  BY DEF CallUnary
<1>3. ConnRight'
  BY DEF CallUnary, ConnRight, LcIInv
<1>4. /\ r \in ClientCalls
      /\ r.pc = (IF q.aborted THEN "failed" ELSE "calling") /\ r.aborted = q.aborted /\ r.queue = q.queue
      /\ r.finished = q.finished /\ r.fault = (IF q.aborted THEN "aborted" ELSE q.fault) /\ r.server = (IF q.aborted THEN q.server ELSE "open")
      /\ r.sent = q.sent /\ r.got = q.got /\ r.left = q.left
  BY <1>1, <1>2 DEF ClientCalls, LcStates, Servers, Faults
<1> HIDE DEF r
<1>5. StreamRight(r)
  BY <1>1, <1>2, <1>4 DEF StreamRight
<1>6. EndRight(KindOf[c], r)
  BY <1>1, <1>2, <1>4, KindIs DEF EndRight, StreamRight
<1> QED
  BY <1>2, <1>3, <1>4, <1>5, <1>6, CallSet DEF CallRight

\* The answer comes.
LEMMA UnaryAnsweredStep ==
    ASSUME LcIInv, NEW c \in LcCalls, NEW data \in BOOLEAN, UnaryAnswered(c, data)
    PROVE  LcIInv'
<1> DEFINE q == lcCall[c]
<1> DEFINE r == IF data THEN [q EXCEPT !.pc = "done", !.server = "ended"] ELSE [q EXCEPT !.pc = "failed", !.fault = "empty", !.server = "ended"]
<1>1. q \in ClientCalls /\ StreamRight(q) /\ EndRight(KindOf[c], q)
  BY CallFacts
<1>2. Set(c, r) /\ q.pc = "calling"
  BY DEF UnaryAnswered
<1>3. ConnRight'
  BY DEF UnaryAnswered, ConnRight, LcIInv
<1>4. /\ r \in ClientCalls
      /\ r.pc = (IF data THEN "done" ELSE "failed") /\ r.aborted = q.aborted /\ r.queue = q.queue
      /\ r.finished = q.finished /\ r.fault = (IF data THEN q.fault ELSE "empty") /\ r.server = "ended"
      /\ r.sent = q.sent /\ r.got = q.got /\ r.left = q.left
  BY <1>1, <1>2 DEF ClientCalls, LcStates, Servers, Faults
<1> HIDE DEF r
<1>5. StreamRight(r)
  BY <1>1, <1>2, <1>4 DEF StreamRight
<1>6. EndRight(KindOf[c], r)
  BY <1>1, <1>2, <1>4, KindIs DEF EndRight, StreamRight
<1> QED
  BY <1>2, <1>3, <1>4, <1>5, <1>6, CallSet DEF CallRight

\* The call fails.
LEMMA UnaryFailsStep ==
    ASSUME LcIInv, NEW c \in LcCalls, NEW code \in Codes, UnaryFails(c, code)
    PROVE  LcIInv'
<1> DEFINE q == lcCall[c]
<1> DEFINE r == [q EXCEPT !.pc = "failed", !.fault = code, !.server = "ended"]
<1>1. q \in ClientCalls /\ StreamRight(q) /\ EndRight(KindOf[c], q)
  BY CallFacts
<1>2. Set(c, r) /\ q.pc = "calling"
  BY DEF UnaryFails
<1>3. ConnRight'
  BY DEF UnaryFails, ConnRight, LcIInv
<1>4. /\ r \in ClientCalls
      /\ r.pc = "failed" /\ r.aborted = q.aborted /\ r.queue = q.queue
      /\ r.finished = q.finished /\ r.fault = code /\ r.server = "ended"
      /\ r.sent = q.sent /\ r.got = q.got /\ r.left = q.left
  BY <1>1, <1>2 DEF ClientCalls, LcStates, Servers, Faults
<1> HIDE DEF r
<1>5. StreamRight(r)
  BY <1>1, <1>2, <1>4 DEF StreamRight
<1>6. EndRight(KindOf[c], r)
  BY <1>1, <1>2, <1>4, KindIs DEF EndRight, StreamRight
<1> QED
  BY <1>2, <1>3, <1>4, <1>5, <1>6, CallSet DEF CallRight

\* The request of a stream is written, also when it was aborted.
LEMMA OpenStreamStep ==
    ASSUME LcIInv, NEW c \in LcCalls, OpenStream(c)
    PROVE  LcIInv'
<1> DEFINE q == lcCall[c]
<1> DEFINE r == IF q.aborted THEN EndStream([q EXCEPT !.pc = "done", !.server = "open"]) ELSE [q EXCEPT !.pc = "reading", !.server = "open"]
<1>1. q \in ClientCalls /\ StreamRight(q) /\ EndRight(KindOf[c], q)
  BY CallFacts
<1>2. Set(c, r) /\ q.pc = "connecting" /\ KindOf[c] = "stream"
  BY DEF OpenStream
<1>3. ConnRight'
  BY DEF OpenStream, ConnRight, LcIInv
<1>4. /\ r \in ClientCalls
      /\ r.pc = (IF q.aborted THEN "done" ELSE "reading") /\ r.aborted = q.aborted /\ r.queue = q.queue
      /\ r.finished = q.finished /\ r.fault = q.fault /\ r.server = (IF q.aborted THEN "released" ELSE "open")
      /\ r.sent = q.sent /\ r.got = q.got /\ r.left = q.left
  BY <1>1, <1>2 DEF ClientCalls, LcStates, Servers, Faults, EndStream
<1> HIDE DEF r
<1>5. StreamRight(r)
  BY <1>1, <1>2, <1>4 DEF StreamRight
<1>6. EndRight(KindOf[c], r)
  BY <1>1, <1>2, <1>4, KindIs DEF EndRight, StreamRight
<1> QED
  BY <1>2, <1>3, <1>4, <1>5, <1>6, CallSet DEF CallRight

\* A chunk arrives.
LEMMA DataStep ==
    ASSUME LcIInv, NEW c \in LcCalls, NEW k \in Chunks, Data(c, k)
    PROVE  LcIInv'
<1> DEFINE q == lcCall[c]
<1> DEFINE r == [q EXCEPT !.sent = Append(@, k), !.queue = Append(@, k), !.finished = (@ \/ k = "complete")]
<1>1. q \in ClientCalls /\ StreamRight(q) /\ EndRight(KindOf[c], q)
  BY CallFacts
<1>2. Set(c, r) /\ q.pc = "reading" /\ q.server = "open"
  BY DEF Data
<1>3. ConnRight'
  BY DEF Data, ConnRight, LcIInv
<1>4. /\ Append(q.sent, k) \in Seq(Chunks) /\ Append(q.queue, k) \in Seq(Chunks)
      /\ q.got \o Append(q.queue, k) = Append(q.got \o q.queue, k)
      /\ Has(Append(q.sent, k), "complete") <=> Has(q.sent, "complete") \/ k = "complete"
  <2>1. q.got \in Seq(Chunks) /\ q.queue \in Seq(Chunks) /\ q.sent \in Seq(Chunks)
    BY <1>1 DEF ClientCalls
  <2> QED
    BY <2>1, ChunkQueued, HasAppended, AppendProperties
<1>5. /\ r \in ClientCalls
      /\ r.pc = q.pc /\ r.aborted = q.aborted /\ r.queue = Append(q.queue, k)
      /\ r.finished = (q.finished \/ k = "complete") /\ r.fault = q.fault /\ r.server = q.server
      /\ r.sent = Append(q.sent, k) /\ r.got = q.got /\ r.left = q.left
  BY <1>1, <1>2, <1>4 DEF ClientCalls, LcStates, Servers, Faults
<1> HIDE DEF r
<1>6. StreamRight(r)
  BY <1>1, <1>2, <1>5, <1>4 DEF StreamRight
<1>7. EndRight(KindOf[c], r)
  BY <1>1, <1>2, <1>5, <1>4, KindIs DEF EndRight, StreamRight
<1> QED
  BY <1>2, <1>3, <1>5, <1>6, <1>7, CallSet DEF CallRight

\* The server ends the stream.
LEMMA StreamEndsStep ==
    ASSUME LcIInv, NEW c \in LcCalls, StreamEnds(c)
    PROVE  LcIInv'
<1> DEFINE q == lcCall[c]
<1> DEFINE r == [q EXCEPT !.server = "ended", !.finished = TRUE]
<1>1. q \in ClientCalls /\ StreamRight(q) /\ EndRight(KindOf[c], q)
  BY CallFacts
<1>2. Set(c, r) /\ q.pc = "reading"
  BY DEF StreamEnds
<1>3. ConnRight'
  BY DEF StreamEnds, ConnRight, LcIInv
<1>4. /\ r \in ClientCalls
      /\ r.pc = q.pc /\ r.aborted = q.aborted /\ r.queue = q.queue
      /\ r.finished = TRUE /\ r.fault = q.fault /\ r.server = "ended"
      /\ r.sent = q.sent /\ r.got = q.got /\ r.left = q.left
  BY <1>1, <1>2 DEF ClientCalls, LcStates, Servers, Faults
<1> HIDE DEF r
<1>5. StreamRight(r)
  BY <1>1, <1>2, <1>4 DEF StreamRight
<1>6. EndRight(KindOf[c], r)
  BY <1>1, <1>2, <1>4, KindIs DEF EndRight, StreamRight
<1> QED
  BY <1>2, <1>3, <1>4, <1>5, <1>6, CallSet DEF CallRight

\* The stream fails.
LEMMA StreamFailsStep ==
    ASSUME LcIInv, NEW c \in LcCalls, NEW code \in Codes, StreamFails(c, code)
    PROVE  LcIInv'
<1> DEFINE q == lcCall[c]
<1> DEFINE r == [q EXCEPT !.server = "ended", !.finished = TRUE, !.fault = code]
<1>1. q \in ClientCalls /\ StreamRight(q) /\ EndRight(KindOf[c], q)
  BY CallFacts
<1>2. Set(c, r) /\ q.pc = "reading"
  BY DEF StreamFails
<1>3. ConnRight'
  BY DEF StreamFails, ConnRight, LcIInv
<1>4. /\ r \in ClientCalls
      /\ r.pc = q.pc /\ r.aborted = q.aborted /\ r.queue = q.queue
      /\ r.finished = TRUE /\ r.fault = code /\ r.server = "ended"
      /\ r.sent = q.sent /\ r.got = q.got /\ r.left = q.left
  BY <1>1, <1>2 DEF ClientCalls, LcStates, Servers, Faults
<1> HIDE DEF r
<1>5. StreamRight(r)
  BY <1>1, <1>2, <1>4 DEF StreamRight
<1>6. EndRight(KindOf[c], r)
  BY <1>1, <1>2, <1>4, KindIs DEF EndRight, StreamRight
<1> QED
  BY <1>2, <1>3, <1>4, <1>5, <1>6, CallSet DEF CallRight

\* The timer fires or the caller aborts.
LEMMA AbortStep ==
    ASSUME LcIInv, NEW c \in LcCalls, Abort(c)
    PROVE  LcIInv'
<1> DEFINE q == lcCall[c]
<1> DEFINE r == [q EXCEPT !.aborted = TRUE,
                  !.pc = IF @ = "calling" THEN "failed" ELSE @,
                  !.fault = IF q.pc = "calling" THEN "aborted" ELSE @,
                  !.finished = (@ \/ q.pc = "reading"),
                  !.server = IF q.pc = "reading" /\ @ = "open" THEN "cancelled" ELSE @]
<1>1. q \in ClientCalls /\ StreamRight(q) /\ EndRight(KindOf[c], q)
  BY CallFacts
<1>2. Set(c, r) /\ q.pc \in {"connecting", "reading", "calling"}
  BY DEF Abort
<1>3. ConnRight'
  BY DEF Abort, ConnRight, LcIInv
<1>4. /\ r \in ClientCalls
      /\ r.pc = (IF q.pc = "calling" THEN "failed" ELSE q.pc) /\ r.aborted = TRUE /\ r.queue = q.queue
      /\ r.finished = (q.finished \/ q.pc = "reading") /\ r.fault = (IF q.pc = "calling" THEN "aborted" ELSE q.fault) /\ r.server = (IF q.pc = "reading" /\ q.server = "open" THEN "cancelled" ELSE q.server)
      /\ r.sent = q.sent /\ r.got = q.got /\ r.left = q.left
  BY <1>1, <1>2 DEF ClientCalls, LcStates, Servers, Faults
<1> HIDE DEF r
<1>5. StreamRight(r)
  BY <1>1, <1>2, <1>4 DEF StreamRight
<1>6. EndRight(KindOf[c], r)
  BY <1>1, <1>2, <1>4, KindIs DEF EndRight, StreamRight
<1> QED
  BY <1>2, <1>3, <1>4, <1>5, <1>6, CallSet DEF CallRight

\* The consumer takes a chunk.
LEMMA ReadChunkStep ==
    ASSUME LcIInv, NEW c \in LcCalls, ReadChunk(c)
    PROVE  LcIInv'
<1> DEFINE q == lcCall[c]
<1> DEFINE r == [q EXCEPT !.got = Append(@, Head(q.queue)), !.queue = Tail(@)]
<1>1. q \in ClientCalls /\ StreamRight(q) /\ EndRight(KindOf[c], q)
  BY CallFacts
<1>2. Set(c, r) /\ q.pc = "reading" /\ q.queue # << >>
  BY DEF ReadChunk
<1>3. ConnRight'
  BY DEF ReadChunk, ConnRight, LcIInv
<1>4. /\ Append(q.got, Head(q.queue)) \in Seq(Chunks) /\ Tail(q.queue) \in Seq(Chunks)
      /\ Append(q.got, Head(q.queue)) \o Tail(q.queue) = q.got \o q.queue
  <2>1. q.got \in Seq(Chunks) /\ q.queue \in Seq(Chunks)
    BY <1>1 DEF ClientCalls
  <2> QED
    BY <1>2, <2>1, ChunkTaken
<1>5. /\ r \in ClientCalls
      /\ r.pc = q.pc /\ r.aborted = q.aborted /\ r.queue = Tail(q.queue)
      /\ r.finished = q.finished /\ r.fault = q.fault /\ r.server = q.server
      /\ r.sent = q.sent /\ r.got = Append(q.got, Head(q.queue)) /\ r.left = q.left
  BY <1>1, <1>2, <1>4 DEF ClientCalls, LcStates, Servers, Faults
<1> HIDE DEF r
<1>6. StreamRight(r)
  BY <1>1, <1>2, <1>5, <1>4 DEF StreamRight
<1>7. EndRight(KindOf[c], r)
  BY <1>1, <1>2, <1>5, <1>4, KindIs DEF EndRight, StreamRight
<1> QED
  BY <1>2, <1>3, <1>5, <1>6, <1>7, CallSet DEF CallRight

\* The generator returns, or throws.
LEMMA StreamReturnsStep ==
    ASSUME LcIInv, NEW c \in LcCalls, StreamReturns(c)
    PROVE  LcIInv'
<1> DEFINE q == lcCall[c]
<1> DEFINE r == EndStream([q EXCEPT !.pc = IF q.fault # NoFault /\ ~q.aborted THEN "failed" ELSE "done"])
<1>1. q \in ClientCalls /\ StreamRight(q) /\ EndRight(KindOf[c], q)
  BY CallFacts
<1>2. Set(c, r) /\ q.pc = "reading" /\ (q.aborted \/ (q.finished /\ q.queue = << >>))
  BY DEF StreamReturns, Returns
<1>3. ConnRight'
  BY DEF StreamReturns, ConnRight, LcIInv
<1>4. q.queue = << >> => q.got = q.sent
  <2>1. q.got \in Seq(Chunks) /\ q.got \o q.queue = q.sent
    BY <1>1 DEF ClientCalls, StreamRight
  <2> QED
    BY <2>1, ConcatEmptySeq
<1>5. /\ r \in ClientCalls
      /\ r.pc = (IF q.fault # NoFault /\ ~q.aborted THEN "failed" ELSE "done") /\ r.aborted = q.aborted /\ r.queue = q.queue
      /\ r.finished = q.finished /\ r.fault = q.fault /\ r.server = (IF q.server = "open" THEN "released" ELSE q.server)
      /\ r.sent = q.sent /\ r.got = q.got /\ r.left = q.left
  BY <1>1, <1>2, <1>4 DEF ClientCalls, LcStates, Servers, Faults, EndStream
<1> HIDE DEF r
<1>6. StreamRight(r)
  BY <1>1, <1>2, <1>5, <1>4 DEF StreamRight
<1>7. EndRight(KindOf[c], r)
  BY <1>1, <1>2, <1>5, <1>4, KindIs DEF EndRight, StreamRight
<1> QED
  BY <1>2, <1>3, <1>5, <1>6, <1>7, CallSet DEF CallRight

\* The consumer leaves its loop.
LEMMA WalkOutStep ==
    ASSUME LcIInv, NEW c \in LcCalls, WalkOut(c)
    PROVE  LcIInv'
<1> DEFINE q == lcCall[c]
<1> DEFINE r == EndStream([q EXCEPT !.pc = "done", !.left = TRUE])
<1>1. q \in ClientCalls /\ StreamRight(q) /\ EndRight(KindOf[c], q)
  BY CallFacts
<1>2. Set(c, r) /\ q.pc = "reading"
  BY DEF WalkOut
<1>3. ConnRight'
  BY DEF WalkOut, ConnRight, LcIInv
<1>4. /\ r \in ClientCalls
      /\ r.pc = "done" /\ r.aborted = q.aborted /\ r.queue = q.queue
      /\ r.finished = q.finished /\ r.fault = q.fault /\ r.server = (IF q.server = "open" THEN "released" ELSE q.server)
      /\ r.sent = q.sent /\ r.got = q.got /\ r.left = TRUE
  BY <1>1, <1>2 DEF ClientCalls, LcStates, Servers, Faults, EndStream
<1> HIDE DEF r
<1>5. StreamRight(r)
  BY <1>1, <1>2, <1>4 DEF StreamRight
<1>6. EndRight(KindOf[c], r)
  BY <1>1, <1>2, <1>4, KindIs DEF EndRight, StreamRight
<1> QED
  BY <1>2, <1>3, <1>4, <1>5, <1>6, CallSet DEF CallRight

\* The connection is there.
LEMMA ConnectReadyStep == LcIInv /\ ConnectReady => LcIInv'
BY DEF ConnectReady, LcIInv, ConnRight, CallRight

\* Everybody who waited for the connection is rejected, an aborted stream returns.
LEMMA ConnectFailsStep == LcIInv /\ ConnectFails => LcIInv'
<1> SUFFICES ASSUME LcIInv, ConnectFails PROVE LcIInv'
  OBVIOUS
<1> DEFINE Rejected(c) ==
      LET r == lcCall[c] IN
      IF r.pc # "connecting" THEN r
      ELSE IF KindOf[c] = "stream" /\ r.aborted THEN [r EXCEPT !.pc = "done"]
      ELSE [r EXCEPT !.pc = "failed", !.fault = "refused"]
<1>1. lcCall' = [c \in LcCalls |-> Rejected(c)]
  BY DEF ConnectFails
<1>2. ConnRight'
  <2>1. lcConn.state = "trying" /\ lcConn' = [lcConn EXCEPT !.state = "no"] /\ lcFailed' = lcFailed + 1
    BY DEF ConnectFails
  <2>2. ConnRight
    BY DEF LcIInv
  <2> QED
    BY <2>1, <2>2 DEF ConnRight
<1>3. \A c \in LcCalls : CallRight(KindOf[c], Rejected(c))
  <2> SUFFICES ASSUME NEW c \in LcCalls, lcCall[c].pc = "connecting" PROVE CallRight(KindOf[c], Rejected(c))
    BY CallFacts DEF CallRight
  <2> DEFINE q == lcCall[c]
  <2> DEFINE r == Rejected(c)
  <2>1. q \in ClientCalls /\ StreamRight(q) /\ q.pc = "connecting"
    BY CallFacts
  <2>2. /\ r \in ClientCalls
        /\ r.pc = (IF KindOf[c] = "stream" /\ q.aborted THEN "done" ELSE "failed")
        /\ r.aborted = q.aborted /\ r.queue = q.queue /\ r.finished = q.finished
        /\ r.server = q.server /\ r.sent = q.sent /\ r.got = q.got /\ r.left = q.left
    BY <2>1 DEF ClientCalls, LcStates, Servers, Faults
  <2> HIDE DEF r
  <2>3. StreamRight(r)
    BY <2>1, <2>2 DEF StreamRight
  <2>4. EndRight(KindOf[c], r)
    BY <2>1, <2>2, KindIs DEF EndRight, StreamRight
  <2>5. CallRight(KindOf[c], r)
    BY <2>2, <2>3, <2>4 DEF CallRight
  <2> QED
    BY <2>5 DEF r
<1> HIDE DEF Rejected
<1>4. lcCall' \in [LcCalls -> ClientCalls]
  BY <1>1, <1>3 DEF CallRight
<1> QED
  BY <1>1, <1>2, <1>3, <1>4 DEF LcIInv

\* Every step of the client preserves the invariant.
LEMMA LcStep == LcIInv /\ [LcNext]_lcVars => LcIInv'
<1> SUFFICES ASSUME LcIInv, [LcNext]_lcVars PROVE LcIInv'
  OBVIOUS
<1>1. CASE ConnectReady \/ ConnectFails
  BY <1>1, ConnectReadyStep, ConnectFailsStep
<1>2. ASSUME NEW c \in LcCalls, LcBegin(c) \/ CallUnary(c) \/ OpenStream(c) \/ Abort(c) PROVE LcIInv'
  BY <1>2, LcBeginStep, CallUnaryStep, OpenStreamStep, AbortStep
<1>3. ASSUME NEW c \in LcCalls, ReadChunk(c) \/ StreamReturns(c) \/ StreamEnds(c) \/ WalkOut(c) PROVE LcIInv'
  BY <1>3, ReadChunkStep, StreamReturnsStep, StreamEndsStep, WalkOutStep
<1>4. ASSUME NEW c \in LcCalls, \E data \in BOOLEAN : UnaryAnswered(c, data) PROVE LcIInv'
  BY <1>4, UnaryAnsweredStep
<1>5. ASSUME NEW c \in LcCalls, \E code \in Codes : UnaryFails(c, code) \/ StreamFails(c, code) PROVE LcIInv'
  BY <1>5, UnaryFailsStep, StreamFailsStep
<1>6. ASSUME NEW c \in LcCalls, \E k \in Chunks : Data(c, k) PROVE LcIInv'
  BY <1>6, DataStep
<1>7. CASE UNCHANGED lcVars
  BY <1>7 DEF lcVars, LcIInv, ConnRight, CallRight
<1> QED
  BY <1>1, <1>2, <1>3, <1>4, <1>5, <1>6, <1>7 DEF LcNext

\* Nothing has happened at first.
LEMMA LcInitIInv == LcInit => LcIInv
<1> SUFFICES ASSUME LcInit PROVE LcIInv
  OBVIOUS
<1>1. << >> \in Seq(Chunks) /\ << >> \o << >> = << >>
  BY EmptySeq, ConcatEmptySeq
<1>2. NewCall \in ClientCalls
  BY <1>1 DEF NewCall, ClientCalls, LcStates, Servers, Faults
<1>3. StreamRight(NewCall)
  BY <1>1 DEF NewCall, StreamRight
<1>4. \A c \in LcCalls : EndRight(KindOf[c], NewCall)
  BY DEF NewCall, EndRight
<1>5. ConnRight
  BY DEF LcInit, ConnRight
<1> QED
  BY <1>2, <1>3, <1>4, <1>5 DEF LcInit, LcIInv, CallRight

\* The invariant implies what is claimed of the calls.
LEMMA LcSafety == LcIInv => LcTypeOK /\ AnswerIsWhole /\ GivenUpIsCanceled /\ RetryableIsTransient
<1> SUFFICES ASSUME LcIInv PROVE LcTypeOK /\ AnswerIsWhole /\ GivenUpIsCanceled /\ RetryableIsTransient
  OBVIOUS
<1>1. LcTypeOK
  BY CallFacts DEF LcIInv, ConnRight, LcTypeOK, ClientCalls, LcStates, Servers, Faults
<1>2. AnswerIsWhole
  BY CallFacts DEF AnswerIsWhole, StreamRight, EndRight
<1>3. GivenUpIsCanceled
  BY CallFacts DEF GivenUpIsCanceled, StreamRight, EndRight, Over
<1>4. \A fault \in Faults : Retryable(fault) <=> ErrorCode(fault) \in {"TIMEOUT", "PROVIDER_NOT_AVAILABLE"}
  BY DEF Faults, Codes, NoFault, Retryable, ErrorCode
<1>5. RetryableIsTransient
  BY <1>4, CallFacts DEF RetryableIsTransient, ClientCalls
<1> QED
  BY <1>1, <1>2, <1>3, <1>5

\* A model's answer arrives whole or with a reason, and the server learns when it is
\* given up (gateway-client.ts).
LEMMA CallsStaySafe ==
    LcSpec => [](LcTypeOK /\ AnswerIsWhole /\ GivenUpIsCanceled /\ RetryableIsTransient)
<1> QED
  BY LcInitIInv, LcStep, LcSafety, PTL DEF LcSpec

-----------------------------------------------------------------------------
(* The assistant's streams to the orchestrator.                            *)

\* Until a client had two streams, or a stream and a timer, at once, a stream that is
\* open is the current one and no timer is pending, and a timer is the last one
\* set; only close cancels.
AsOrderly ==
    /\ \A s \in DOMAIN asStreams : asStreams[s] = "cancelled" => asClosed
    /\ ~asDouble => OpenStreams \subseteq {asStream} /\ asTimers \subseteq {asTimer}
    /\ ~asDouble /\ OpenStreams # {} => asTimers = {}

\* The types of what the client keeps.
AsTypes ==
    /\ AsTypeOK /\ asTimer \in Nat
    /\ asOptions \in [kind : {"agent", "task"}, auto : BOOLEAN] /\ asClosed \in BOOLEAN /\ asDouble \in BOOLEAN
    /\ asCrossed \in BOOLEAN

\* While calls do not cross, the stream whose connect waits is the current one, and open.
OpeningIsCurrent == ~asCrossed => \A s \in asOpening : s = asStream /\ asStreams[s] = "open"

\* The inductive invariant.
AsIInv == AsTypes /\ ConnectedIsAlive /\ OpeningIsCurrent /\ ClosedStaysClosed /\ AsOrderly

\* A stream opened behind the others is the only one that is new.
LEMMA StreamOpened ==
    ASSUME AsTypes, Opens
    PROVE  /\ asStreams' \in Seq({"open", "cancelled", "gone"}) /\ Len(asStreams') = Len(asStreams) + 1
           /\ Len(asStreams) \in Nat /\ DOMAIN asStreams' = 1..Len(asStreams') /\ DOMAIN asStreams = 1..Len(asStreams)
           /\ asStream' = Len(asStreams) + 1 /\ asStreams'[asStream'] = "open"
           /\ \A s \in DOMAIN asStreams : asStreams'[s] = asStreams[s]
           /\ OpenStreams' = OpenStreams \cup {asStream'}
           /\ asOpening' = asOpening \cup {asStream'} /\ asOpening' \subseteq DOMAIN asStreams'
<1>1. asStreams \in Seq({"open", "cancelled", "gone"}) /\ asStreams' = Append(asStreams, "open")
  BY DEF AsTypes, AsTypeOK, Opens
<1>2. /\ asStreams' \in Seq({"open", "cancelled", "gone"}) /\ Len(asStreams') = Len(asStreams) + 1
      /\ \A s \in 1..Len(asStreams) : asStreams'[s] = asStreams[s]
      /\ asStreams'[Len(asStreams) + 1] = "open"
  BY <1>1, AppendProperties
<1>3. /\ Len(asStreams) \in Nat /\ DOMAIN asStreams = 1..Len(asStreams) /\ DOMAIN asStreams' = 1..Len(asStreams')
  BY <1>1, <1>2, LenProperties
<1>4. asStream' = Len(asStreams) + 1 /\ asOpening' = asOpening \cup {Len(asStreams) + 1}
      /\ asOpening \subseteq DOMAIN asStreams
  BY DEF Opens, AsTypes, AsTypeOK
<1>5. OpenStreams' = OpenStreams \cup {asStream'}
  BY <1>2, <1>3, <1>4 DEF OpenStreams
<1>6. asOpening' = asOpening \cup {asStream'} /\ asOpening' \subseteq DOMAIN asStreams'
  BY <1>2, <1>3, <1>4
<1> QED
  BY <1>2, <1>3, <1>4, <1>5, <1>6

\* One stream is over, and the others stay.
LEMMA StreamGone ==
    ASSUME AsTypes, NEW s \in DOMAIN asStreams, asStreams' = [asStreams EXCEPT ![s] = "gone"]
    PROVE  /\ asStreams' \in Seq({"open", "cancelled", "gone"}) /\ Len(asStreams') = Len(asStreams)
           /\ DOMAIN asStreams' = DOMAIN asStreams
           /\ \A t \in DOMAIN asStreams : asStreams'[t] = IF t = s THEN "gone" ELSE asStreams[t]
           /\ OpenStreams' = OpenStreams \ {s}
<1>1. asStreams \in Seq({"open", "cancelled", "gone"})
  BY DEF AsTypes, AsTypeOK
<1>2. DOMAIN asStreams = 1..Len(asStreams) /\ Len(asStreams) \in Nat
  BY <1>1, LenProperties
<1>3. /\ asStreams' \in Seq({"open", "cancelled", "gone"}) /\ Len(asStreams') = Len(asStreams)
      /\ \A t \in 1..Len(asStreams) : asStreams'[t] = IF t = s THEN "gone" ELSE asStreams[t]
  BY <1>1, <1>2, ExceptSeq
<1>4. DOMAIN asStreams' = DOMAIN asStreams
  BY <1>1
<1> QED
  BY <1>2, <1>3, <1>4 DEF OpenStreams

\* connect is called and opens a stream.
LEMMA ConnectStep == AsIInv /\ Connect => AsIInv'
<1> SUFFICES ASSUME AsIInv, Connect PROVE AsIInv'
  OBVIOUS
<1>1. AsTypes /\ AsOrderly
  BY DEF AsIInv
<1>2. /\ ~asClosed /\ ~asConnected /\ Opens
      /\ asDouble' = (asDouble \/ OpenStreams # {} \/ asTimers # {})
      /\ asCrossed' = (asCrossed \/ asOpening # {})
      /\ asOptions' = asOptions /\ asTimers' = asTimers /\ asTimer' = asTimer /\ asClosed' = asClosed
      /\ asConnected' = asConnected /\ asAttempts' = asAttempts
  BY DEF Connect, Called
<1>3. AsTypes'
  <2>1. asDouble' \in BOOLEAN /\ asCrossed' \in BOOLEAN
    BY <1>2
  <2>2. asStreams' \in Seq({"open", "cancelled", "gone"}) /\ asStream' \in 0..Len(asStreams')
        /\ asOpening' \subseteq DOMAIN asStreams'
    BY <1>1, <1>2, StreamOpened
  <2> QED
    BY <1>1, <1>2, <2>1, <2>2 DEF AsTypes, AsTypeOK
<1>4. ConnectedIsAlive'
  BY <1>2 DEF ConnectedIsAlive
<1>5. ClosedStaysClosed'
  BY <1>2 DEF ClosedStaysClosed
<1>6. \A s \in DOMAIN asStreams' : asStreams'[s] # "cancelled"
  <2> SUFFICES ASSUME NEW s \in DOMAIN asStreams' PROVE asStreams'[s] # "cancelled"
    OBVIOUS
  <2>1. CASE s \in DOMAIN asStreams
    BY <1>1, <1>2, <2>1, StreamOpened DEF AsOrderly
  <2>2. CASE s = asStream'
    BY <1>1, <1>2, <2>2, StreamOpened
  <2> QED
    BY <1>1, <1>2, <2>1, <2>2, StreamOpened
<1>7. ~asDouble' => OpenStreams' = {asStream'} /\ asTimers' = {}
  BY <1>1, <1>2, StreamOpened
<1>8. AsOrderly'
  BY <1>6, <1>7 DEF AsOrderly
<1>9. OpeningIsCurrent'
  BY <1>1, <1>2, StreamOpened DEF OpeningIsCurrent
<1> QED
  BY <1>3, <1>4, <1>5, <1>8, <1>9 DEF AsIInv

\* connect is called and fails: the stream it had is forgotten.
LEMMA ConnectThrowsStep == AsIInv /\ ConnectThrows => AsIInv'
<1> SUFFICES ASSUME AsIInv, ConnectThrows PROVE AsIInv'
  OBVIOUS
<1>1. AsTypes /\ AsOrderly
  BY DEF AsIInv
<1>2. /\ ~asClosed /\ ~asConnected /\ asStream' = 0
      /\ asDouble' = (asDouble \/ OpenStreams # {} \/ asTimers # {})
      /\ asCrossed' = (asCrossed \/ asOpening # {})
      /\ asOptions' = asOptions /\ asTimers' = asTimers /\ asTimer' = asTimer /\ asClosed' = asClosed
      /\ asStreams' = asStreams /\ asOpening' = asOpening /\ asConnected' = asConnected /\ asAttempts' = asAttempts
  BY DEF ConnectThrows, Called
<1>3. AsTypes'
  <2>1. Len(asStreams) \in Nat
    BY <1>1, LenProperties DEF AsTypes, AsTypeOK
  <2>2. asDouble' \in BOOLEAN /\ asCrossed' \in BOOLEAN
    BY <1>2
  <2> QED
    BY <1>1, <1>2, <2>1, <2>2 DEF AsTypes, AsTypeOK
<1>4. OpenStreams' = OpenStreams
  BY <1>2 DEF OpenStreams
<1>5. ConnectedIsAlive' /\ ClosedStaysClosed' /\ OpeningIsCurrent'
  BY <1>2 DEF ConnectedIsAlive, ClosedStaysClosed, OpeningIsCurrent
<1>6. AsOrderly'
  BY <1>1, <1>2, <1>4 DEF AsOrderly
<1> QED
  BY <1>3, <1>5, <1>6 DEF AsIInv

\* connect goes on after its await.
LEMMA OpenedStep ==
    ASSUME AsIInv, NEW s \in DOMAIN asStreams, Opened(s)
    PROVE  AsIInv'
<1>1. AsTypes /\ AsOrderly /\ OpeningIsCurrent /\ ClosedStaysClosed
  BY DEF AsIInv
<1>2. /\ s \in asOpening /\ asOpening' = asOpening \ {s} /\ asConnected' = TRUE /\ asAttempts' = 0
      /\ UNCHANGED <<asOptions, asStreams, asStream, asTimers, asTimer, asClosed, asDouble, asCrossed>>
  BY DEF Opened
<1>3. OpenStreams' = OpenStreams
  BY <1>2 DEF OpenStreams
<1>4. AsTypes'
  BY <1>1, <1>2, ReopensAssumption DEF AsTypes, AsTypeOK
<1>5. ConnectedIsAlive'
  <2>1. asStreams \in Seq({"open", "cancelled", "gone"})
    BY <1>1 DEF AsTypes, AsTypeOK
  <2>2. s # 0
    BY <2>1, LenProperties
  <2> QED
    BY <1>1, <1>2, <2>2 DEF ConnectedIsAlive, OpeningIsCurrent
<1>6. OpeningIsCurrent' /\ ClosedStaysClosed' /\ AsOrderly'
  BY <1>1, <1>2, <1>3 DEF OpeningIsCurrent, ClosedStaysClosed, AsOrderly
<1> QED
  BY <1>4, <1>5, <1>6 DEF AsIInv

\* A timer fires: the client is connected, connects, or fails to.
LEMMA TimerFiresStep ==
    ASSUME AsIInv, NEW t \in asTimers, TimerFires(t)
    PROVE  AsIInv'
<1>1. AsTypes /\ AsOrderly /\ ConnectedIsAlive /\ ClosedStaysClosed
  BY DEF AsIInv
<1>2. /\ asTimers' = asTimers \ {t} /\ asOptions' = asOptions /\ asTimer' = asTimer /\ asClosed' = asClosed
      /\ asConnected' = asConnected /\ asAttempts' = asAttempts /\ asCrossed' = asCrossed /\ asOpening = {}
  BY DEF TimerFires
<1>3. asClosed => asDouble
  BY <1>1 DEF ClosedStaysClosed
<1>4. Len(asStreams) \in Nat
  BY <1>1, LenProperties DEF AsTypes, AsTypeOK
<1>5. CASE /\ UNCHANGED <<asStreams, asOpening>> /\ asStream' \in {asStream, 0}
           /\ asStream' # asStream => ~asConnected /\ asDouble' = (asDouble \/ OpenStreams # {})
           /\ asStream' = asStream => asDouble' = asDouble \/ asDouble' = (asDouble \/ OpenStreams # {})
  <2>1. AsTypes'
    <3>1. asDouble' \in BOOLEAN
      <4>1. asDouble \in BOOLEAN
        BY <1>1 DEF AsTypes
      <4>2. asDouble' = asDouble \/ asDouble' = (asDouble \/ OpenStreams # {})
        BY <1>5
      <4> QED
        BY <4>1, <4>2
    <3>3. asStream' \in 0..Len(asStreams)
      BY <1>1, <1>4, <1>5 DEF AsTypes, AsTypeOK
    <3>2. asTimers' \subseteq 1..asTimer'
      BY <1>1, <1>2 DEF AsTypes, AsTypeOK
    <3> QED
      BY <1>1, <1>2, <1>5, <3>1, <3>2, <3>3 DEF AsTypes, AsTypeOK
  <2>2. OpenStreams' = OpenStreams
    BY <1>5 DEF OpenStreams
  <2>3. ConnectedIsAlive' /\ OpeningIsCurrent'
    BY <1>1, <1>2, <1>5 DEF ConnectedIsAlive, OpeningIsCurrent
  <2>4. asDouble => asDouble'
    BY <1>1, <1>5 DEF AsTypes
  <2>5. ClosedStaysClosed'
    BY <1>2, <1>3, <2>4 DEF ClosedStaysClosed
  <2>6. AsOrderly'
    BY <1>1, <1>2, <1>5, <2>2, <2>4 DEF AsOrderly
  <2> QED
    BY <2>1, <2>3, <2>5, <2>6 DEF AsIInv
<1>6. CASE ~asConnected /\ Opens /\ asDouble' = (asDouble \/ OpenStreams # {})
  <2>1. AsTypes'
    <3>1. asDouble' \in BOOLEAN
      BY <1>6
    <3>2. asStreams' \in Seq({"open", "cancelled", "gone"}) /\ asStream' \in 0..Len(asStreams')
          /\ asOpening' \subseteq DOMAIN asStreams'
      BY <1>1, <1>6, StreamOpened
    <3>3. asTimers' \subseteq 1..asTimer'
      BY <1>1, <1>2 DEF AsTypes, AsTypeOK
    <3> QED
      BY <1>1, <1>2, <3>1, <3>2, <3>3 DEF AsTypes, AsTypeOK
  <2>2. ConnectedIsAlive'
    BY <1>2, <1>6 DEF ConnectedIsAlive
  <2>3. ClosedStaysClosed'
    BY <1>2, <1>3, <1>6 DEF ClosedStaysClosed
  <2>4. ASSUME NEW s \in DOMAIN asStreams', asStreams'[s] = "cancelled" PROVE asClosed'
    <3>1. s \in DOMAIN asStreams /\ asStreams'[s] = asStreams[s]
      BY <1>1, <1>6, <2>4, StreamOpened
    <3> QED
      BY <1>1, <1>2, <2>4, <3>1 DEF AsOrderly
  <2>5. ~asDouble' => OpenStreams' = {asStream'} /\ asTimers' = {}
    BY <1>1, <1>2, <1>6, StreamOpened DEF AsOrderly
  <2>6. AsOrderly'
    BY <2>4, <2>5 DEF AsOrderly
  <2>7. OpeningIsCurrent'
    BY <1>1, <1>2, <1>6, StreamOpened DEF OpeningIsCurrent
  <2> QED
    BY <2>1, <2>2, <2>3, <2>6, <2>7 DEF AsIInv
<1> QED
  BY <1>5, <1>6 DEF TimerFires

\* A stream fails, and a timer may be set.
LEMMA FailsStep ==
    ASSUME AsIInv, NEW s \in DOMAIN asStreams, Fails(s)
    PROVE  AsIInv'
<1>1. AsTypes /\ AsOrderly /\ OpeningIsCurrent /\ ClosedStaysClosed
  BY DEF AsIInv
<1>2. /\ asStreams[s] \in {"open", "cancelled"} /\ asStreams' = [asStreams EXCEPT ![s] = "gone"] /\ asConnected' = FALSE
      /\ asOptions' = asOptions /\ asStream' = asStream /\ asClosed' = asClosed /\ asDouble' = asDouble
      /\ asOpening' = asOpening /\ asCrossed' = asCrossed /\ (asOpening # {} => asStreams[s] = "cancelled")
  BY DEF Fails
<1>3. \/ /\ ~asClosed /\ asAttempts < MaxReopens /\ asAttempts' = asAttempts + 1 /\ asTimer' = asTimer + 1
         /\ asTimers' = asTimers \cup {asTimer + 1}
      \/ UNCHANGED <<asAttempts, asTimer, asTimers>>
  BY DEF Fails, SetsTimer
<1>4. AsTypes'
  <2>1. /\ asStreams' \in Seq({"open", "cancelled", "gone"}) /\ asStream' \in 0..Len(asStreams')
    BY <1>1, <1>2, StreamGone DEF AsTypes, AsTypeOK
  <2>2. asTimer' \in Nat /\ asTimers' \subseteq 1..asTimer' /\ asAttempts' \in 0..MaxReopens
    <3>1. asTimer \in Nat /\ asTimers \subseteq 1..asTimer /\ asAttempts \in 0..MaxReopens
      BY <1>1 DEF AsTypes, AsTypeOK
    <3>2. CASE UNCHANGED <<asAttempts, asTimer, asTimers>>
      BY <3>1, <3>2
    <3>3. CASE /\ asAttempts < MaxReopens /\ asAttempts' = asAttempts + 1 /\ asTimer' = asTimer + 1
               /\ asTimers' = asTimers \cup {asTimer + 1}
      BY <3>1, <3>3, ReopensAssumption
    <3> QED
      BY <1>3, <3>2, <3>3
  <2>3. asOpening' \subseteq DOMAIN asStreams'
    BY <1>1, <1>2, StreamGone DEF AsTypes, AsTypeOK
  <2> QED
    BY <1>1, <1>2, <2>1, <2>2, <2>3 DEF AsTypes, AsTypeOK
<1>5. OpenStreams' = OpenStreams \ {s} /\ (asStreams[s] = "open" => s \in OpenStreams)
  BY <1>1, <1>2, StreamGone DEF OpenStreams
<1>6. ConnectedIsAlive' /\ OpeningIsCurrent'
  <2>1. \A t \in asOpening : t \in DOMAIN asStreams
    BY <1>1 DEF AsTypes, AsTypeOK
  <2> QED
    BY <1>1, <1>2, <2>1, StreamGone DEF ConnectedIsAlive, OpeningIsCurrent
<1>7. ClosedStaysClosed'
  BY <1>1, <1>2, <1>3, <1>5 DEF ClosedStaysClosed
<1>8. \A t \in DOMAIN asStreams' : asStreams'[t] = "cancelled" => asClosed'
  BY <1>1, <1>2, StreamGone DEF AsOrderly
<1>9. ASSUME ~asDouble
      PROVE  /\ OpenStreams' \subseteq {asStream'} /\ asTimers' \subseteq {asTimer'}
             /\ OpenStreams' # {} => asTimers' = {}
  <2>1. /\ OpenStreams \subseteq {asStream} /\ asTimers \subseteq {asTimer}
        /\ OpenStreams # {} => asTimers = {}
    BY <1>1, <1>9 DEF AsOrderly
  <2>2. CASE UNCHANGED <<asAttempts, asTimer, asTimers>>
    BY <1>2, <1>5, <2>1, <2>2
  <2>3. CASE ~asClosed /\ asAttempts' = asAttempts + 1 /\ asTimer' = asTimer + 1 /\ asTimers' = asTimers \cup {asTimer + 1}
    <3>1. s \in OpenStreams
      BY <1>1, <1>2, <1>5, <2>3 DEF AsOrderly
    <3>2. asTimers = {} /\ OpenStreams' = {}
      BY <1>5, <2>1, <3>1
    <3> QED
      BY <2>3, <3>2
  <2> QED
    BY <1>3, <2>2, <2>3
<1>10. AsOrderly'
  BY <1>2, <1>8, <1>9 DEF AsOrderly
<1> QED
  BY <1>4, <1>6, <1>7, <1>10 DEF AsIInv

\* A stream ends.
LEMMA EndsStep ==
    ASSUME AsIInv, NEW s \in DOMAIN asStreams, Ends(s)
    PROVE  AsIInv'
<1>1. AsTypes /\ AsOrderly /\ ClosedStaysClosed
  BY DEF AsIInv
<1>2. /\ asStreams' = [asStreams EXCEPT ![s] = "gone"] /\ asConnected' = FALSE
      /\ asOptions' = asOptions /\ asStream' = asStream /\ asClosed' = asClosed /\ asDouble' = asDouble
      /\ asAttempts' = asAttempts /\ asTimers' = asTimers /\ asTimer' = asTimer
      /\ asOpening = {} /\ asOpening' = asOpening /\ asCrossed' = asCrossed
  BY DEF Ends
<1>3. AsTypes'
  BY <1>1, <1>2, StreamGone DEF AsTypes, AsTypeOK
<1>4. OpenStreams' = OpenStreams \ {s}
  BY <1>1, <1>2, StreamGone
<1>5. ConnectedIsAlive' /\ ClosedStaysClosed' /\ OpeningIsCurrent'
  BY <1>1, <1>2, <1>4 DEF ConnectedIsAlive, ClosedStaysClosed, OpeningIsCurrent
<1>6. \A t \in DOMAIN asStreams' : asStreams'[t] = "cancelled" => asClosed'
  BY <1>1, <1>2, StreamGone DEF AsOrderly
<1>7. AsOrderly'
  BY <1>1, <1>2, <1>4, <1>6 DEF AsOrderly
<1> QED
  BY <1>3, <1>5, <1>7 DEF AsIInv

\* A task is complete: its stream stays open.
LEMMA TaskCompleteStep ==
    ASSUME AsIInv, NEW s \in DOMAIN asStreams, TaskComplete(s)
    PROVE  AsIInv'
<1>1. /\ asConnected' = FALSE
      /\ UNCHANGED <<asOptions, asStreams, asStream, asOpening, asAttempts, asTimers, asTimer, asClosed, asDouble, asCrossed>>
  BY DEF TaskComplete
<1>2. OpenStreams' = OpenStreams
  BY <1>1 DEF OpenStreams
<1> QED
  BY <1>1, <1>2 DEF AsIInv, AsTypes, AsTypeOK, ConnectedIsAlive, OpeningIsCurrent, ClosedStaysClosed, AsOrderly

\* The client is closed: the current stream is canceled, the last timer cleared.
LEMMA CloseStreamStep == AsIInv /\ CloseStream => AsIInv'
<1> SUFFICES ASSUME AsIInv, CloseStream PROVE AsIInv'
  OBVIOUS
<1> DEFINE After(s) == IF s = asStream /\ asStreams[s] = "open" THEN "cancelled" ELSE asStreams[s]
<1>1. AsTypes /\ AsOrderly
  BY DEF AsIInv
<1>2. /\ asClosed' = TRUE /\ asConnected' = FALSE /\ asStream' = 0 /\ asTimers' = asTimers \ {asTimer}
      /\ asOptions' = asOptions /\ asAttempts' = asAttempts /\ asTimer' = asTimer /\ asDouble' = asDouble
      /\ asOpening' = asOpening /\ asCrossed' = (asCrossed \/ asOpening # {})
      /\ asStreams' = [s \in DOMAIN asStreams |-> After(s)]
  BY DEF CloseStream
<1>3. /\ asStreams \in Seq({"open", "cancelled", "gone"})
      /\ Len(asStreams) \in Nat /\ DOMAIN asStreams = 1..Len(asStreams)
      /\ \A s \in 1..Len(asStreams) : asStreams[s] \in {"open", "cancelled", "gone"}
  BY <1>1, LenProperties, ElementOfSeq DEF AsTypes, AsTypeOK
<1>4. asStreams' \in Seq({"open", "cancelled", "gone"})
  <2>1. \A s \in 1..Len(asStreams) : After(s) \in {"open", "cancelled", "gone"}
    BY <1>3
  <2>2. asStreams' = [s \in 1..Len(asStreams) |-> After(s)]
    BY <1>2, <1>3
  <2> HIDE DEF After
  <2> QED
    BY <1>3, <2>1, <2>2, IsASeq
<1>5. Len(asStreams') \in Nat
  BY <1>4, LenProperties
<1>6. AsTypes'
  <2>1. asTimers' \subseteq 1..asTimer' /\ asTimer' \in Nat
    BY <1>1, <1>2 DEF AsTypes, AsTypeOK
  <2>2. asConnected' \in BOOLEAN /\ asClosed' \in BOOLEAN /\ asCrossed' \in BOOLEAN
    BY <1>2
  <2>5. asOpening' \subseteq DOMAIN asStreams'
    BY <1>1, <1>2 DEF AsTypes, AsTypeOK
  <2>3. asStream' = 0
    BY <1>2
  <2>4. asStream' \in 0..Len(asStreams')
    BY <1>5, <2>3
  <2> QED
    BY <1>1, <1>2, <1>4, <2>1, <2>2, <2>4, <2>5 DEF AsTypes, AsTypeOK
<1>7. OpenStreams' = OpenStreams \ {asStream}
  BY <1>2 DEF OpenStreams
<1>8. ConnectedIsAlive' /\ OpeningIsCurrent'
  BY <1>2 DEF ConnectedIsAlive, OpeningIsCurrent
<1>9. ~asDouble' => OpenStreams' = {} /\ asTimers' = {}
  BY <1>1, <1>2, <1>7 DEF AsOrderly
<1>10. ClosedStaysClosed' /\ AsOrderly'
  BY <1>2, <1>9 DEF ClosedStaysClosed, AsOrderly
<1> QED
  BY <1>6, <1>8, <1>10 DEF AsIInv

\* Every step of the client preserves the invariant.
LEMMA AsStep == AsIInv /\ [AsNext]_asVars => AsIInv'
<1> SUFFICES ASSUME AsIInv, [AsNext]_asVars PROVE AsIInv'
  OBVIOUS
<1>1. CASE Connect \/ ConnectThrows \/ CloseStream
  BY <1>1, ConnectStep, ConnectThrowsStep, CloseStreamStep
<1>2. CASE \E t \in asTimers : TimerFires(t)
  BY <1>2, TimerFiresStep
<1>3. CASE \E s \in DOMAIN asStreams : Opened(s) \/ Fails(s) \/ Ends(s) \/ TaskComplete(s)
  BY <1>3, OpenedStep, FailsStep, EndsStep, TaskCompleteStep
<1>4. CASE UNCHANGED asVars
  <2>1. UNCHANGED <<asOptions, asStreams, asStream, asOpening, asConnected, asAttempts,
                    asTimers, asTimer, asClosed, asDouble, asCrossed>>
    BY <1>4 DEF asVars
  <2>2. OpenStreams' = OpenStreams
    BY <2>1 DEF OpenStreams
  <2> QED
    BY <2>1, <2>2 DEF AsIInv, AsTypes, AsTypeOK, ConnectedIsAlive, OpeningIsCurrent, ClosedStaysClosed, AsOrderly
<1> QED
  BY <1>1, <1>2, <1>3, <1>4 DEF AsNext

\* The client has no stream at first.
LEMMA AsInitIInv == AsInit => AsIInv
<1> SUFFICES ASSUME AsInit PROVE AsIInv
  OBVIOUS
<1>1. /\ asStreams = << >> /\ asStream = 0 /\ asConnected = FALSE /\ asAttempts = 0
      /\ asTimers = {} /\ asTimer = 0 /\ asClosed = FALSE /\ asDouble = FALSE
      /\ asOpening = {} /\ asCrossed = FALSE
      /\ asOptions \in [kind : {"agent", "task"}, auto : BOOLEAN]
  BY DEF AsInit
<1>2. asStreams \in Seq({"open", "cancelled", "gone"}) /\ Len(asStreams) = 0 /\ DOMAIN asStreams = {}
  BY <1>1, EmptySeq, LenProperties
<1>3. OpenStreams = {}
  BY <1>2 DEF OpenStreams
<1>4. AsTypes
  <2>1. asStream \in 0..Len(asStreams) /\ asAttempts \in 0..MaxReopens /\ asTimers \subseteq 1..asTimer /\ asTimer \in Nat
    BY <1>1, <1>2, ReopensAssumption
  <2> QED
    BY <1>1, <1>2, <2>1 DEF AsTypes, AsTypeOK
<1> QED
  BY <1>1, <1>2, <1>3, <1>4 DEF AsIInv, ConnectedIsAlive, OpeningIsCurrent, ClosedStaysClosed, AsOrderly

\* A connected client whose calls do not cross has a live stream, and a closed one
\* none (stream-client.ts).
LEMMA StreamClientStaysSafe == AsSpec => [](AsTypeOK /\ ConnectedIsAlive /\ ClosedStaysClosed)
<1>1. AsIInv => AsTypeOK /\ ConnectedIsAlive /\ ClosedStaysClosed
  BY DEF AsIInv, AsTypes
<1> QED
  BY <1>1, AsInitIInv, AsStep, PTL DEF AsSpec

\* However timers, aborts, errors and ends race: the consumer of a model's answer gets
\* all of it or knows why not, the server learns of it, and a stream client whose
\* calls do not cross is connected to a live stream or closed (gateway-client.ts, stream-client.ts).
THEOREM ClientsStaySafe == LcSpec /\ AsSpec => []ClientsSafe
BY CallsStaySafe, StreamClientStaysSafe, PTL DEF ClientsSafe
=============================================================================
