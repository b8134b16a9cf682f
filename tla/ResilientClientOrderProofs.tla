--------------------- MODULE ResilientClientOrderProofs ---------------------
(***************************************************************************)
(* Proof that the resilient server dispatches business messages in queue  *)
(* order for every value of the constants.                                 *)
(*                                                                         *)
(* PredecessorDispatchedFirst speaks only of delivered; a step can be shown *)
(* to keep it only if every message that can still reach the server is     *)
(* ready, its predecessor dispatched already.  The requests on the wire,    *)
(* stale ones included, and the pending message are ready; so is the head  *)
(* of the send queue, or else it follows the pending message; the queue    *)
(* holds consecutive messages up to the last one submitted.  OInv states    *)
(* this, on top of the client invariant IInv of ResilientClientProofs.     *)
(***************************************************************************)
EXTENDS ResilientClientProofs

(* the server has dispatched message x *)
InDelivered(x) == \E j \in 1..Len(delivered) : delivered[j] = x

(* message m may be dispatched now without overtaking its predecessor *)
Ready(m) == m = 1 \/ InDelivered(m - 1)

(* Every request on the wire, fresh or stale, and the pending message are  *)
(* ready; acks on the wire and accepted acks are of dispatched messages.   *)
InFlightReady ==
    /\ \A r \in toServer : r.msg \in Msgs => Ready(r.msg)
    /\ pendingMessage \in Msgs => Ready(pendingMessage)
    /\ \A a \in toClient : a \in Msgs => InDelivered(a)
    /\ \A m \in acked : InDelivered(m)

(* The send queue holds consecutive messages up to the last one submitted, *)
(* and its head follows the pending message or is ready.                   *)
QueueInOrder ==
    /\ \A i \in 1..Len(sendQueue) : sendQueue[i] = sendQueue[1] + (i - 1)
    /\ sendQueue # << >> =>
          /\ sendQueue[Len(sendQueue)] = submitted
          /\ IF pendingMessage \in Msgs THEN sendQueue[1] = pendingMessage + 1
                                        ELSE Ready(sendQueue[1])
    /\ sendQueue = << >> =>
          IF pendingMessage \in Msgs THEN submitted = pendingMessage
                                     ELSE submitted = 0 \/ InDelivered(submitted)

OInv == PredecessorDispatchedFirst /\ InFlightReady /\ QueueInOrder

USE ConstantsAssumption

(* At start nothing is on the wire, pending, queued or dispatched. *)
LEMMA InitOInv == Init => OInv
BY DEF Init, OInv, PredecessorDispatchedFirst, InFlightReady, QueueInOrder, Msgs,
       None, Handshake

(* Dispatching a ready message keeps the dispatch order and everything     *)
(* dispatched so far.                                                      *)
LEMMA DispatchReady ==
    ASSUME delivered \in Seq(Msgs), PredecessorDispatchedFirst,
           NEW m \in Msgs, Ready(m), delivered' = Append(delivered, m)
    PROVE  /\ PredecessorDispatchedFirst'
           /\ InDelivered(m)'
           /\ \A x : InDelivered(x) => InDelivered(x)'
<1>1. /\ Len(delivered') = Len(delivered) + 1
      /\ \A i \in 1..Len(delivered) : delivered'[i] = delivered[i]
      /\ delivered'[Len(delivered) + 1] = m
      /\ Len(delivered) \in Nat
  BY AppendProperties
<1>2. \A x : InDelivered(x) => InDelivered(x)'
  BY <1>1 DEF InDelivered
<1>3. InDelivered(m)'
  BY <1>1 DEF InDelivered
<1>4. PredecessorDispatchedFirst'
  <2> SUFFICES ASSUME NEW i \in 1..Len(delivered'), delivered'[i] > 1
               PROVE  \E j \in 1..(i - 1) : delivered'[j] = delivered'[i] - 1
    BY DEF PredecessorDispatchedFirst
  <2>1. CASE i <= Len(delivered)
    <3>1. PICK j \in 1..(i - 1) : delivered[j] = delivered[i] - 1
      BY <1>1, <2>1 DEF PredecessorDispatchedFirst
    <3> QED  BY <1>1, <2>1, <3>1
  <2>2. CASE i = Len(delivered) + 1
    <3>1. PICK j \in 1..Len(delivered) : delivered[j] = m - 1
      BY <1>1, <2>2 DEF Ready, InDelivered
    <3> QED  BY <1>1, <2>2, <3>1
  <2> QED  BY <1>1, <2>1, <2>2
<1> QED  BY <1>2, <1>3, <1>4

(* What was ready stays ready while the dispatched messages only grow. *)
LEMMA ReadyStays ==
    ASSUME \A x : InDelivered(x) => InDelivered(x)', NEW m, Ready(m)
    PROVE  Ready(m)'
BY DEF Ready

(* A step that leaves the client's queue, pending message and count alone *)
(* and dispatches nothing new out of order keeps QueueInOrder.             *)
LEMMA QueueInOrderStays ==
    ASSUME QueueInOrder, \A x : InDelivered(x) => InDelivered(x)',
           UNCHANGED <<sendQueue, pendingMessage, submitted>>
    PROVE  QueueInOrder'
<1>1. sendQueue # << >> /\ pendingMessage \notin Msgs => Ready(sendQueue[1])'
  BY ReadyStays DEF QueueInOrder
<1>2. sendQueue = << >> /\ pendingMessage \notin Msgs /\ submitted # 0 =>
         InDelivered(submitted)'
  BY DEF QueueInOrder
<1> QED  BY <1>1, <1>2 DEF QueueInOrder

(* The resilient server dispatches a request: its message is ready, so    *)
(* the dispatch order is kept, and its ack is of a dispatched message.    *)
LEMMA ServerReceiveOInv ==
    ASSUME IInv, OInv, ServerReceive
    PROVE  OInv'
<1>1. PICK r \in toServer :
         /\ toServer' = toServer \ {r}
         /\ delivered' = IF r.msg = Handshake THEN delivered
                         ELSE Append(delivered, r.msg)
         /\ toClient' = IF r.stale THEN toClient ELSE toClient \cup {r.msg}
         /\ UNCHANGED <<status, sendQueue, pendingMessage, submitted, acked, lost,
                        spurious>>
  BY DEF ServerReceive
<1>2. r.msg \in Sendable /\ delivered \in Seq(Msgs)
  BY DEF IInv, TypeOK, Requests
<1>3. /\ PredecessorDispatchedFirst'
      /\ \A x : InDelivered(x) => InDelivered(x)'
      /\ r.msg \in Msgs => InDelivered(r.msg)'
  <2>1. CASE r.msg = Handshake
    <3>1. r.msg \notin Msgs
      BY <2>1 DEF Handshake, Msgs
    <3> QED  BY <1>1, <2>1, <3>1 DEF OInv, PredecessorDispatchedFirst, InDelivered
  <2>2. CASE r.msg \in Msgs
    <3>1. r.msg # Handshake /\ Ready(r.msg)
      BY <2>2 DEF OInv, InFlightReady, Handshake, Msgs
    <3> QED  BY <1>1, <1>2, <2>2, <3>1, DispatchReady DEF OInv
  <2> QED  BY <1>2, <2>1, <2>2 DEF Sendable
<1>4. InFlightReady'
  <2>1. \A q \in toServer' : q.msg \in Msgs => Ready(q.msg)'
    BY <1>1, <1>3, ReadyStays DEF OInv, InFlightReady
  <2>3. (pendingMessage \in Msgs => Ready(pendingMessage))'
    BY <1>1, <1>3 DEF OInv, InFlightReady, Ready
  <2>4. \A a \in toClient' : a \in Msgs => InDelivered(a)'
    BY <1>1, <1>3 DEF OInv, InFlightReady
  <2>5. \A m \in acked' : InDelivered(m)'
    BY <1>1, <1>3 DEF OInv, InFlightReady
  <2> QED  BY <2>1, <2>3, <2>4, <2>5 DEF InFlightReady
<1>5. QueueInOrder'
  BY <1>1, <1>3, QueueInOrderStays DEF OInv
<1> QED  BY <1>3, <1>4, <1>5 DEF OInv

(* Closing the socket marks the requests on the wire stale but keeps     *)
(* their messages, and drops the acks: nothing becomes unready.  An idle  *)
(* disconnect keeps the pending message (None); a handshake timeout drops  *)
(* the handshake.                                                          *)
LEMMA DisconnectOInv ==
    ASSUME IInv, OInv, Disconnect,
           UNCHANGED <<sendQueue, submitted, delivered, acked>>,
           \/ pendingMessage' = pendingMessage
           \/ pendingMessage \notin Msgs /\ pendingMessage' = None
    PROVE  OInv'
<1>1. \A q \in toServer' : \E r \in toServer : q.msg = r.msg
  <2>1. toServer \subseteq Requests
    BY DEF IInv, TypeOK
  <2> QED  BY <2>1 DEF Disconnect, Requests
<1>2. None \notin Msgs
  BY DEF None, Msgs
<1>3. InFlightReady'
  BY <1>1, <1>2 DEF Disconnect, OInv, InFlightReady, Ready, InDelivered
<1>4. QueueInOrder'
  BY <1>2 DEF OInv, QueueInOrder, Ready, InDelivered
<1> QED  BY <1>3, <1>4 DEF OInv, PredecessorDispatchedFirst

(* _handle_status_disconnected sends the handshake, which the server      *)
(* never dispatches; nothing was pending.                                  *)
LEMMA HandleStatusDisconnectedOInv ==
    ASSUME IInv, OInv, HandleStatusDisconnected
    PROVE  OInv'
<1>1. pendingMessage = None /\ pendingMessage' = Handshake
      /\ Handshake \notin Msgs /\ None \notin Msgs
  BY DEF HandleStatusDisconnected, IInv, DisconnectedNothingPending, Handshake, None, Msgs
<1>2. /\ toServer' = toServer \cup {[msg |-> Handshake, stale |-> FALSE]}
      /\ UNCHANGED <<sendQueue, submitted, toClient, delivered, acked>>
  BY DEF HandleStatusDisconnected, SendMessage
<1>3. InFlightReady'
  BY <1>1, <1>2 DEF OInv, InFlightReady, Ready, InDelivered
<1>4. QueueInOrder'
  BY <1>1, <1>2 DEF OInv, QueueInOrder, Ready, InDelivered
<1> QED  BY <1>2, <1>3, <1>4 DEF OInv, PredecessorDispatchedFirst

(* The network only takes requests or acks away. *)
LEMMA LoseOInv ==
    ASSUME OInv, LoseRequest \/ LoseAck
    PROVE  OInv'
<1>1. /\ toServer' \subseteq toServer /\ toClient' \subseteq toClient
      /\ UNCHANGED <<sendQueue, pendingMessage, submitted, delivered, acked>>
  BY DEF LoseRequest, LoseAck
<1> QED  BY <1>1 DEF OInv, PredecessorDispatchedFirst, InFlightReady, QueueInOrder,
                     Ready, InDelivered

(* _handle_status_connected on ack timeout puts the pending message back  *)
(* at the head of the queue: it is ready, and the old head followed it.   *)
LEMMA HandleStatusConnectedTimeoutOInv ==
    ASSUME IInv, OInv, HandleStatusConnectedTimeout
    PROVE  OInv'
<1>0. pendingMessage \in Msgs /\ sendQueue \in Seq(Msgs)
  BY DEF HandleStatusConnectedTimeout, IInv, TypeOK, HandshakingIffHandshake,
         Sendable, None, Handshake, Msgs
<1>a. PICK p \in Msgs : p = pendingMessage
  BY <1>0
<1>b. PICK q \in Seq(Msgs) : q = sendQueue
  BY <1>0
<1>1. p \in Msgs /\ q \in Seq(Msgs) /\ Ready(p)
  BY <1>a, <1>b DEF OInv, InFlightReady
<1>2. /\ sendQueue' = <<p>> \o q /\ pendingMessage' = None
      /\ UNCHANGED <<submitted, delivered, acked>>
  BY <1>a, <1>b DEF HandleStatusConnectedTimeout
<1>3. /\ Len(sendQueue') = Len(q) + 1
      /\ sendQueue'[1] = p
      /\ \A i \in 2..(Len(q) + 1) : sendQueue'[i] = q[i - 1]
      /\ Len(q) \in Nat
  <2>1. <<p>> \in Seq(Msgs)
    BY <1>1
  <2>2. /\ Len(<<p>> \o q) = Len(<<p>>) + Len(q)
        /\ \A i \in 1 .. Len(<<p>>) + Len(q) : (<<p>> \o q)[i] =
              IF i <= Len(<<p>>) THEN <<p>>[i] ELSE q[i - Len(<<p>>)]
    BY <1>1, <2>1, ConcatProperties
  <2> QED  BY <1>1, <1>2, <2>2
<1>4. InFlightReady'
  <2>1. (OInv /\ Disconnect /\ UNCHANGED <<submitted, delivered, acked>>) =>
           /\ \A r \in toServer' : r.msg \in Msgs => Ready(r.msg)'
           /\ \A a \in toClient' : a \in Msgs => InDelivered(a)'
           /\ \A m \in acked' : InDelivered(m)'
    <3>1. toServer \subseteq Requests
      BY DEF IInv, TypeOK
    <3> QED  BY <3>1 DEF Disconnect, Requests, OInv, InFlightReady, Ready, InDelivered
  <2>2. None \notin Msgs
    BY DEF None, Msgs
  <2> QED  BY <1>2, <2>1, <2>2 DEF HandleStatusConnectedTimeout, InFlightReady
<1>5. QueueInOrder'
  <2>1. \A i \in 1..Len(sendQueue') : sendQueue'[i] = sendQueue'[1] + (i - 1)
    <3> SUFFICES ASSUME NEW i \in 1..(Len(q) + 1)
                 PROVE  sendQueue'[i] = p + (i - 1)
      BY <1>3
    <3>1. CASE i = 1
      BY <1>a, <1>3, <3>1 DEF Msgs
    <3>2. CASE i # 1
      <4>1. i - 1 \in 1..Len(q) /\ q # << >>
        BY <1>3, <3>2
      <4>2. q[1] = p + 1 /\ q[i - 1] = q[1] + ((i - 1) - 1)
        BY <1>a, <1>b, <4>1 DEF OInv, QueueInOrder
      <4>3. sendQueue'[i] = q[i - 1]
        BY <1>3, <3>2
      <4> QED  BY <1>a, <4>1, <4>2, <4>3 DEF Msgs
    <3> QED  BY <3>1, <3>2
  <2>2. sendQueue'[Len(sendQueue')] = submitted'
    <3>1. CASE q = << >>
      BY <1>a, <1>b, <1>2, <1>3, <3>1 DEF OInv, QueueInOrder
    <3>2. CASE q # << >>
      <4>1. Len(q) > 0 /\ q[Len(q)] = submitted
        BY <1>b, <3>2 DEF OInv, QueueInOrder
      <4> QED  BY <1>2, <1>3, <4>1
    <3> QED  BY <3>1, <3>2
  <2>3. None \notin Msgs /\ sendQueue' # << >> /\ Ready(sendQueue[1])'
    <3>1. Ready(p)'
      BY <1>1, <1>2 DEF Ready, InDelivered
    <3>2. Len(sendQueue') > 0
      BY <1>3
    <3> QED  BY <1>3, <3>1, <3>2 DEF None, Msgs
  <2> QED  BY <1>2, <2>1, <2>2, <2>3 DEF QueueInOrder
<1> QED  BY <1>2, <1>4, <1>5 DEF OInv, PredecessorDispatchedFirst

(* With the queue empty and nothing business pending, the next message is *)
(* ready: every earlier one has been dispatched.                           *)
LEMMA NextSubmittedReady ==
    ASSUME OInv, sendQueue = << >>, pendingMessage \notin Msgs, submitted \in Nat
    PROVE  Ready(submitted + 1)
BY DEF OInv, QueueInOrder, Ready

(* queue_message_for_send: sent at once when connected and idle, which    *)
(* only happens with an empty queue; else appended after the last          *)
(* submitted message.                                                      *)
LEMMA QueueMessageForSendOInv ==
    ASSUME IInv, OInv, QueueMessageForSend
    PROVE  OInv'
<1>1. /\ submitted \in 0..(MaxMessages - 1) /\ submitted' = submitted + 1
      /\ submitted + 1 \in Msgs /\ sendQueue \in Seq(Msgs)
      /\ UNCHANGED <<toClient, delivered, acked>>
  BY DEF QueueMessageForSend, IInv, TypeOK, Msgs
<1>2. CASE status = "connected" /\ pendingMessage = None
  <2>1. /\ pendingMessage' = submitted + 1
        /\ toServer' = toServer \cup {[msg |-> submitted + 1, stale |-> FALSE]}
        /\ UNCHANGED sendQueue
    BY <1>2 DEF QueueMessageForSend, SendMessage
  <2>2. sendQueue = << >> /\ pendingMessage \notin Msgs
    BY <1>2 DEF IInv, IdleMeansQueueEmpty, None, Msgs
  <2>3. Ready(submitted + 1)
    BY <1>1, <2>2, NextSubmittedReady
  <2>4. InFlightReady'
    BY <1>1, <2>1, <2>3 DEF OInv, InFlightReady, Ready, InDelivered
  <2>5. QueueInOrder'
    BY <1>1, <2>1, <2>2 DEF QueueInOrder
  <2> QED  BY <1>1, <2>4, <2>5 DEF OInv, PredecessorDispatchedFirst
<1>3. CASE ~(status = "connected" /\ pendingMessage = None)
  <2>1. /\ sendQueue' = Append(sendQueue, submitted + 1)
        /\ UNCHANGED <<pendingMessage, toServer>>
    BY <1>3 DEF QueueMessageForSend
  <2>2. /\ Len(sendQueue') = Len(sendQueue) + 1
        /\ \A i \in 1..Len(sendQueue) : sendQueue'[i] = sendQueue[i]
        /\ sendQueue'[Len(sendQueue) + 1] = submitted + 1
        /\ Len(sendQueue) \in Nat
    BY <1>1, <2>1, AppendProperties
  <2>3. InFlightReady'
    BY <1>1, <2>1 DEF OInv, InFlightReady, Ready, InDelivered
  <2>4. ASSUME sendQueue = << >> PROVE QueueInOrder'
    <3>1. sendQueue' = <<submitted + 1>>
      BY <2>1, <2>4
    <3>2. pendingMessage \in Msgs => submitted + 1 = pendingMessage + 1
      BY <2>4 DEF OInv, QueueInOrder
    <3>3. pendingMessage \notin Msgs => Ready(submitted + 1)
      BY <1>1, <2>4, NextSubmittedReady
    <3>4. (pendingMessage \notin Msgs => Ready(sendQueue[1]))'
      BY <1>1, <2>1, <3>1, <3>3 DEF Ready, InDelivered
    <3> QED  BY <1>1, <2>1, <3>1, <3>2, <3>4 DEF QueueInOrder
  <2>5. ASSUME sendQueue # << >> PROVE QueueInOrder'
    <3>1. Len(sendQueue) > 0 /\ sendQueue'[1] = sendQueue[1]
      BY <2>2, <2>5
    <3>2. /\ \A i \in 1..Len(sendQueue) : sendQueue[i] = sendQueue[1] + (i - 1)
          /\ sendQueue[Len(sendQueue)] = submitted
          /\ IF pendingMessage \in Msgs THEN sendQueue[1] = pendingMessage + 1
                                        ELSE Ready(sendQueue[1])
      BY <2>5 DEF OInv, QueueInOrder
    <3>3. \A i \in 1..Len(sendQueue') : sendQueue'[i] = sendQueue'[1] + (i - 1)
      <4> SUFFICES ASSUME NEW i \in 1..Len(sendQueue')
                   PROVE  sendQueue'[i] = sendQueue[1] + (i - 1)
        BY <3>1
      <4>1. CASE i <= Len(sendQueue)
        BY <2>2, <3>2, <4>1
      <4>2. CASE i = Len(sendQueue) + 1
        <5>1. sendQueue[1] \in Msgs
          BY <1>1, <3>1
        <5>2. sendQueue[Len(sendQueue)] = sendQueue[1] + (Len(sendQueue) - 1)
          BY <3>1, <3>2
        <5>3. sendQueue'[i] = submitted + 1
          BY <2>2, <4>2
        <5>4. submitted = sendQueue[1] + (Len(sendQueue) - 1)
          BY <3>2, <5>2
        <5> QED  BY <1>1, <2>2, <4>2, <5>1, <5>3, <5>4 DEF Msgs
      <4> QED  BY <2>2, <4>1, <4>2
    <3>4. (IF pendingMessage \in Msgs THEN sendQueue[1] = pendingMessage + 1
                                      ELSE Ready(sendQueue[1]))'
      BY <1>1, <2>1, <3>1, <3>2 DEF Ready, InDelivered
    <3> QED  BY <1>1, <2>2, <3>3, <3>4 DEF QueueInOrder
  <2> QED  BY <1>1, <2>3, <2>4, <2>5 DEF OInv, PredecessorDispatchedFirst
<1> QED  BY <1>2, <1>3

(* _pollster_callback with the pending message's ack: the message was     *)
(* dispatched, so the head of the queue, which follows it, becomes a ready *)
(* pending message.                                                        *)
LEMMA PollsterCallbackOInv ==
    ASSUME IInv, OInv, PollsterCallback
    PROVE  OInv'
<1>1. PICK a \in toClient :
         /\ toClient' = toClient \ {a}
         /\ IF pendingMessage = None \/ a # pendingMessage
               THEN UNCHANGED <<status, sendQueue, pendingMessage, toServer, acked>>
               ELSE AckReceived
         /\ UNCHANGED <<submitted, delivered, lost, spurious>>
  BY DEF PollsterCallback
<1>2. PICK p \in Sendable : p = pendingMessage /\ a = p
  BY DEF IInv, AcksMatchPending, TypeOK
<1>3. PICK q \in Seq(Msgs) : q = sendQueue
  BY DEF IInv, TypeOK
<1>4. /\ AckReceived
      /\ p \in Msgs => InDelivered(p)
      /\ None \notin Msgs /\ Handshake \notin Msgs
  BY <1>1, <1>2 DEF OInv, InFlightReady, None, Handshake, Sendable, Msgs
<1>5. /\ acked' = IF p = Handshake THEN acked ELSE acked \cup {p}
      /\ \A m \in acked' : InDelivered(m)
  BY <1>2, <1>4 DEF AckReceived, OInv, InFlightReady, Sendable, Handshake, Msgs
<1>6. \A r \in toServer : r.msg \in Msgs => Ready(r.msg)
  BY DEF OInv, InFlightReady
<1>7. \A c \in toClient' : c \in Msgs => InDelivered(c)
  BY <1>1 DEF OInv, InFlightReady
<1>8. CASE q = << >>
  <2>1. pendingMessage' = None /\ UNCHANGED <<sendQueue, toServer>>
    BY <1>3, <1>4, <1>8 DEF AckReceived
  <2>2. submitted = 0 \/ InDelivered(submitted)
    <3>1. CASE p \in Msgs
      BY <1>2, <1>3, <1>4, <1>8, <3>1 DEF OInv, QueueInOrder
    <3>2. CASE p \notin Msgs
      BY <1>2, <1>3, <1>8, <3>2 DEF OInv, QueueInOrder
    <3> QED  BY <3>1, <3>2
  <2>3. InFlightReady'
    BY <1>1, <1>4, <1>5, <1>6, <1>7, <2>1 DEF InFlightReady, Ready, InDelivered
  <2>4. QueueInOrder'
    <3>1. sendQueue' = << >> /\ pendingMessage' \notin Msgs
      BY <1>3, <1>4, <1>8, <2>1
    <3>2. (submitted = 0 \/ InDelivered(submitted))'
      BY <1>1, <2>2 DEF InDelivered
    <3> QED  BY <3>1, <3>2 DEF QueueInOrder
  <2> QED  BY <1>1, <2>3, <2>4 DEF OInv, PredecessorDispatchedFirst
<1>9. CASE q # << >>
  <2>1. PICK h \in Msgs : h = Head(q)
    BY <1>3, <1>9, HeadTailProperties
  <2>2. /\ pendingMessage' = h /\ sendQueue' = Tail(q)
        /\ toServer' = toServer \cup {[msg |-> h, stale |-> FALSE]}
    BY <1>3, <1>4, <1>9, <2>1 DEF AckReceived, SendMessage
  <2>3. /\ Len(Tail(q)) = Len(q) - 1
        /\ \A i \in 1..Len(Tail(q)) : Tail(q)[i] = q[i + 1]
        /\ Len(q) \in Nat /\ Len(q) > 0 /\ h = q[1]
    BY <1>3, <1>9, <2>1, HeadTailProperties
  <2>4. /\ \A i \in 1..Len(q) : q[i] = q[1] + (i - 1)
        /\ q[Len(q)] = submitted
        /\ IF p \in Msgs THEN q[1] = p + 1 ELSE Ready(q[1])
    BY <1>2, <1>3, <1>9 DEF OInv, QueueInOrder
  <2>5. Ready(h)
    <3>1. CASE p \in Msgs
      BY <1>4, <2>3, <2>4, <3>1 DEF Ready, Msgs
    <3>2. CASE p \notin Msgs
      BY <2>3, <2>4, <3>2
    <3> QED  BY <3>1, <3>2
  <2>6. InFlightReady'
    <3>1. Ready(h)'
      BY <1>1, <2>5 DEF Ready, InDelivered
    <3>2. \A m \in acked' : InDelivered(m)'
      BY <1>1, <1>5 DEF InDelivered
    <3>3. \A r \in toServer' : r.msg \in Msgs => Ready(r.msg)'
      BY <1>1, <1>6, <2>2, <3>1 DEF Ready, InDelivered
    <3> QED  BY <1>1, <1>7, <2>1, <2>2, <3>1, <3>2, <3>3 DEF InFlightReady, InDelivered
  <2>7. QueueInOrder'
    <3>1. \A i \in 1..Len(Tail(q)) : Tail(q)[i] = h + i
      BY <2>3, <2>4 DEF Msgs
    <3>2. \A i \in 1..Len(Tail(q)) : Tail(q)[i] = Tail(q)[1] + (i - 1)
      <4> SUFFICES ASSUME NEW i \in 1..Len(Tail(q))
                   PROVE  Tail(q)[i] = Tail(q)[1] + (i - 1)
        OBVIOUS
      <4>1. 1 \in 1..Len(Tail(q))
        BY <2>3
      <4>2. Tail(q)[1] = h + 1 /\ Tail(q)[i] = h + i
        BY <3>1, <4>1
      <4> QED  BY <2>1, <4>2 DEF Msgs
    <3>3. Tail(q) # << >> => Tail(q)[Len(Tail(q))] = submitted /\ Tail(q)[1] = h + 1
      <4> SUFFICES ASSUME Tail(q) # << >> PROVE Tail(q)[Len(Tail(q))] = submitted
                                                /\ Tail(q)[1] = h + 1
        OBVIOUS
      <4>1. Len(Tail(q)) > 0
        BY <1>3, <1>9, HeadTailProperties
      <4>2. Tail(q)[Len(Tail(q))] = q[Len(q)]
        BY <2>3, <4>1
      <4> QED  BY <2>4, <3>1, <4>1, <4>2
    <3>4. Tail(q) = << >> => submitted = h
      <4> SUFFICES ASSUME Tail(q) = << >> PROVE submitted = h
        OBVIOUS
      <4>0. Len(Tail(q)) = 0
        BY <1>3, <1>9, HeadTailProperties
      <4>1. Len(q) = 1
        BY <2>3, <4>0
      <4> QED  BY <2>3, <2>4, <4>1
    <3> QED  BY <1>1, <2>1, <2>2, <3>2, <3>3, <3>4 DEF QueueInOrder
  <2> QED  BY <1>1, <2>6, <2>7 DEF OInv, PredecessorDispatchedFirst
<1> QED  BY <1>8, <1>9

(* An idle disconnect keeps the (absent) pending message. *)
LEMMA HandleStatusConnectedIdleOInv ==
    ASSUME IInv, OInv, HandleStatusConnectedIdle
    PROVE  OInv'
BY DisconnectOInv DEF HandleStatusConnectedIdle

(* A handshake timeout drops the handshake, not a business message. *)
LEMMA HandleStatusHandshakingOInv ==
    ASSUME IInv, OInv, HandleStatusHandshaking
    PROVE  OInv'
<1>1. pendingMessage \notin Msgs
  BY DEF HandleStatusHandshaking, IInv, HandshakingIffHandshake, Handshake, Msgs
<1> QED  BY <1>1, DisconnectOInv DEF HandleStatusHandshaking

(* A stutter step changes none of the variables OInv reads. *)
LEMMA StutterOInv ==
    ASSUME OInv, UNCHANGED vars
    PROVE  OInv'
<1>1. \A x : InDelivered(x) <=> InDelivered(x)'
  BY DEF vars, InDelivered
<1>2. PredecessorDispatchedFirst'
  BY DEF vars, OInv, PredecessorDispatchedFirst
<1>3. InFlightReady'
  BY <1>1 DEF vars, OInv, InFlightReady, Ready
<1>4. QueueInOrder'
  BY <1>1, QueueInOrderStays DEF vars, OInv
<1> QED  BY <1>2, <1>3, <1>4 DEF OInv

(* Every step of the client, the server or the network keeps OInv. *)
LEMMA NextOInv == IInv /\ OInv /\ [Next]_vars => OInv'
<1> SUFFICES ASSUME IInv, OInv, [Next]_vars PROVE OInv'
  OBVIOUS
<1>1. CASE QueueMessageForSend             BY <1>1, QueueMessageForSendOInv
<1>2. CASE HandleStatusDisconnected        BY <1>2, HandleStatusDisconnectedOInv
<1>3. CASE HandleStatusConnectedIdle       BY <1>3, HandleStatusConnectedIdleOInv
<1>4. CASE HandleStatusConnectedTimeout    BY <1>4, HandleStatusConnectedTimeoutOInv
<1>5. CASE HandleStatusHandshaking         BY <1>5, HandleStatusHandshakingOInv
<1>6. CASE PollsterCallback                BY <1>6, PollsterCallbackOInv
<1>7. CASE ServerReceive                   BY <1>7, ServerReceiveOInv
<1>8. CASE LoseRequest \/ LoseAck          BY <1>8, LoseOInv
<1>9. CASE UNCHANGED vars                  BY <1>9, StutterOInv
<1> QED  BY <1>1, <1>2, <1>3, <1>4, <1>5, <1>6, <1>7, <1>8, <1>9 DEF Next

(* IInv and OInv together hold in every reachable state. *)
THEOREM OrderInvariant == Spec => [](IInv /\ OInv)
<1>1. Init => IInv /\ OInv
  BY InitIInv, InitOInv
<1>2. IInv /\ OInv /\ [Next]_vars => (IInv /\ OInv)'
  BY NextIInv, NextOInv
<1> QED  BY <1>1, <1>2, PTL DEF Spec

(* The resilient server dispatches business messages in queue order: no   *)
(* message is dispatched before the one queued just before it, in every    *)
(* behaviour and for every MaxMessages, MaxLoss and MaxSpurious, across    *)
(* the re-send of a timed-out message at the head of the queue (appendleft *)
(* in _handle_status_connected), stale requests of closed sockets still    *)
(* on the wire, handshake timeouts and lost requests and acks.             *)
THEOREM PredecessorDispatchedFirstTheorem == Spec => []PredecessorDispatchedFirst
<1>1. IInv /\ OInv => PredecessorDispatchedFirst
  BY DEF OInv
<1> QED  BY <1>1, OrderInvariant, PTL

=============================================================================
