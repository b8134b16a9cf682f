-------------------- MODULE ResilientClientChannelProofs --------------------
(***************************************************************************)
(* Proof that ResilientClient implements DispatchChannel for every value  *)
(* of the constants.                                                       *)
(*                                                                         *)
(* A dispatch step of the server maps to Channel!Dispatch, which needs the *)
(* message to be submitted already and ready (OInv).  An accepted ack maps *)
(* to Channel!Acknowledge, which needs the acked set to be exactly the     *)
(* messages before the pending one: AInv states that acked holds every    *)
(* message before the first unacknowledged one (the pending message, else *)
(* the head of the send queue, else the next to be submitted) and nothing *)
(* else, and that no request on the wire carries an unsubmitted message. *)
(***************************************************************************)
EXTENDS ResilientClientOrderProofs

(* the first message whose ack the client has not accepted *)
NextUnacked ==
    IF pendingMessage \in Msgs THEN pendingMessage
    ELSE IF sendQueue # << >> THEN sendQueue[1]
    ELSE submitted + 1

AInv ==
    /\ acked = 1..(NextUnacked - 1)
    /\ \A r \in toServer : r.msg <= submitted
    /\ pendingMessage <= submitted

USE ConstantsAssumption

(* At start nothing is submitted, pending or acknowledged. *)
LEMMA InitAInv == Init => AInv
BY DEF Init, AInv, NextUnacked, Msgs, None

(* The head of a nonempty send queue is a submitted business message. *)
LEMMA QueueHeadSubmitted ==
    ASSUME IInv, OInv, sendQueue # << >>
    PROVE  sendQueue[1] \in Msgs /\ sendQueue[1] <= submitted
<1>1. sendQueue \in Seq(Msgs) /\ Len(sendQueue) \in Nat /\ Len(sendQueue) > 0
  BY DEF IInv, TypeOK
<1>2. sendQueue[1] \in Msgs /\ sendQueue[Len(sendQueue)] \in Msgs
  BY <1>1
<1>3. sendQueue[Len(sendQueue)] = sendQueue[1] + (Len(sendQueue) - 1)
      /\ sendQueue[Len(sendQueue)] = submitted
  BY <1>1 DEF OInv, QueueInOrder
<1> QED  BY <1>1, <1>2, <1>3 DEF Msgs

(* A step that changes neither the queue, the pending message, the count  *)
(* of submitted messages nor acked, and only removes requests from the    *)
(* wire or marks them stale, keeps AInv.                                   *)
LEMMA WireOnlyAInv ==
    ASSUME AInv, UNCHANGED <<sendQueue, pendingMessage, submitted, acked>>,
           \A r \in toServer' : \E s \in toServer : r.msg = s.msg
    PROVE  AInv'
BY DEF AInv, NextUnacked

(* _disconnect keeps the messages of the requests it marks stale. *)
LEMMA DisconnectWire ==
    ASSUME toServer \subseteq Requests, Disconnect
    PROVE  \A r \in toServer' : \E s \in toServer : r.msg = s.msg
<1> SUFFICES ASSUME NEW s \in toServer
             PROVE  [s EXCEPT !.stale = TRUE].msg = s.msg
  BY DEF Disconnect
<1> QED  BY DEF Requests

(* Dropping a handshake that is pending, or putting nothing in its place, *)
(* leaves the first unacknowledged message where it was.                   *)
LEMMA NoBusinessPendingAInv ==
    ASSUME AInv, pendingMessage \notin Msgs, pendingMessage' \notin Msgs,
           pendingMessage' <= submitted,
           UNCHANGED <<sendQueue, submitted, acked>>,
           \A r \in toServer' : r.msg <= submitted
    PROVE  AInv'
BY DEF AInv, NextUnacked

(* The client's status handlers move no business message. *)
LEMMA HandleStatusDisconnectedAInv ==
    ASSUME IInv, AInv, HandleStatusDisconnected
    PROVE  AInv'
<1>1. pendingMessage = None /\ submitted \in Nat
  BY DEF HandleStatusDisconnected, IInv, DisconnectedNothingPending, TypeOK
<1>2. \A r \in toServer' : r.msg <= submitted
  BY <1>1 DEF HandleStatusDisconnected, SendMessage, AInv, Handshake
<1> QED  BY <1>1, <1>2, NoBusinessPendingAInv
         DEF HandleStatusDisconnected, Handshake, None, Msgs

(* An idle disconnect only marks the requests on the wire stale. *)
LEMMA HandleStatusConnectedIdleAInv ==
    ASSUME IInv, AInv, HandleStatusConnectedIdle
    PROVE  AInv'
BY WireOnlyAInv, DisconnectWire DEF HandleStatusConnectedIdle, IInv, TypeOK

(* A handshake timeout drops the handshake, not a business message. *)
LEMMA HandleStatusHandshakingAInv ==
    ASSUME IInv, AInv, HandleStatusHandshaking
    PROVE  AInv'
<1>1. pendingMessage = Handshake /\ submitted \in Nat
  BY DEF HandleStatusHandshaking, IInv, HandshakingIffHandshake, TypeOK
<1>2. \A r \in toServer' : r.msg <= submitted
  BY DisconnectWire DEF HandleStatusHandshaking, IInv, TypeOK, AInv
<1> QED  BY <1>1, <1>2, NoBusinessPendingAInv
         DEF HandleStatusHandshaking, Handshake, None, Msgs

(* An ack timeout puts the pending message back at the head of the queue, *)
(* where it is still the first unacknowledged message.                     *)
LEMMA HandleStatusConnectedTimeoutAInv ==
    ASSUME IInv, OInv, AInv, HandleStatusConnectedTimeout
    PROVE  AInv'
<1>1. PICK p \in Msgs : p = pendingMessage
  BY DEF HandleStatusConnectedTimeout, IInv, TypeOK, HandshakingIffHandshake,
         Sendable, None, Handshake, Msgs
<1>2. PICK q \in Seq(Msgs) : q = sendQueue
  BY DEF IInv, TypeOK
<1>3. sendQueue' = <<p>> \o q /\ pendingMessage' = None /\ None \notin Msgs
  BY <1>1, <1>2 DEF HandleStatusConnectedTimeout, None, Msgs
<1>4. (<<p>> \o q)[1] = p /\ <<p>> \o q # << >>
  BY <1>2
<1>5. NextUnacked' = NextUnacked
  BY <1>1, <1>3, <1>4 DEF HandleStatusConnectedTimeout, NextUnacked
<1>6. \A r \in toServer' : r.msg <= submitted'
  BY DisconnectWire DEF HandleStatusConnectedTimeout, IInv, TypeOK, AInv
<1>7. submitted \in Nat
  BY DEF IInv, TypeOK
<1> QED  BY <1>3, <1>5, <1>6, <1>7 DEF HandleStatusConnectedTimeout, AInv, None

(* Requests leaving the wire, delivered or lost, or acks lost, change     *)
(* nothing AInv reads but the wire.                                         *)
LEMMA ServerReceiveAInv ==
    ASSUME AInv, ServerReceive
    PROVE  AInv'
BY WireOnlyAInv DEF ServerReceive

(* A lost request or ack only shrinks the wire. *)
LEMMA LoseAInv ==
    ASSUME AInv, LoseRequest \/ LoseAck
    PROVE  AInv'
BY WireOnlyAInv DEF LoseRequest, LoseAck

(* queue_message_for_send either makes the new message pending, when the   *)
(* client is connected and idle and so the queue is empty, or appends it,  *)
(* behind any message not yet acknowledged.                                *)
LEMMA QueueMessageForSendAInv ==
    ASSUME IInv, AInv, QueueMessageForSend
    PROVE  AInv'
<1> DEFINE m == submitted + 1
<1>1. /\ submitted \in 0..(MaxMessages - 1) /\ submitted' = m /\ m \in Msgs
      /\ sendQueue \in Seq(Msgs) /\ UNCHANGED acked
      /\ \A r \in toServer : r.msg \in Int
      /\ pendingMessage \in Int
  BY DEF QueueMessageForSend, IInv, TypeOK, Msgs, Requests, Sendable, None, Handshake
<1>2. \A r \in toServer : r.msg <= submitted'
  BY <1>1 DEF AInv
<1>3. CASE status = "connected" /\ pendingMessage = None
  <2>1. sendQueue = << >> /\ NextUnacked = m
    BY <1>3 DEF IInv, IdleMeansQueueEmpty, NextUnacked, None, Msgs
  <2>2. pendingMessage' = m /\ toServer' = toServer \cup {[msg |-> m, stale |-> FALSE]}
    BY <1>3 DEF QueueMessageForSend, SendMessage
  <2>3. NextUnacked' = m
    BY <1>1, <2>2 DEF NextUnacked
  <2> QED  BY <1>1, <1>2, <2>1, <2>2, <2>3 DEF AInv
<1>4. CASE ~(status = "connected" /\ pendingMessage = None)
  <2>1. sendQueue' = Append(sendQueue, m) /\ UNCHANGED <<pendingMessage, toServer>>
    BY <1>4 DEF QueueMessageForSend
  <2>2. sendQueue' # << >> /\ sendQueue'[1] = IF sendQueue = << >> THEN m ELSE sendQueue[1]
    BY <1>1, <2>1
  <2>3. NextUnacked' = NextUnacked
    BY <1>1, <2>1, <2>2 DEF NextUnacked
  <2>4. pendingMessage' <= submitted'
    BY <1>1, <2>1 DEF AInv
  <2> QED  BY <1>1, <1>2, <2>1, <2>3, <2>4 DEF AInv
<1> QED  BY <1>3, <1>4

(* _pollster_callback accepting the pending message's ack: the acked set  *)
(* grows by exactly the first unacknowledged message, and the head of the *)
(* queue, its successor, is the next one.                                  *)
LEMMA PollsterCallbackAInv ==
    ASSUME IInv, OInv, AInv, PollsterCallback
    PROVE  AInv'
<1>1. PICK a \in toClient :
         /\ toClient' = toClient \ {a}
         /\ IF pendingMessage = None \/ a # pendingMessage
               THEN UNCHANGED <<status, sendQueue, pendingMessage, toServer, acked>>
               ELSE AckReceived
         /\ UNCHANGED <<submitted, delivered, lost, spurious>>
  BY DEF PollsterCallback
<1>2. PICK p \in Sendable : p = pendingMessage /\ a = p
  BY DEF IInv, AcksMatchPending, TypeOK
<1>3. PICK q \in Seq(Msgs) : q = sendQueue
  BY DEF IInv, TypeOK
<1>4. AckReceived /\ None \notin Msgs /\ Handshake \notin Msgs /\ submitted \in Nat
  BY <1>1, <1>2 DEF None, Handshake, Sendable, Msgs, IInv, TypeOK
<1>5. \A r \in toServer : r.msg <= submitted
  BY DEF AInv
<1>6. CASE q = << >>
  <2>1. pendingMessage' = None /\ UNCHANGED <<sendQueue, toServer>>
    BY <1>3, <1>4, <1>6 DEF AckReceived
  <2>2. NextUnacked' = submitted + 1
    BY <1>1, <1>4, <2>1, <1>3, <1>6 DEF NextUnacked
  <2>3. acked' = 1..submitted
    <3>1. CASE p \in Msgs
      <4>1. submitted = p /\ acked = 1..(p - 1)
        BY <1>2, <1>3, <1>6, <3>1 DEF OInv, QueueInOrder, AInv, NextUnacked
      <4>2. acked' = acked \cup {p}
        BY <1>2, <1>4, <3>1 DEF AckReceived
      <4> QED  BY <4>1, <4>2, <3>1 DEF Msgs
    <3>2. CASE p \notin Msgs
      BY <1>2, <1>3, <1>4, <1>6, <3>2 DEF AckReceived, AInv, NextUnacked, Sendable
    <3> QED  BY <3>1, <3>2
  <2> QED  BY <1>1, <1>4, <1>5, <2>1, <2>2, <2>3 DEF AInv, None
<1>7. CASE q # << >>
  <2>1. PICK h \in Msgs : h = q[1] /\ h <= submitted
    BY <1>3, <1>7, QueueHeadSubmitted
  <2>2. /\ pendingMessage' = h /\ h = Head(q)
        /\ toServer' = toServer \cup {[msg |-> h, stale |-> FALSE]}
    BY <1>3, <1>4, <1>7, <2>1 DEF AckReceived, SendMessage
  <2>3. NextUnacked' = h
    BY <2>1, <2>2 DEF NextUnacked
  <2>4. acked' = 1..(h - 1)
    <3>1. CASE p \in Msgs
      <4>1. h = p + 1 /\ acked = 1..(p - 1)
        BY <1>2, <1>3, <1>7, <2>1, <3>1 DEF OInv, QueueInOrder, AInv, NextUnacked
      <4>2. acked' = acked \cup {p}
        BY <1>2, <1>4, <3>1 DEF AckReceived
      <4> QED  BY <4>1, <4>2, <3>1 DEF Msgs
    <3>2. CASE p \notin Msgs
      BY <1>2, <1>3, <1>4, <1>7, <2>1, <3>2 DEF AckReceived, AInv, NextUnacked, Sendable
    <3> QED  BY <3>1, <3>2
  <2> QED  BY <1>1, <1>5, <2>1, <2>2, <2>3, <2>4 DEF AInv
<1> QED  BY <1>6, <1>7

(* Every step of the client, the server or the network keeps AInv. *)
LEMMA NextAInv == IInv /\ OInv /\ AInv /\ [Next]_vars => AInv'
<1> SUFFICES ASSUME IInv, OInv, AInv, [Next]_vars PROVE AInv'
  OBVIOUS
<1>1. CASE QueueMessageForSend             BY <1>1, QueueMessageForSendAInv
<1>2. CASE HandleStatusDisconnected        BY <1>2, HandleStatusDisconnectedAInv
<1>3. CASE HandleStatusConnectedIdle       BY <1>3, HandleStatusConnectedIdleAInv
<1>4. CASE HandleStatusConnectedTimeout    BY <1>4, HandleStatusConnectedTimeoutAInv
<1>5. CASE HandleStatusHandshaking         BY <1>5, HandleStatusHandshakingAInv
<1>6. CASE PollsterCallback                BY <1>6, PollsterCallbackAInv
<1>7. CASE ServerReceive                   BY <1>7, ServerReceiveAInv
<1>8. CASE LoseRequest \/ LoseAck          BY <1>8, LoseAInv
<1>9. CASE UNCHANGED vars                  BY <1>9 DEF vars, AInv, NextUnacked
<1> QED  BY <1>1, <1>2, <1>3, <1>4, <1>5, <1>6, <1>7, <1>8, <1>9 DEF Next

(* The server's receipt of a business request is a dispatch of the abstract *)
(* channel: the message was submitted and its predecessor dispatched.       *)
LEMMA ServerReceiveMaps ==
    ASSUME IInv, OInv, AInv, ServerReceive
    PROVE  [Channel!Next]_Channel!vars
<1>1. PICK r \in toServer :
         /\ delivered' = IF r.msg = Handshake THEN delivered
                         ELSE Append(delivered, r.msg)
         /\ UNCHANGED <<submitted, acked>>
  BY DEF ServerReceive
<1>2. r.msg \in Sendable /\ r.msg <= submitted
  BY DEF IInv, TypeOK, Requests, AInv
<1>3. CASE r.msg = Handshake
  BY <1>1, <1>3 DEF Channel!vars
<1>4. CASE r.msg # Handshake
  <2>1. r.msg \in Msgs /\ Ready(r.msg)
    BY <1>2, <1>4 DEF Sendable, OInv, InFlightReady
  <2>2. Channel!Dispatch(r.msg)
    BY <1>1, <1>2, <1>4, <2>1 DEF Channel!Dispatch, Channel!Dispatched, Ready, InDelivered
  <2> QED  BY <2>1, <2>2 DEF Channel!Next, Channel!Msgs, Msgs
<1> QED  BY <1>3, <1>4

(* The client's acceptance of its pending message's ack is an abstract     *)
(* acknowledgement: the message was dispatched and is the first one not    *)
(* acknowledged yet.  A handshake ack changes nothing the channel shows.   *)
LEMMA PollsterCallbackMaps ==
    ASSUME IInv, OInv, AInv, PollsterCallback
    PROVE  [Channel!Next]_Channel!vars
<1>1. PICK a \in toClient :
         /\ IF pendingMessage = None \/ a # pendingMessage
               THEN UNCHANGED <<status, sendQueue, pendingMessage, toServer, acked>>
               ELSE AckReceived
         /\ UNCHANGED <<submitted, delivered, lost, spurious>>
  BY DEF PollsterCallback
<1>2. PICK p \in Sendable : p = pendingMessage /\ a = p
  BY DEF IInv, AcksMatchPending, TypeOK
<1>3. AckReceived /\ None \notin Sendable
  BY <1>1, <1>2 DEF None, Handshake, Sendable, Msgs
<1>4. CASE p = Handshake
  BY <1>1, <1>2, <1>3, <1>4 DEF AckReceived, Channel!vars
<1>5. CASE p # Handshake
  <2>1. p \in Msgs /\ acked' = acked \cup {p}
    BY <1>2, <1>3, <1>5 DEF AckReceived, Sendable
  <2>2. InDelivered(p)
    BY <1>1, <1>2, <2>1 DEF OInv, InFlightReady
  <2>3. acked = 1..(p - 1)
    BY <1>2, <2>1 DEF AInv, NextUnacked
  <2>4. p \notin acked /\ (p = 1 \/ p - 1 \in acked)
    BY <2>1, <2>3 DEF Msgs
  <2>5. Channel!Acknowledge(p)
    BY <1>1, <2>1, <2>2, <2>4 DEF Channel!Acknowledge, Channel!Dispatched, InDelivered
  <2> QED  BY <2>1, <2>5 DEF Channel!Next, Channel!Msgs, Msgs
<1> QED  BY <1>4, <1>5

(* Every step of ResilientClient is a step of DispatchChannel under the    *)
(* mapping, or leaves submitted, delivered and acked alone.                 *)
LEMMA NextMaps == IInv /\ OInv /\ AInv /\ [Next]_vars => [Channel!Next]_Channel!vars
<1> SUFFICES ASSUME IInv, OInv, AInv, [Next]_vars PROVE [Channel!Next]_Channel!vars
  OBVIOUS
<1>1. CASE QueueMessageForSend
  <2>1. Channel!Submit
    BY <1>1 DEF QueueMessageForSend, Channel!Submit
  <2> QED  BY <2>1 DEF Channel!Next
<1>2. CASE \/ HandleStatusDisconnected \/ HandleStatusConnectedIdle
           \/ HandleStatusConnectedTimeout \/ HandleStatusHandshaking
           \/ LoseRequest \/ LoseAck \/ UNCHANGED vars
  BY <1>2 DEF HandleStatusDisconnected, HandleStatusConnectedIdle,
              HandleStatusConnectedTimeout, HandleStatusHandshaking,
              LoseRequest, LoseAck, vars, Channel!vars
<1>3. CASE PollsterCallback                BY <1>3, PollsterCallbackMaps
<1>4. CASE ServerReceive                   BY <1>4, ServerReceiveMaps
<1> QED  BY <1>1, <1>2, <1>3, <1>4 DEF Next

(* ResilientClient implements DispatchChannel (ImplementsDispatchChannel), *)
(* for every MaxMessages, MaxLoss and MaxSpurious: through ack timeouts    *)
(* that requeue the pending message at the head, handshake timeouts, idle *)
(* disconnects, stale requests and lost requests and acks, the server only *)
(* dispatches submitted messages after their predecessor, and the client  *)
(* accepts each message's ack once, in submission order, after dispatch.  *)
THEOREM ImplementsDispatchChannelTheorem == Spec => ImplementsDispatchChannel
<1>1. Spec => [](IInv /\ OInv /\ AInv)
  <2>1. Init => IInv /\ OInv /\ AInv
    BY InitIInv, InitOInv, InitAInv
  <2>2. IInv /\ OInv /\ AInv /\ [Next]_vars => (IInv /\ OInv /\ AInv)'
    BY NextIInv, NextOInv, NextAInv
  <2> QED  BY <2>1, <2>2, PTL DEF Spec
<1>2. Init => Channel!Init
  BY DEF Init, Channel!Init
<1> QED  BY <1>1, <1>2, NextMaps, PTL DEF Spec, ImplementsDispatchChannel, Channel!Spec

=============================================================================
