----------------------- MODULE ResilientClientProofs -----------------------
(***************************************************************************)
(* Proofs about the resilient client for every value of the constants.    *)
(* The safety invariants checked by MCResilientClient.cfg are not          *)
(* inductive by themselves: a step can only be shown to keep them if it is *)
(* also known which requests on the wire are fresh (sent on the open       *)
(* socket) and which message the status implies is pending.  IInv adds     *)
(* those facts.                                                            *)
(***************************************************************************)
EXTENDS ResilientClient, SequenceTheorems, TLAPS

(* A request sent on the open socket is a send of the pending message. *)
FreshMatchPending ==
    \A r \in toServer : ~r.stale => r.msg = pendingMessage

(* The pending message is never both acked on the wire and still on its   *)
(* way to the server over the open socket.                                 *)
AckExcludesFresh ==
    toClient # {} => \A r \in toServer : r.stale

(* The handshake is pending exactly while handshaking. *)
HandshakingIffHandshake ==
    status = "handshaking" <=> pendingMessage = Handshake

(* Nothing is pending while disconnected. *)
DisconnectedNothingPending ==
    status = "disconnected" => pendingMessage = None

IInv ==
    /\ TypeOK
    /\ AcksMatchPending
    /\ FreshMatchPending
    /\ AckExcludesFresh
    /\ HandshakingIffHandshake
    /\ DisconnectedNothingPending
    /\ IdleMeansQueueEmpty
    /\ NoMessageLost

USE ConstantsAssumption

(* The client starts disconnected, with nothing pending or on the wire. *)
LEMMA InitIInv == Init => IInv
BY DEF Init, IInv, TypeOK, AcksMatchPending, FreshMatchPending, AckExcludesFresh,
       HandshakingIffHandshake, DisconnectedNothingPending, IdleMeansQueueEmpty,
       NoMessageLost, Statuses, Sendable, Msgs, None, Handshake

(* A request sent on the open socket is a well-typed request. *)
LEMMA FreshRequestType ==
    ASSUME NEW x \in Sendable
    PROVE  [msg |-> x, stale |-> FALSE] \in Requests
BY DEF Requests

(* Closing the socket leaves only stale requests and no acks. *)
LEMMA DisconnectFacts ==
    ASSUME toServer \subseteq Requests, Disconnect
    PROVE  /\ toServer' \subseteq Requests
           /\ \A r \in toServer' : r.stale
           /\ toClient' = {}
           /\ status' = "disconnected"
BY DEF Disconnect, Requests

(* With nothing pending there is no ack on the wire and no fresh request. *)
LEMMA NothingPendingNothingOnWire ==
    ASSUME TypeOK, AcksMatchPending, FreshMatchPending, pendingMessage = None
    PROVE  /\ toClient = {}
           /\ \A r \in toServer : r.stale
BY DEF TypeOK, AcksMatchPending, FreshMatchPending, Requests, Sendable, Msgs,
       None, Handshake

(* Every step of the client, the server or the network keeps IInv. *)
LEMMA NextIInv == IInv /\ [Next]_vars => IInv'
<1> SUFFICES ASSUME IInv, [Next]_vars PROVE IInv'
  OBVIOUS
<1> USE DEF IInv, Statuses, Sendable, Msgs, None, Handshake, Requests
<1>1. CASE QueueMessageForSend
  <2>1. submitted + 1 \in Msgs /\ submitted' = submitted + 1
    BY <1>1 DEF TypeOK, QueueMessageForSend
  <2>2. CASE status = "connected" /\ pendingMessage = None
    <3>1. /\ pendingMessage' = submitted + 1
          /\ toServer' = toServer \cup {[msg |-> submitted + 1, stale |-> FALSE]}
          /\ UNCHANGED <<status, sendQueue, toClient, delivered, acked, lost, spurious>>
      BY <1>1, <2>2 DEF QueueMessageForSend, SendMessage
    <3>2. toClient = {} /\ \A r \in toServer : r.stale
      BY <2>2, NothingPendingNothingOnWire
    <3>3. TypeOK'
      <4>1. [msg |-> submitted + 1, stale |-> FALSE] \in Requests
        BY <2>1, FreshRequestType
      <4>2. toServer' \subseteq Requests
        BY <3>1, <4>1 DEF TypeOK
      <4>3. pendingMessage' \in Sendable \cup {None}
        BY <2>1, <3>1
      <4>4. QED
        BY <2>1, <3>1, <4>2, <4>3 DEF TypeOK
    <3>4. NoMessageLost'
      <4> SUFFICES ASSUME NEW m \in 1..submitted',
                          m \notin acked', m # pendingMessage'
                   PROVE  \E i \in 1..Len(sendQueue') : sendQueue'[i] = m
        BY DEF NoMessageLost
      <4>1. m \in 1..submitted /\ m \notin acked /\ m # pendingMessage
        BY <2>1, <2>2, <3>1 DEF TypeOK
      <4>2. QED
        BY <3>1, <4>1 DEF NoMessageLost
    <3>5. AcksMatchPending' /\ AckExcludesFresh'
      BY <3>1, <3>2 DEF AcksMatchPending, AckExcludesFresh
    <3>6. FreshMatchPending'
      BY <3>1, <3>2 DEF FreshMatchPending
    <3>7. HandshakingIffHandshake' /\ DisconnectedNothingPending' /\ IdleMeansQueueEmpty'
      BY <2>1, <2>2, <3>1 DEF HandshakingIffHandshake, DisconnectedNothingPending,
         IdleMeansQueueEmpty
    <3>8. QED
      BY <3>3, <3>4, <3>5, <3>6, <3>7
  <2>3. CASE ~(status = "connected" /\ pendingMessage = None)
    <3>1. /\ sendQueue' = Append(sendQueue, submitted + 1)
          /\ UNCHANGED <<status, pendingMessage, toServer, toClient, delivered,
                         acked, lost, spurious>>
      BY <1>1, <2>3 DEF QueueMessageForSend
    <3>2. TypeOK'
      BY <2>1, <3>1 DEF TypeOK
    <3>3. NoMessageLost'
      <4> SUFFICES ASSUME NEW m \in 1..submitted',
                          m \notin acked', m # pendingMessage'
                   PROVE  \E i \in 1..Len(sendQueue') : sendQueue'[i] = m
        BY DEF NoMessageLost
      <4>1. CASE m = submitted + 1
        BY <2>1, <3>1, <4>1 DEF TypeOK
      <4>2. CASE m # submitted + 1
        <5>1. m \in 1..submitted /\ m \notin acked /\ m # pendingMessage
          BY <2>1, <3>1, <4>2 DEF TypeOK
        <5>2. PICK i \in 1..Len(sendQueue) : sendQueue[i] = m
          BY <5>1 DEF NoMessageLost
        <5>3. i \in 1..Len(sendQueue') /\ sendQueue'[i] = m
          BY <2>1, <3>1, <5>2, AppendProperties DEF TypeOK
        <5>4. QED
          BY <5>3
      <4>3. QED
        BY <4>1, <4>2
    <3>4. QED
      BY <2>3, <3>1, <3>2, <3>3 DEF AcksMatchPending, FreshMatchPending,
         AckExcludesFresh, HandshakingIffHandshake, DisconnectedNothingPending,
         IdleMeansQueueEmpty
  <2>4. QED
    BY <2>2, <2>3
<1>2. CASE HandleStatusDisconnected
  <2> USE <1>2 DEF HandleStatusDisconnected
  <2>1. pendingMessage = None
    BY DEF DisconnectedNothingPending
  <2>2. toClient = {} /\ \A r \in toServer : r.stale
    BY <2>1, NothingPendingNothingOnWire
  <2>3. toServer' = toServer \cup {[msg |-> Handshake, stale |-> FALSE]}
    BY DEF SendMessage
  <2>4. TypeOK'
    BY <2>3, FreshRequestType DEF TypeOK
  <2>5. NoMessageLost'
    BY <2>1 DEF NoMessageLost
  <2>6. QED
    BY <2>1, <2>2, <2>3, <2>4, <2>5 DEF AcksMatchPending, FreshMatchPending,
       AckExcludesFresh, HandshakingIffHandshake, DisconnectedNothingPending,
       IdleMeansQueueEmpty
<1>3. CASE HandleStatusConnectedIdle
  <2> USE <1>3 DEF HandleStatusConnectedIdle
  <2>1. /\ toServer' \subseteq Requests
        /\ \A r \in toServer' : r.stale
        /\ toClient' = {}
        /\ status' = "disconnected"
    BY DisconnectFacts DEF TypeOK
  <2>2. QED
    BY <2>1 DEF TypeOK, AcksMatchPending, FreshMatchPending,
       AckExcludesFresh, HandshakingIffHandshake, DisconnectedNothingPending,
       IdleMeansQueueEmpty, NoMessageLost
<1>4. CASE HandleStatusConnectedTimeout
  <2> USE <1>4 DEF HandleStatusConnectedTimeout
  <2>1. /\ toServer' \subseteq Requests
        /\ \A r \in toServer' : r.stale
        /\ toClient' = {}
        /\ status' = "disconnected"
    BY DisconnectFacts DEF TypeOK
  <2>2. pendingMessage \in Msgs
    BY DEF TypeOK, HandshakingIffHandshake
  <2>3. spurious' \in 0..MaxSpurious
    BY DEF TypeOK, AckTimeout
  <2>4. sendQueue' \in Seq(Msgs)
    BY <2>2 DEF TypeOK
  <2>5. NoMessageLost'
    <3> SUFFICES ASSUME NEW m \in 1..submitted',
                        m \notin acked', m # pendingMessage'
                 PROVE  \E i \in 1..Len(sendQueue') : sendQueue'[i] = m
      BY DEF NoMessageLost
    <3>1. CASE m = pendingMessage
      <4>1. sendQueue'[1] = m /\ 1 \in 1..Len(sendQueue')
        BY <2>2, <3>1 DEF TypeOK
      <4>2. QED
        BY <4>1
    <3>2. CASE m # pendingMessage
      <4>1. PICK i \in 1..Len(sendQueue) : sendQueue[i] = m
        BY <3>2 DEF NoMessageLost
      <4>2. i + 1 \in 1..Len(sendQueue') /\ sendQueue'[i + 1] = m
        BY <2>2, <4>1 DEF TypeOK
      <4>3. QED
        BY <4>2
    <3>3. QED
      BY <3>1, <3>2
  <2>6. QED
    BY <2>1, <2>2, <2>3, <2>4, <2>5 DEF TypeOK, AcksMatchPending, FreshMatchPending,
       AckExcludesFresh, HandshakingIffHandshake, DisconnectedNothingPending,
       IdleMeansQueueEmpty
<1>5. CASE HandleStatusHandshaking
  <2> USE <1>5 DEF HandleStatusHandshaking
  <2>1. /\ toServer' \subseteq Requests
        /\ \A r \in toServer' : r.stale
        /\ toClient' = {}
        /\ status' = "disconnected"
    BY DisconnectFacts DEF TypeOK
  <2>2. pendingMessage = Handshake
    BY DEF HandshakingIffHandshake
  <2>3. spurious' \in 0..MaxSpurious
    BY DEF TypeOK, AckTimeout
  <2>4. NoMessageLost'
    BY <2>2 DEF NoMessageLost, TypeOK
  <2>5. QED
    BY <2>1, <2>2, <2>3, <2>4 DEF TypeOK, AcksMatchPending, FreshMatchPending,
       AckExcludesFresh, HandshakingIffHandshake, DisconnectedNothingPending,
       IdleMeansQueueEmpty
<1>6. CASE PollsterCallback
  <2> PICK a \in toClient :
        /\ toClient' = toClient \ {a}
        /\ IF pendingMessage = None \/ a # pendingMessage
              THEN UNCHANGED <<status, sendQueue, pendingMessage, toServer, acked>>
              ELSE AckReceived
        /\ UNCHANGED <<submitted, delivered, lost, spurious>>
    BY <1>6 DEF PollsterCallback
  <2>1. a = pendingMessage /\ pendingMessage \in Sendable
    BY DEF AcksMatchPending, TypeOK
  <2>2. AckReceived
    BY <2>1
  <2>3. toClient' = {}
    BY <2>1 DEF AcksMatchPending
  <2>4. \A r \in toServer : r.stale
    BY DEF AckExcludesFresh
  <2>5. CASE sendQueue = << >>
    <3> USE <2>5
    <3>1. pendingMessage' = None /\ sendQueue' = sendQueue /\ toServer' = toServer
      BY <2>2 DEF AckReceived
    <3>2. acked' \subseteq Msgs
      BY <2>1, <2>2 DEF AckReceived, TypeOK
    <3>3. status' = "connected"
      BY <2>1, <2>2 DEF AckReceived, TypeOK, HandshakingIffHandshake,
         DisconnectedNothingPending
    <3>4. NoMessageLost'
      BY <2>1, <2>2 DEF AckReceived, NoMessageLost
    <3>5. QED
      BY <2>3, <2>4, <3>1, <3>2, <3>3, <3>4 DEF TypeOK, AcksMatchPending,
         FreshMatchPending, AckExcludesFresh, HandshakingIffHandshake,
         DisconnectedNothingPending, IdleMeansQueueEmpty
  <2>6. CASE sendQueue # << >>
    <3> USE <2>6
    <3>1. /\ pendingMessage' = Head(sendQueue)
          /\ sendQueue' = Tail(sendQueue)
          /\ toServer' = toServer \cup {[msg |-> Head(sendQueue), stale |-> FALSE]}
      BY <2>2 DEF AckReceived, SendMessage
    <3>2. Head(sendQueue) \in Msgs /\ Tail(sendQueue) \in Seq(Msgs)
      BY DEF TypeOK
    <3>3. acked' \subseteq Msgs
      BY <2>1, <2>2 DEF AckReceived, TypeOK
    <3>4. status' = "connected"
      BY <2>1, <2>2 DEF AckReceived, TypeOK, HandshakingIffHandshake,
         DisconnectedNothingPending
    <3>5. NoMessageLost'
      <4> SUFFICES ASSUME NEW m \in 1..submitted',
                          m \notin acked', m # pendingMessage'
                   PROVE  \E i \in 1..Len(sendQueue') : sendQueue'[i] = m
        BY DEF NoMessageLost
      <4>1. m \notin acked /\ m # pendingMessage /\ m \in 1..submitted
        BY <2>1, <2>2 DEF AckReceived
      <4>2. PICK i \in 1..Len(sendQueue) : sendQueue[i] = m
        BY <4>1 DEF NoMessageLost
      <4>3. i # 1
        BY <3>1, <4>2 DEF TypeOK
      <4>4. i - 1 \in 1..Len(sendQueue') /\ sendQueue'[i - 1] = m
        BY <3>1, <4>2, <4>3 DEF TypeOK
      <4>5. QED
        BY <4>4
    <3>6. TypeOK'
      <4>1. toServer' \subseteq Requests
        BY <3>1, <3>2, FreshRequestType DEF TypeOK
      <4>2. QED
        BY <3>1, <3>2, <3>3, <3>4, <4>1, <2>3 DEF TypeOK
    <3>7. FreshMatchPending'
      BY <2>4, <3>1 DEF FreshMatchPending
    <3>8. /\ AcksMatchPending' /\ AckExcludesFresh'
          /\ HandshakingIffHandshake' /\ DisconnectedNothingPending'
          /\ IdleMeansQueueEmpty'
      BY <2>3, <3>1, <3>2, <3>4 DEF AcksMatchPending, AckExcludesFresh,
         HandshakingIffHandshake, DisconnectedNothingPending, IdleMeansQueueEmpty
    <3>9. QED
      BY <3>5, <3>6, <3>7, <3>8
  <2>7. QED
    BY <2>5, <2>6
<1>7. CASE ServerReceive
  <2> PICK r \in toServer :
        /\ toServer' = toServer \ {r}
        /\ delivered' = IF r.msg = Handshake THEN delivered
                        ELSE Append(delivered, r.msg)
        /\ toClient' = IF r.stale THEN toClient ELSE toClient \cup {r.msg}
        /\ UNCHANGED <<status, sendQueue, pendingMessage, submitted, acked, lost, spurious>>
    BY <1>7 DEF ServerReceive
  <2>1. delivered' \in Seq(Msgs)
    <3>1. r.msg \in Sendable
      BY DEF TypeOK
    <3>2. r.msg # Handshake => r.msg \in Msgs
      BY <3>1
    <3>3. QED
      BY <3>2, AppendProperties DEF TypeOK
  <2>2. CASE r.stale
    BY <2>1, <2>2 DEF TypeOK, AcksMatchPending, FreshMatchPending,
       AckExcludesFresh, HandshakingIffHandshake, DisconnectedNothingPending,
       IdleMeansQueueEmpty, NoMessageLost
  <2>3. CASE ~r.stale
    <3>1. r.msg = pendingMessage /\ r = [msg |-> pendingMessage, stale |-> FALSE]
      BY <2>3 DEF FreshMatchPending, TypeOK
    <3>2. toClient = {}
      BY <2>3 DEF AckExcludesFresh
    <3>3. \A q \in toServer' : q.stale
      BY <3>1 DEF FreshMatchPending, TypeOK
    <3>4. QED
      BY <2>1, <2>3, <3>1, <3>2, <3>3 DEF TypeOK, AcksMatchPending, FreshMatchPending,
         AckExcludesFresh, HandshakingIffHandshake, DisconnectedNothingPending,
         IdleMeansQueueEmpty, NoMessageLost
  <2>4. QED
    BY <2>2, <2>3
<1>8. CASE LoseRequest
  BY <1>8 DEF LoseRequest, TypeOK, AcksMatchPending, FreshMatchPending,
     AckExcludesFresh, HandshakingIffHandshake, DisconnectedNothingPending,
     IdleMeansQueueEmpty, NoMessageLost
<1>9. CASE LoseAck
  BY <1>9 DEF LoseAck, TypeOK, AcksMatchPending, FreshMatchPending,
     AckExcludesFresh, HandshakingIffHandshake, DisconnectedNothingPending,
     IdleMeansQueueEmpty, NoMessageLost
<1>10. CASE UNCHANGED vars
  BY <1>10 DEF vars, TypeOK, AcksMatchPending, FreshMatchPending,
     AckExcludesFresh, HandshakingIffHandshake, DisconnectedNothingPending,
     IdleMeansQueueEmpty, NoMessageLost
<1>11. QED
  BY <1>1, <1>2, <1>3, <1>4, <1>5, <1>6, <1>7, <1>8, <1>9, <1>10 DEF Next

(* IInv holds in every reachable state of the resilient client. *)
THEOREM InductiveInvariant == Spec => []IInv
<1>1. Init => IInv
  BY InitIInv
<1>2. IInv /\ [Next]_vars => IInv'
  BY NextIInv
<1>3. QED
  BY <1>1, <1>2, PTL DEF Spec

(* Every variable of the client, the wire and the server log keeps its     *)
(* type in every reachable state, for every value of the constants.       *)
THEOREM TypeCorrect == Spec => []TypeOK
<1>1. IInv => TypeOK
  BY DEF IInv
<1>2. QED
  BY InductiveInvariant, <1>1, PTL

(* No message queue_message_for_send took is ever lost: it stays pending  *)
(* or queued until its ack arrives, whatever timeouts, idle disconnects   *)
(* and network losses happen.                                              *)
THEOREM NoMessageLostTheorem == Spec => []NoMessageLost
<1>1. IInv => NoMessageLost
  BY DEF IInv
<1>2. QED
  BY InductiveInvariant, <1>1, PTL

(* The only ack that can reach the client's open socket is the ack of its *)
(* pending message: the "unknown ack" branches of _pollster_callback are  *)
(* dead code.                                                              *)
THEOREM AcksMatchPendingTheorem == Spec => []AcksMatchPending
<1>1. IInv => AcksMatchPending
  BY DEF IInv
<1>2. QED
  BY InductiveInvariant, <1>1, PTL

(* A connected client with nothing pending has an empty send queue. *)
THEOREM IdleMeansQueueEmptyTheorem == Spec => []IdleMeansQueueEmpty
<1>1. IInv => IdleMeansQueueEmpty
  BY DEF IInv
<1>2. QED
  BY InductiveInvariant, <1>1, PTL

=============================================================================
