-------------------------- MODULE ResilientClient --------------------------
(***************************************************************************)
(* One ResilientClient (src/tools/resilient_client.py) talking to one      *)
(* resilient server over a DEALER socket.  The client keeps a FIFO send    *)
(* queue and at most one pending (unacknowledged) message.  It runs a      *)
(* handshake before it is connected, disconnects on ack timeout (putting   *)
(* the pending message back at the head of the queue), on handshake        *)
(* timeout, and when idle.  Closing the socket on disconnect drops the     *)
(* acks still addressed to it; requests it already sent may still reach    *)
(* the server (the socket lingers).                                        *)
(*                                                                         *)
(* The server side (tools/resilient_server.py) is not in the repository:   *)
(* it is modelled from the spec (4.1): it acks every request at once on    *)
(* the connection it came in on, and hands business messages to the       *)
(* dispatcher.  The network may lose a bounded number of requests or acks  *)
(* (a server restart, a partition, a linger expiry on close).              *)
(*                                                                         *)
(* Data abstraction: a business message is its message-id, a number in     *)
(* 1..MaxMessages, queued in that order; the handshake is Handshake.       *)
(***************************************************************************)
EXTENDS Integers, Sequences

CONSTANTS
    MaxMessages,    \* business messages the caller queues, in order 1..MaxMessages
    MaxLoss,        \* requests or acks the network may lose
    MaxSpurious     \* ack timeouts that fire while the ack is still coming

ASSUME ConstantsAssumption ==
    /\ MaxMessages \in Nat \ {0}
    /\ MaxLoss \in Nat
    /\ MaxSpurious \in Nat

Handshake == 0      \* the resilient-server-handshake message
None == -1          \* _pending_message is None

Msgs == 1..MaxMessages
Sendable == Msgs \cup {Handshake}

\* _status_handshaking, _status_connected, _status_disconnected
Statuses == {"handshaking", "connected", "disconnected"}

VARIABLES
    status,          \* self._status
    sendQueue,       \* self._send_queue
    pendingMessage,  \* self._pending_message
    submitted,       \* number of messages queue_message_for_send has taken
    toServer,        \* requests in flight: [msg, stale]; stale = sent on a closed socket
    toClient,        \* acks in flight to the current socket
    delivered,       \* business messages the server dispatched, in order
    acked,           \* business messages whose ack the client accepted
    lost,            \* losses so far
    spurious         \* spurious timeouts so far

vars == <<status, sendQueue, pendingMessage, submitted, toServer, toClient,
          delivered, acked, lost, spurious>>

Requests == [msg : Sendable, stale : BOOLEAN]

TypeOK ==
    /\ status \in Statuses
    /\ sendQueue \in Seq(Msgs)
    /\ pendingMessage \in Sendable \cup {None}
    /\ submitted \in 0..MaxMessages
    /\ toServer \subseteq Requests
    /\ toClient \subseteq Sendable
    /\ delivered \in Seq(Msgs)
    /\ acked \subseteq Msgs
    /\ lost \in 0..MaxLoss
    /\ spurious \in 0..MaxSpurious

-----------------------------------------------------------------------------
(* __init__ *)
Init ==
    /\ status = "disconnected"
    /\ sendQueue = << >>
    /\ pendingMessage = None
    /\ submitted = 0
    /\ toServer = {}
    /\ toClient = {}
    /\ delivered = << >>
    /\ acked = {}
    /\ lost = 0
    /\ spurious = 0

(* _send_message: the message goes out on the current DEALER socket. *)
SendMessage(m) == toServer' = toServer \cup {[msg |-> m, stale |-> FALSE]}

(* Mutant: disconnect that keeps the socket open instead of closing it. *)
DisconnectKeepSocket ==
    /\ status' = "disconnected"
    /\ UNCHANGED <<toClient, toServer>>

(* _disconnect: unregister and close the socket.  Acks addressed to it are *)
(* gone; requests it sent may still be delivered, but their acks will not  *)
(* come back.                                                              *)
Disconnect ==
    /\ status' = "disconnected"
    /\ toClient' = {}
    /\ toServer' = {[r EXCEPT !.stale = TRUE] : r \in toServer}

(* The ack of the pending message can still arrive on this socket. *)
AckExpected ==
    \/ \E r \in toServer : r.msg = pendingMessage /\ ~r.stale
    \/ toClient # {}

(* The elapsed time has reached _ack_timeout.  It is spurious when the ack *)
(* is still on its way; those are bounded by MaxSpurious.                  *)
AckTimeout ==
    \/ ~AckExpected /\ UNCHANGED spurious
    \/ AckExpected /\ spurious < MaxSpurious /\ spurious' = spurious + 1

(* _handle_status_disconnected, once _handshake_retry_interval elapsed. *)
HandleStatusDisconnected ==
    /\ status = "disconnected"
    /\ pendingMessage' = Handshake
    /\ status' = "handshaking"
    /\ SendMessage(Handshake)
    /\ UNCHANGED <<sendQueue, submitted, toClient, delivered, acked, lost, spurious>>

(* Mutant: idle disconnect without the pending-message check. *)
HandleStatusConnectedIdleNoGuard ==
    /\ status = "connected"
    /\ Disconnect
    /\ UNCHANGED <<sendQueue, pendingMessage, submitted, delivered, acked, lost, spurious>>

(* _handle_status_connected, nothing pending and idle for _max_idle_time. *)
HandleStatusConnectedIdle ==
    /\ status = "connected"
    /\ pendingMessage = None
    /\ Disconnect
    /\ UNCHANGED <<sendQueue, pendingMessage, submitted, delivered, acked, lost, spurious>>

(* Mutant: ack timeout that forgets to put the pending message back. *)
HandleStatusConnectedTimeoutDrop ==
    /\ status = "connected"
    /\ pendingMessage # None
    /\ AckTimeout
    /\ Disconnect
    /\ pendingMessage' = None
    /\ UNCHANGED <<sendQueue, submitted, delivered, acked, lost>>

(* Mutant: ack timeout that re-queues the pending message at the tail. *)
HandleStatusConnectedTimeoutTail ==
    /\ status = "connected"
    /\ pendingMessage # None
    /\ AckTimeout
    /\ Disconnect
    /\ sendQueue' = Append(sendQueue, pendingMessage)
    /\ pendingMessage' = None
    /\ UNCHANGED <<submitted, delivered, acked, lost>>

(* _handle_status_connected, ack timeout: disconnect and put the pending   *)
(* message back at the head of the send queue.                             *)
HandleStatusConnectedTimeout ==
    /\ status = "connected"
    /\ pendingMessage # None
    /\ AckTimeout
    /\ Disconnect
    /\ sendQueue' = <<pendingMessage>> \o sendQueue
    /\ pendingMessage' = None
    /\ UNCHANGED <<submitted, delivered, acked, lost>>

(* Mutant: handshake timeout handled like an ack timeout, re-queueing the *)
(* handshake message.                                                      *)
HandleStatusHandshakingRequeue ==
    /\ status = "handshaking"
    /\ AckTimeout
    /\ Disconnect
    /\ sendQueue' = <<pendingMessage>> \o sendQueue
    /\ pendingMessage' = None
    /\ UNCHANGED <<submitted, delivered, acked, lost>>

(* _handle_status_handshaking, handshake ack timeout: the handshake is     *)
(* dropped; the next disconnected run sends a fresh one.                   *)
HandleStatusHandshaking ==
    /\ status = "handshaking"
    /\ AckTimeout
    /\ Disconnect
    /\ pendingMessage' = None
    /\ UNCHANGED <<sendQueue, submitted, delivered, acked, lost>>

(* Mutant: send at once whenever nothing is pending, connected or not. *)
QueueMessageForSendNoStatusCheck ==
    /\ submitted < MaxMessages
    /\ LET m == submitted + 1 IN
       /\ submitted' = m
       /\ IF pendingMessage = None
             THEN /\ pendingMessage' = m
                  /\ SendMessage(m)
                  /\ UNCHANGED sendQueue
             ELSE /\ sendQueue' = Append(sendQueue, m)
                  /\ UNCHANGED <<pendingMessage, toServer>>
    /\ UNCHANGED <<status, toClient, delivered, acked, lost, spurious>>

(* queue_message_for_send: send at once when connected and idle, else      *)
(* append to the send queue.                                               *)
QueueMessageForSend ==
    /\ submitted < MaxMessages
    /\ LET m == submitted + 1 IN
       /\ submitted' = m
       /\ IF status = "connected" /\ pendingMessage = None
             THEN /\ pendingMessage' = m
                  /\ SendMessage(m)
                  /\ UNCHANGED sendQueue
             ELSE /\ sendQueue' = Append(sendQueue, m)
                  /\ UNCHANGED <<pendingMessage, toServer>>
    /\ UNCHANGED <<status, toClient, delivered, acked, lost, spurious>>

(* Mutant: a handshake ack connects but returns before popping the queue. *)
AckReceivedNoPopOnHandshake ==
    /\ acked' = IF pendingMessage = Handshake THEN acked
                ELSE acked \cup {pendingMessage}
    /\ status' = IF pendingMessage = Handshake THEN "connected" ELSE status
    /\ IF sendQueue = << >> \/ pendingMessage = Handshake
          THEN /\ pendingMessage' = None
               /\ UNCHANGED <<sendQueue, toServer>>
          ELSE /\ pendingMessage' = Head(sendQueue)
               /\ sendQueue' = Tail(sendQueue)
               /\ SendMessage(Head(sendQueue))

(* _pollster_callback after a successful ack: a handshake ack connects;    *)
(* then the head of the send queue, if any, becomes the pending message.   *)
AckReceived ==
    /\ acked' = IF pendingMessage = Handshake THEN acked
                ELSE acked \cup {pendingMessage}
    /\ status' = IF pendingMessage = Handshake THEN "connected" ELSE status
    /\ IF sendQueue = << >>
          THEN /\ pendingMessage' = None
               /\ UNCHANGED <<sendQueue, toServer>>
          ELSE /\ pendingMessage' = Head(sendQueue)
               /\ sendQueue' = Tail(sendQueue)
               /\ SendMessage(Head(sendQueue))

(* _pollster_callback: an ack is read from the socket.  Without a pending  *)
(* message, or with another message-id, it is logged and dropped.          *)
PollsterCallback ==
    \E a \in toClient :
       /\ toClient' = toClient \ {a}
       /\ IF pendingMessage = None \/ a # pendingMessage
             THEN UNCHANGED <<status, sendQueue, pendingMessage, toServer, acked>>
             ELSE AckReceived
       /\ UNCHANGED <<submitted, delivered, lost, spurious>>

(* The resilient server (spec 4.1): ack on the connection the request came *)
(* in on, then dispatch a business message.  The ack of a request from a  *)
(* closed socket has nowhere to go.                                        *)
ServerReceive ==
    \E r \in toServer :
       /\ toServer' = toServer \ {r}
       /\ delivered' = IF r.msg = Handshake THEN delivered
                       ELSE Append(delivered, r.msg)
       /\ toClient' = IF r.stale THEN toClient ELSE toClient \cup {r.msg}
       /\ UNCHANGED <<status, sendQueue, pendingMessage, submitted, acked, lost, spurious>>

(* The network loses a request or an ack. *)
LoseRequest ==
    /\ lost < MaxLoss
    /\ \E r \in toServer : toServer' = toServer \ {r}
    /\ lost' = lost + 1
    /\ UNCHANGED <<status, sendQueue, pendingMessage, submitted, toClient,
                   delivered, acked, spurious>>

LoseAck ==
    /\ lost < MaxLoss
    /\ \E a \in toClient : toClient' = toClient \ {a}
    /\ lost' = lost + 1
    /\ UNCHANGED <<status, sendQueue, pendingMessage, submitted, toServer,
                   delivered, acked, spurious>>

Next ==
    \/ QueueMessageForSend
    \/ HandleStatusDisconnected
    \/ HandleStatusConnectedIdle
    \/ HandleStatusConnectedTimeout
    \/ HandleStatusHandshaking
    \/ PollsterCallback
    \/ ServerReceive
    \/ LoseRequest
    \/ LoseAck

(* run() is a time-queue task rescheduled every _polling_interval, and the *)
(* pollster serves every readable socket, so each client step that stays  *)
(* enabled is taken; the server serves every request it receives.         *)
Fairness ==
    /\ WF_vars(HandleStatusDisconnected)
    /\ WF_vars(HandleStatusConnectedIdle)
    /\ WF_vars(HandleStatusConnectedTimeout)
    /\ WF_vars(HandleStatusHandshaking)
    /\ WF_vars(PollsterCallback)
    /\ WF_vars(ServerReceive)

Spec == Init /\ [][Next]_vars

FairSpec == Spec /\ Fairness

-----------------------------------------------------------------------------
(***************************************************************************)
(* Properties                                                              *)
(***************************************************************************)

(* No message is lost by the client: every message queue_message_for_send *)
(* took is acknowledged, or still pending, or still in the send queue,     *)
(* across ack timeouts, handshake timeouts, idle disconnects and losses.   *)
NoMessageLost ==
    \A m \in 1..submitted :
       \/ m \in acked
       \/ m = pendingMessage
       \/ \E i \in 1..Len(sendQueue) : sendQueue[i] = m

(* Requests reach the server in queue order: the server never dispatches a *)
(* message before it has dispatched the one queued just before it, even    *)
(* when a timed-out message is re-sent (appendleft in                      *)
(* _handle_status_connected) and stale requests linger.                    *)
PredecessorDispatchedFirst ==
    \A i \in 1..Len(delivered) :
       delivered[i] > 1 => \E j \in 1..(i - 1) : delivered[j] = delivered[i] - 1

(* Every ack that can reach the client's socket is the ack of its pending  *)
(* message, so the "unexpected message" and "unknown ack" branches of      *)
(* _pollster_callback are dead: a late ack of a timed-out request never    *)
(* reaches the new socket.                                                 *)
AcksMatchPending ==
    \A a \in toClient : a = pendingMessage

(* A connected client with nothing pending has an empty send queue, so the *)
(* idle disconnect in _handle_status_connected never strands queued        *)
(* messages and nothing waits while the socket is free.                    *)
IdleMeansQueueEmpty ==
    status = "connected" /\ pendingMessage = None => sendQueue = << >>

(* Every queued message is eventually acknowledged by the server, under    *)
(* finitely many losses and spurious timeouts.                             *)
EveryMessageAcked ==
    \A m \in Msgs : (m <= submitted) ~> (m \in acked)

(* The client and server together implement the abstract channel         *)
(* DispatchChannel: seen through submitted, delivered and acked alone,     *)
(* every step submits a message, dispatches a submitted message whose     *)
(* predecessor was dispatched, or accepts the ack of the next message in  *)
(* submission order, once, after its dispatch.  It covers the requeue at  *)
(* the head on ack timeout, the fresh handshake after a disconnect, and   *)
(* queue_message_for_send's choice between sending at once and queueing.  *)
Channel == INSTANCE DispatchChannel
               WITH submitted <- submitted, delivered <- delivered, acked <- acked

ImplementsDispatchChannel == Channel!Spec

(* The spec (1) says the transport preserves at-most-once delivery: the    *)
(* server never dispatches the same request twice.                         *)
AtMostOnceDispatch ==
    \A i, j \in 1..Len(delivered) : i # j => delivered[i] # delivered[j]

=============================================================================
