-------------------------- MODULE DispatchChannel --------------------------
(***************************************************************************)
(* What the resilient transport promises its caller, without sockets,     *)
(* timeouts or the handshake.  The caller submits messages 1, 2, ... in    *)
(* order.  The server dispatches submitted messages, at least once each   *)
(* and possibly more than once, but never a message before the one        *)
(* submitted just before it.  The caller sees acknowledgements of         *)
(* dispatched messages one at a time, in submission order, each once.     *)
(*                                                                         *)
(* ResilientClient implements this specification under the mapping that  *)
(* keeps submitted, delivered and acked and hides everything else         *)
(* (ResilientClient!ImplementsDispatchChannel).                            *)
(***************************************************************************)
EXTENDS Naturals, Sequences

CONSTANT MaxMessages    \* messages the caller submits

VARIABLES
    submitted,   \* messages submitted so far: 1..submitted
    delivered,   \* messages dispatched by the server, in dispatch order
    acked        \* messages whose acknowledgement the caller has seen

vars == <<submitted, delivered, acked>>

Msgs == 1..MaxMessages

(* the server has dispatched message m *)
Dispatched(m) == \E j \in 1..Len(delivered) : delivered[j] = m

Init ==
    /\ submitted = 0
    /\ delivered = << >>
    /\ acked = {}

(* The caller submits the next message. *)
Submit ==
    /\ submitted < MaxMessages
    /\ submitted' = submitted + 1
    /\ UNCHANGED <<delivered, acked>>

(* The server dispatches a submitted message whose predecessor it has     *)
(* dispatched already; a message may be dispatched again.                 *)
Dispatch(m) ==
    /\ m <= submitted
    /\ m = 1 \/ Dispatched(m - 1)
    /\ delivered' = Append(delivered, m)
    /\ UNCHANGED <<submitted, acked>>

(* The caller sees the acknowledgement of a dispatched message, the next  *)
(* one in submission order.                                               *)
Acknowledge(m) ==
    /\ Dispatched(m)
    /\ m \notin acked
    /\ m = 1 \/ m - 1 \in acked
    /\ acked' = acked \cup {m}
    /\ UNCHANGED <<submitted, delivered>>

Next ==
    \/ Submit
    \/ \E m \in Msgs : Dispatch(m) \/ Acknowledge(m)

Spec == Init /\ [][Next]_vars

=============================================================================
