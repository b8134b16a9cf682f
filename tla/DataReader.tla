---------------------------- MODULE DataReader -----------------------------
(***************************************************************************)
(* The web server's DataReader client (src/web_server/data_reader.py)     *)
(* retrieving one segment of a key, part by conjoined part, from the      *)
(* reader service of one node (DataReaderService).                        *)
(*                                                                         *)
(* The client sends retrieve-key-start, then retrieve-key-next until a    *)
(* reply says completed, each through a resilient client: a new message   *)
(* id and a one-shot channel the caller blocks on.  A reply reaches the    *)
(* channel of its message id; a reply for an id nobody waits on is        *)
(* dropped.  A request may be handled twice, late, after the requester has *)
(* moved on.  The loop that drives the calls is not in the repository; it *)
(* follows spec 4.3.                                                       *)
(***************************************************************************)
EXTENDS DataReaderService

CONSTANT
    MaxRetrievals   \* retrievals the web server starts in a run

ASSUME ClientAssumption == MaxRetrievals \in Nat

MaxId == MaxRetrievals * (MaxSequences + 1)
MessageIds == 1..MaxId
Phases == {"idle", "start", "next", "done", "failed"}

VARIABLES
    phase,           \* where the requester is
    part,            \* the part it retrieves
    waitingOn,       \* message id of its one-shot reply channel
    received,        \* the sequences it has been handed, in order
    nextId,          \* message ids used
    retrievals       \* retrievals started

clientVars == <<phase, part, waitingOn, received, nextId, retrievals>>
vars == <<serviceVars, clientVars>>

TypeOK ==
    /\ ServiceTypeOK
    /\ \A q \in requests : q.id \in MessageIds
    /\ phase \in Phases
    /\ part \in Parts
    /\ waitingOn \in 0..MaxId
    /\ received \in Seq(Data)
    /\ nextId \in 0..MaxId
    /\ retrievals \in 0..MaxRetrievals

-----------------------------------------------------------------------------
(* _create_state, and a requester that has not started *)
Init ==
    /\ ServiceInit
    /\ phase = "idle"
    /\ part \in Parts
    /\ waitingOn = 0
    /\ received = << >>
    /\ nextId = 0
    /\ retrievals = 0

(* queue_message_for_send through the resilient client: a new message id  *)
(* and a one-shot channel the caller blocks on.                            *)
QueueRequest(type, p) ==
    /\ nextId' = nextId + 1
    /\ waitingOn' = nextId + 1
    /\ requests' = requests \cup {[id |-> nextId + 1, type |-> type, part |-> p]}

(* The web server reads a part: DataReader.retrieve_key_start. *)
RetrieveKeyStart ==
    /\ phase \in {"idle", "done", "failed"}
    /\ retrievals < MaxRetrievals
    /\ retrievals' = retrievals + 1
    /\ \E p \in Parts :
          /\ part' = p
          /\ QueueRequest("retrieve-key-start", p)
    /\ phase' = "start"
    /\ received' = << >>
    /\ UNCHANGED <<RowCount, activeRequests, replies, duplicates, faults>>

(* delivery_channel.get() returns: a failed result ends the retrieval      *)
(* (retrieve_key_start/next return None); otherwise the sequence is        *)
(* handed on and, unless completed, DataReader.retrieve_key_next is called. *)
ReceiveReply ==
    \E r \in replies :
       /\ phase \in {"start", "next"}
       /\ r.id = waitingOn
       /\ replies' = replies \ {r}
       /\ \/ /\ r.result # "success"
             /\ phase' = "failed"
             /\ UNCHANGED <<received, requests, nextId, waitingOn>>
          \/ /\ r.result = "success"
             /\ received' = Append(received, r.data)
             /\ IF r.completed
                   THEN phase' = "done" /\ UNCHANGED <<requests, nextId, waitingOn>>
                   ELSE phase' = "next" /\ QueueRequest("retrieve-key-next", part)
       /\ UNCHANGED <<RowCount, activeRequests, part, retrievals, duplicates, faults>>

(* A reply to a message id whose channel is gone is dropped. *)
DropReply ==
    \E r \in replies :
       /\ (r.id # waitingOn \/ phase \notin {"start", "next"})
       /\ replies' = replies \ {r}
       /\ UNCHANGED <<RowCount, activeRequests, requests, duplicates, faults,
                      clientVars>>

(* The reader service steps; the requester is not involved. *)
ServiceStep ==
    \/ HandleRetrieveKeyStart /\ UNCHANGED clientVars
    \/ HandleRetrieveKeyNext /\ UNCHANGED clientVars
    \/ StateCleaner /\ UNCHANGED clientVars

Next ==
    \/ ServiceStep
    \/ RetrieveKeyStart
    \/ ReceiveReply
    \/ DropReply

(* The dispatcher drains the receive queue; the requesting greenlet is     *)
(* woken by its channel; unclaimed replies are discarded by the client.    *)
Fairness ==
    /\ WF_vars(HandleRetrieveKeyStart /\ UNCHANGED clientVars)
    /\ WF_vars(HandleRetrieveKeyNext /\ UNCHANGED clientVars)
    /\ WF_vars(ReceiveReply)
    /\ WF_vars(DropReply)

Spec == Init /\ [][Next]_vars

FairSpec == Spec /\ Fairness

-----------------------------------------------------------------------------
(* Spec 4.3, about the completed flag of both handlers and the requester's *)
(* loop: a retrieval ends successfully only after the part's last          *)
(* sequence was handed over.                                               *)
DoneMeansWholePart ==
    phase = "done" =>
       /\ received # << >>
       /\ received[Len(received)] = <<part, RowCount[part]>>

(* Every reply path of both handlers answers, so a retrieval the web      *)
(* server starts ends, done or failed.                                     *)
RetrievalEnds ==
    [](phase \in {"start", "next"} => <>(phase \in {"done", "failed"}))

=============================================================================
