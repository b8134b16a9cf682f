------------------------- MODULE DataReaderService -------------------------
(***************************************************************************)
(* The reader service of one node (src/data_reader/data_reader_main.py):  *)
(* the two handlers that serve a segment's sequence rows through an        *)
(* iterator kept in active-requests, and the StateCleaner that reaps it.   *)
(*                                                                         *)
(* retrieve-key-start creates an iterator over the sequence rows of the    *)
(* (unified id, conjoined part, segment num) and answers with sequence 1;  *)
(* each retrieve-key-next advances it; the reply carrying the last         *)
(* sequence says completed and the iterator is dropped.  The iterator is   *)
(* keyed by (client tag, unified id, segment num): one client tag and one  *)
(* segment here, so the key is a single value and the conjoined part is    *)
(* not in it.                                                              *)
(*                                                                         *)
(* Requests reach the reader through a resilient client, which delivers    *)
(* at least once: a request may be handled twice (MaxDuplicates).  The     *)
(* StateCleaner, which reaps iterators after retrieve_timeout, is not in   *)
(* the repository; it follows spec 4.3.  The modules of the clients        *)
(* (DataReader, HandoffForwarder) compose these actions with their own.    *)
(*                                                                         *)
(* Data abstraction: sequence i of part p is the value <<p, i>>.  The      *)
(* generator is its position in the part's rows (genPos); the state entry  *)
(* counts sequences read (sequence_read_count) separately, as the code     *)
(* does.                                                                   *)
(***************************************************************************)
EXTENDS Naturals, Sequences, Functions

CONSTANTS
    Parts,          \* conjoined parts of the key
    MaxSequences,   \* most sequence rows of a part
    MaxDuplicates,  \* requests handled a second time
    MaxFaults       \* failed reads: exception or md5 mismatch

\* a request without a segment-conjoined-part field
NoPart == "no-segment-conjoined-part"

ASSUME ServiceAssumption ==
    /\ Parts # {}
    /\ NoPart \notin Parts
    /\ MaxSequences \in Nat \ {0}
    /\ MaxDuplicates \in Nat
    /\ MaxFaults \in Nat

Key == "segment"            \* _compute_state_key: (client-tag, unified-id, segment-num)
SeqNums == 1..MaxSequences
Data == Parts \X SeqNums  \* the bytes of one sequence
FailureResults == {"invalid-duplicate", "no-sequence-rows", "exception",
                   "md5-mismatch", "unknown-request"}

\* _retrieve_state_tuple, with the generator as the part and its position
RetrieveStates ==
    [part : Parts, genPos : SeqNums, sequenceRowCount : SeqNums,
     sequenceReadCount : SeqNums]

RequestTypes == {"retrieve-key-start", "retrieve-key-next"}

\* requests that name a conjoined part, as the web server's DataReader sends
PartRequests == [id : Nat, type : RequestTypes, part : Parts]

Requests == PartRequests \cup [id : Nat, type : RequestTypes, part : {NoPart}]

Replies == [id : Nat, result : {"success"} \cup FailureResults,
            seqNum : 0..MaxSequences, completed : BOOLEAN, data : Data \cup {<<>>}]

VARIABLES
    RowCount,        \* sequence rows of each part in the node's database
    activeRequests,  \* state["active-requests"]
    requests,        \* requests on their way to the reader
    replies,         \* retrieve-key-reply messages on their way back
    duplicates,      \* requests handled twice
    faults           \* failed reads

serviceVars == <<RowCount, activeRequests, requests, replies, duplicates, faults>>

ServiceTypeOK ==
    /\ RowCount \in [Parts -> 0..MaxSequences]
    /\ DOMAIN activeRequests \subseteq {Key}
    /\ \A k \in DOMAIN activeRequests : activeRequests[k] \in RetrieveStates
    /\ requests \subseteq Requests
    /\ replies \subseteq Replies
    /\ duplicates \in 0..MaxDuplicates
    /\ faults \in 0..MaxFaults

-----------------------------------------------------------------------------
(* dict assignment d[k] = v *)
Put(f, k, v) == [x \in DOMAIN f \cup {k} |-> IF x = k THEN v ELSE f[x]]

(* d.pop(k) without the value *)
Delete(f, k) == Restrict(f, DOMAIN f \ {k})

(* _create_state, over any database contents *)
ServiceInit ==
    /\ RowCount \in [Parts -> 0..MaxSequences]
    /\ activeRequests = <<>>
    /\ requests = {}
    /\ replies = {}
    /\ duplicates = 0
    /\ faults = 0

(* The dispatcher takes request q off the receive queue; the resilient     *)
(* server may get it again later (a client re-send).                       *)
Consume(q) ==
    \/ requests' = requests \ {q} /\ UNCHANGED duplicates
    \/ duplicates < MaxDuplicates /\ duplicates' = duplicates + 1
       /\ UNCHANGED requests

(* resilient-server send_reply *)
SendReply(q, result, seqNum, completed, data) ==
    replies' = replies \cup {[id |-> q.id, result |-> result, seqNum |-> seqNum,
                              completed |-> completed, data |-> data]}

(* generator.next() raised, or the row's md5 does not match its data *)
ReadFault(q) ==
    /\ faults < MaxFaults
    /\ faults' = faults + 1
    /\ \E res \in {"exception", "md5-mismatch"} : SendReply(q, res, 0, FALSE, <<>>)

CompletedOffByOne(entry) == entry.sequenceReadCount + 1 >= entry.sequenceRowCount

(* sequence_read_count == sequence_row_count: the last sequence is read *)
Completed(entry) == entry.sequenceReadCount = entry.sequenceRowCount

(* completed, or else the entry is saved in active-requests *)
SaveUnlessCompleted(entries, entry) ==
    IF Completed(entry)
       THEN activeRequests' = entries
       ELSE activeRequests' = Put(entries, Key, entry)

FirstEntryZeroCount(p) ==
    [part |-> p, genPos |-> 1, sequenceRowCount |-> RowCount[p], sequenceReadCount |-> 0]

(* _retrieve_state_tuple after the first sequence is read *)
FirstEntry(p) ==
    [part |-> p, genPos |-> 1, sequenceRowCount |-> RowCount[p], sequenceReadCount |-> 1]

UnknownRequestNoReply(q) == UNCHANGED <<replies, activeRequests, faults>>

(* the KeyError branch of _handle_retrieve_key_next *)
UnknownRequest(q) ==
    /\ SendReply(q, "unknown-request", 0, FALSE, <<>>)
    /\ UNCHANGED <<activeRequests, faults>>

AdvanceNoReplace(entry) == [entry EXCEPT !.genPos = @ + 1]

(* generator.next() and state_entry._replace(sequence_read_count + 1) *)
Advance(entry) == [entry EXCEPT !.genPos = @ + 1, !.sequenceReadCount = @ + 1]

(* The rest of _handle_retrieve_key_start, for a request naming a part. *)
StartReply(q) ==
    \/ /\ Key \in DOMAIN activeRequests
       /\ SendReply(q, "invalid-duplicate", 0, FALSE, <<>>)
       /\ UNCHANGED <<activeRequests, faults>>
    \/ /\ Key \notin DOMAIN activeRequests
       /\ RowCount[q.part] = 0
       /\ SendReply(q, "no-sequence-rows", 0, FALSE, <<>>)
       /\ UNCHANGED <<activeRequests, faults>>
    \/ /\ Key \notin DOMAIN activeRequests
       /\ RowCount[q.part] > 0
       /\ ReadFault(q)
       /\ UNCHANGED activeRequests
    \/ /\ Key \notin DOMAIN activeRequests
       /\ RowCount[q.part] > 0
       /\ LET entry == FirstEntry(q.part)
          IN /\ SaveUnlessCompleted(activeRequests, entry)
             /\ SendReply(q, "success", entry.sequenceReadCount,
                          Completed(entry), <<q.part, entry.genPos>>)
       /\ UNCHANGED faults

(* _handle_retrieve_key_start.  Building the reply reads                *)
(* message["segment-conjoined-part"]; a request without it raises KeyError *)
(* there, before any reply is sent or any state is changed.               *)
HandleRetrieveKeyStart ==
    \E q \in requests :
       /\ q.type = "retrieve-key-start"
       /\ Consume(q)
       /\ \/ /\ q.part = NoPart
             /\ UNCHANGED <<replies, activeRequests, faults>>
          \/ /\ q.part # NoPart
             /\ StartReply(q)
       /\ UNCHANGED RowCount

(* _handle_retrieve_key_next: the entry is popped before the generator is *)
(* advanced, and put back with sequence_read_count + 1 unless this was the *)
(* last sequence.  A failed read leaves it popped.  A generator already at *)
(* its end raises StopIteration, reported as exception.                    *)
HandleRetrieveKeyNext ==
    \E q \in requests :
       /\ q.type = "retrieve-key-next"
       /\ Consume(q)
       /\ \/ /\ Key \notin DOMAIN activeRequests
             /\ UnknownRequest(q)
          \/ /\ Key \in DOMAIN activeRequests
             /\ LET old == activeRequests[Key]
                    popped == Delete(activeRequests, Key)
                IN \/ /\ old.genPos = old.sequenceRowCount
                      /\ SendReply(q, "exception", 0, FALSE, <<>>)
                      /\ activeRequests' = popped
                      /\ UNCHANGED faults
                   \/ /\ old.genPos < old.sequenceRowCount
                      /\ ReadFault(q)
                      /\ activeRequests' = popped
                   \/ /\ old.genPos < old.sequenceRowCount
                      /\ LET entry == Advance(old)
                         IN /\ SaveUnlessCompleted(popped, entry)
                            /\ SendReply(q, "success", entry.sequenceReadCount,
                                         Completed(entry), <<old.part, entry.genPos>>)
                      /\ UNCHANGED faults
       /\ UNCHANGED RowCount

(* StateCleaner: an iterator older than retrieve_timeout is dropped. *)
StateCleaner ==
    /\ Key \in DOMAIN activeRequests
    /\ activeRequests' = Delete(activeRequests, Key)
    /\ UNCHANGED <<RowCount, requests, replies, duplicates, faults>>

(* A step of the reader service. *)
ServiceNext ==
    \/ HandleRetrieveKeyStart
    \/ HandleRetrieveKeyNext
    \/ StateCleaner

-----------------------------------------------------------------------------
(* Spec 7.2, about sequence_read_count in _handle_retrieve_key_next: the   *)
(* sequence-num of every successful reply is the position of the data it   *)
(* carries.                                                                *)
SeqNumMatchesData ==
    \A r \in replies : r.result = "success" => r.seqNum = r.data[2]


(* Spec 4.3, about sequence_read_count == sequence_row_count in both       *)
(* handlers (lines 139 and 207): completed is set on exactly the reply     *)
(* that delivers its part's last sequence, across duplicates, reaps and    *)
(* failed reads.                                                           *)
CompletedAtLastSequence ==
    \A r \in replies :
       r.result = "success" => (r.completed <=> r.data[2] = RowCount[r.data[1]])

=============================================================================
