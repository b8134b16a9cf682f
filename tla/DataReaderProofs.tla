-------------------------- MODULE DataReaderProofs --------------------------
(***************************************************************************)
(* Proofs about the reader service and the DataReader requester for every *)
(* number of parts, sequences, duplicates and faults.                      *)
(*                                                                         *)
(* SeqNumMatchesData is not inductive by itself: a successful              *)
(* retrieve-key-next answers with sequence_read_count + 1 and the data at  *)
(* the generator's next position, and the two agree only because the       *)
(* iterator kept in active-requests has read exactly as many sequences as  *)
(* its generator has passed (IterInv).  TypeInv is TypeOK without the      *)
(* bounds on message ids: MaxId is a bound of the model's instances only,  *)
(* since every late duplicate retrieve-key-start that recreates a reaped   *)
(* iterator lets the requester send one more retrieve-key-next.            *)
(***************************************************************************)
EXTENDS DataReader, TLAPS

TypeInv ==
    /\ RowCount \in [Parts -> 0..MaxSequences]
    /\ DOMAIN activeRequests \subseteq {Key}
    /\ \A k \in DOMAIN activeRequests : activeRequests[k] \in RetrieveStates
    /\ requests \subseteq PartRequests
    /\ part \in Parts
    /\ nextId \in Nat

(* The iterator has read as many sequences as its generator has passed:    *)
(* both start at 1 and _handle_retrieve_key_next advances both together.   *)
IterInv ==
    \A k \in DOMAIN activeRequests :
       activeRequests[k].genPos = activeRequests[k].sequenceReadCount

IInv == TypeInv /\ IterInv /\ SeqNumMatchesData

USE ServiceAssumption, ClientAssumption

(* The reader starts with no active request and nothing on the wire. *)
LEMMA InitIInv == Init => IInv
<1> SUFFICES ASSUME Init PROVE IInv
  OBVIOUS
<1>1. DOMAIN activeRequests = {}
  BY DEF Init, ServiceInit
<1> QED  BY <1>1 DEF Init, ServiceInit, IInv, TypeInv, IterInv, SeqNumMatchesData

(* A reply that is not a success, or whose sequence-num is the position of *)
(* its data, keeps every successful reply consistent.                      *)
LEMMA SendReplyKeeps ==
    ASSUME SeqNumMatchesData, NEW q, NEW res, NEW sn, NEW c, NEW d,
           SendReply(q, res, sn, c, d),
           res = "success" => sn = d[2]
    PROVE  SeqNumMatchesData'
BY DEF SendReply, SeqNumMatchesData

(* A failed read sends a failure reply. *)
LEMMA ReadFaultKeeps ==
    ASSUME SeqNumMatchesData, NEW q, ReadFault(q)
    PROVE  SeqNumMatchesData' /\ faults' = faults + 1
<1>1. PICK res \in {"exception", "md5-mismatch"} : SendReply(q, res, 0, FALSE, <<>>)
  BY DEF ReadFault
<1> QED  BY <1>1, SendReplyKeeps DEF ReadFault

(* The dispatcher only takes requests off the receive queue. *)
LEMMA ConsumeShrinks ==
    ASSUME NEW q, Consume(q)
    PROVE  requests' \subseteq requests
BY DEF Consume

(* Saving an iterator in an empty active-requests table, unless it is      *)
(* completed, leaves a table that holds at most that iterator.             *)
LEMMA SaveFacts ==
    ASSUME NEW entries, NEW entry, DOMAIN entries = {},
           SaveUnlessCompleted(entries, entry)
    PROVE  /\ DOMAIN activeRequests' \subseteq {Key}
           /\ \A k \in DOMAIN activeRequests' : activeRequests'[k] = entry
BY DEF SaveUnlessCompleted, Put

(* _handle_retrieve_key_start keeps IInv: a new iterator has read one     *)
(* sequence, at the generator's first position, and says so in its reply.  *)
LEMMA StartIInv ==
    ASSUME IInv, HandleRetrieveKeyStart, UNCHANGED clientVars
    PROVE  IInv'
<1>1. PICK q \in requests :
         /\ q.type = "retrieve-key-start"
         /\ Consume(q)
         /\ \/ q.part = NoPart /\ UNCHANGED <<replies, activeRequests, faults>>
            \/ q.part # NoPart /\ StartReply(q)
         /\ UNCHANGED RowCount
  BY DEF HandleRetrieveKeyStart
<1>2. /\ requests' \subseteq PartRequests
      /\ q.part \in Parts
      /\ UNCHANGED <<RowCount, part, nextId>>
  BY <1>1, ConsumeShrinks DEF IInv, TypeInv, PartRequests, clientVars
<1>7. StartReply(q)
  BY <1>1, <1>2
<1>3. CASE Key \in DOMAIN activeRequests
             /\ SendReply(q, "invalid-duplicate", 0, FALSE, <<>>)
             /\ UNCHANGED <<activeRequests, faults>>
  <2>1. SeqNumMatchesData'
    BY <1>3, SendReplyKeeps DEF IInv
  <2> QED  BY <1>2, <1>3, <2>1 DEF IInv, TypeInv, IterInv
<1>4. CASE Key \notin DOMAIN activeRequests
             /\ RowCount[q.part] = 0
             /\ SendReply(q, "no-sequence-rows", 0, FALSE, <<>>)
             /\ UNCHANGED <<activeRequests, faults>>
  <2>1. SeqNumMatchesData'
    BY <1>4, SendReplyKeeps DEF IInv
  <2> QED  BY <1>2, <1>4, <2>1 DEF IInv, TypeInv, IterInv
<1>5. CASE Key \notin DOMAIN activeRequests
             /\ RowCount[q.part] > 0
             /\ ReadFault(q)
             /\ UNCHANGED activeRequests
  <2>1. SeqNumMatchesData'
    BY <1>5, ReadFaultKeeps DEF IInv
  <2> QED  BY <1>2, <1>5, <2>1 DEF IInv, TypeInv, IterInv
<1>6. CASE Key \notin DOMAIN activeRequests
             /\ RowCount[q.part] > 0
             /\ SaveUnlessCompleted(activeRequests, FirstEntry(q.part))
             /\ SendReply(q, "success", FirstEntry(q.part).sequenceReadCount,
                          Completed(FirstEntry(q.part)),
                          <<q.part, FirstEntry(q.part).genPos>>)
             /\ UNCHANGED faults
  <2>1. DOMAIN activeRequests = {}
    BY <1>6 DEF IInv, TypeInv
  <2>2. FirstEntry(q.part) \in RetrieveStates
        /\ FirstEntry(q.part).genPos = FirstEntry(q.part).sequenceReadCount
    BY <1>2, <1>6 DEF IInv, TypeInv, FirstEntry, RetrieveStates, SeqNums
  <2>3. /\ DOMAIN activeRequests' \subseteq {Key}
        /\ \A k \in DOMAIN activeRequests' : activeRequests'[k] = FirstEntry(q.part)
    BY <1>6, <2>1, SaveFacts
  <2>4. SeqNumMatchesData'
    <3>1. FirstEntry(q.part).sequenceReadCount = <<q.part, FirstEntry(q.part).genPos>>[2]
      BY DEF FirstEntry
    <3> QED  BY <1>6, <3>1, SendReplyKeeps DEF IInv
  <2> QED  BY <1>2, <2>2, <2>3, <2>4 DEF IInv, TypeInv, IterInv
<1> QED  BY <1>7, <1>3, <1>4, <1>5, <1>6 DEF StartReply

(* generator.next() on an iterator that has not reached its last row     *)
(* moves it one position on and counts one more sequence read.            *)
LEMMA AdvanceFacts ==
    ASSUME NEW e \in RetrieveStates, e.genPos < e.sequenceRowCount,
           e.genPos = e.sequenceReadCount
    PROVE  /\ Advance(e) \in RetrieveStates
           /\ Advance(e).genPos = e.genPos + 1
           /\ Advance(e).sequenceReadCount = e.sequenceReadCount + 1
           /\ Advance(e).part = e.part
<1>1. e.genPos + 1 \in SeqNums /\ e.sequenceReadCount + 1 \in SeqNums
  BY DEF RetrieveStates, SeqNums
<1>2. /\ Advance(e).genPos = e.genPos + 1
      /\ Advance(e).sequenceReadCount = e.sequenceReadCount + 1
      /\ Advance(e).part = e.part
      /\ Advance(e).sequenceRowCount = e.sequenceRowCount
  BY DEF Advance, RetrieveStates
<1>3. Advance(e) \in RetrieveStates
  BY <1>1, <1>2, Zenon DEF Advance, RetrieveStates
<1> QED  BY <1>2, <1>3

(* _handle_retrieve_key_next keeps IInv: the entry popped from            *)
(* active-requests is advanced one sequence and one generator position     *)
(* together, so the reply's sequence_read_count names the data it sends.  *)
LEMMA NextHandlerIInv ==
    ASSUME IInv, HandleRetrieveKeyNext, UNCHANGED clientVars
    PROVE  IInv'
<1> DEFINE old == activeRequests[Key]
           popped == Delete(activeRequests, Key)
<1>1. PICK q \in requests :
         /\ q.type = "retrieve-key-next"
         /\ Consume(q)
         /\ \/ /\ Key \notin DOMAIN activeRequests
               /\ UnknownRequest(q)
            \/ /\ Key \in DOMAIN activeRequests
               /\ \/ /\ old.genPos = old.sequenceRowCount
                     /\ SendReply(q, "exception", 0, FALSE, <<>>)
                     /\ activeRequests' = popped
                     /\ UNCHANGED faults
                  \/ /\ old.genPos < old.sequenceRowCount
                     /\ ReadFault(q)
                     /\ activeRequests' = popped
                  \/ /\ old.genPos < old.sequenceRowCount
                     /\ SaveUnlessCompleted(popped, Advance(old))
                     /\ SendReply(q, "success", Advance(old).sequenceReadCount,
                                  Completed(Advance(old)),
                                  <<old.part, Advance(old).genPos>>)
                     /\ UNCHANGED faults
         /\ UNCHANGED RowCount
  BY DEF HandleRetrieveKeyNext
<1>2. /\ requests' \subseteq PartRequests
      /\ UNCHANGED <<RowCount, part, nextId>>
  BY <1>1, ConsumeShrinks DEF IInv, TypeInv, clientVars
<1>3. DOMAIN popped = {} /\ popped = Delete(activeRequests, Key)
  BY DEF IInv, TypeInv, Delete, Restrict
<1>4. CASE Key \notin DOMAIN activeRequests /\ UnknownRequest(q)
  <2>1. SeqNumMatchesData' /\ UNCHANGED activeRequests
    BY <1>4, SendReplyKeeps DEF IInv, UnknownRequest
  <2> QED  BY <1>2, <2>1 DEF IInv, TypeInv, IterInv
<1>5. CASE Key \in DOMAIN activeRequests /\ old.genPos = old.sequenceRowCount
             /\ SendReply(q, "exception", 0, FALSE, <<>>)
             /\ activeRequests' = popped
  <2>1. SeqNumMatchesData'
    BY <1>5, SendReplyKeeps DEF IInv
  <2> QED  BY <1>2, <1>3, <1>5, <2>1 DEF IInv, TypeInv, IterInv
<1>6. CASE Key \in DOMAIN activeRequests /\ ReadFault(q) /\ activeRequests' = popped
  <2>1. SeqNumMatchesData'
    BY <1>6, ReadFaultKeeps DEF IInv
  <2> QED  BY <1>2, <1>3, <1>6, <2>1 DEF IInv, TypeInv, IterInv
<1>7. CASE Key \in DOMAIN activeRequests /\ old.genPos < old.sequenceRowCount
             /\ SaveUnlessCompleted(popped, Advance(old))
             /\ SendReply(q, "success", Advance(old).sequenceReadCount,
                          Completed(Advance(old)),
                          <<old.part, Advance(old).genPos>>)
  <2>1. old \in RetrieveStates /\ old.genPos = old.sequenceReadCount
    BY <1>7 DEF IInv, TypeInv, IterInv
  <2>2. /\ Advance(old) \in RetrieveStates
        /\ Advance(old).genPos = Advance(old).sequenceReadCount
        /\ Advance(old).genPos = old.genPos + 1
    BY <1>7, <2>1, AdvanceFacts
  <2>3. /\ DOMAIN activeRequests' \subseteq {Key}
        /\ \A k \in DOMAIN activeRequests' : activeRequests'[k] = Advance(old)
    BY <1>3, <1>7, SaveFacts
  <2>4. SeqNumMatchesData'
    <3>1. Advance(old).sequenceReadCount = <<old.part, Advance(old).genPos>>[2]
      BY <2>2
    <3> QED  BY <1>7, <3>1, SendReplyKeeps DEF IInv
  <2> QED  BY <1>2, <2>2, <2>3, <2>4 DEF IInv, TypeInv, IterInv
<1> QED  BY <1>1, <1>4, <1>5, <1>6, <1>7

(* Every handler of the reader and every client step keep IInv. *)
LEMMA NextIInv == IInv /\ [Next]_vars => IInv'
<1> SUFFICES ASSUME IInv, [Next]_vars PROVE IInv'
  OBVIOUS
<1>1. CASE HandleRetrieveKeyStart /\ UNCHANGED clientVars
  BY <1>1, StartIInv
<1>2. CASE HandleRetrieveKeyNext /\ UNCHANGED clientVars
  BY <1>2, NextHandlerIInv
<1>3. CASE StateCleaner /\ UNCHANGED clientVars
  <2>1. DOMAIN activeRequests' = {}
    BY <1>3 DEF StateCleaner, IInv, TypeInv, Delete, Restrict
  <2> QED  BY <1>3, <2>1 DEF StateCleaner, clientVars, IInv, TypeInv, IterInv,
                             SeqNumMatchesData
<1>4. CASE RetrieveKeyStart
  <2>1. PICK p \in Parts :
           /\ part' = p
           /\ QueueRequest("retrieve-key-start", p)
    BY <1>4 DEF RetrieveKeyStart
  <2>2. [id |-> nextId + 1, type |-> "retrieve-key-start", part |-> p] \in PartRequests
    BY DEF IInv, TypeInv, PartRequests, RequestTypes
  <2> QED  BY <1>4, <2>1, <2>2 DEF RetrieveKeyStart, QueueRequest, IInv, TypeInv,
                                   IterInv, SeqNumMatchesData
<1>5. CASE ReceiveReply
  <2>1. PICK r \in replies :
           /\ replies' = replies \ {r}
           /\ \/ UNCHANGED <<requests, nextId>>
              \/ QueueRequest("retrieve-key-next", part)
           /\ UNCHANGED <<RowCount, activeRequests, part>>
    BY <1>5 DEF ReceiveReply
  <2>2. [id |-> nextId + 1, type |-> "retrieve-key-next", part |-> part] \in PartRequests
    BY DEF IInv, TypeInv, PartRequests, RequestTypes
  <2> QED  BY <2>1, <2>2 DEF QueueRequest, IInv, TypeInv, IterInv, SeqNumMatchesData
<1>6. CASE DropReply
  BY <1>6 DEF DropReply, clientVars, IInv, TypeInv, IterInv, SeqNumMatchesData
<1>7. CASE UNCHANGED vars
  BY <1>7 DEF vars, serviceVars, clientVars, IInv, TypeInv, IterInv, SeqNumMatchesData
<1> QED  BY <1>1, <1>2, <1>3, <1>4, <1>5, <1>6, <1>7 DEF Next, ServiceStep

(* The reader's iterator keeps its read count equal to its position, and *)
(* every reply carries the sequence of its data, in every reachable state. *)
THEOREM InductiveInvariant == Spec => []IInv
<1>1. Init => IInv
  BY InitIInv
<1>2. IInv /\ [Next]_vars => IInv'
  BY NextIInv
<1> QED  BY <1>1, <1>2, PTL DEF Spec

(* For any number of parts, sequences, duplicate deliveries and failed    *)
(* reads, every successful retrieve-key-reply of _handle_retrieve_key_start *)
(* and _handle_retrieve_key_next carries as sequence-num the position of  *)
(* the sequence whose data it sends.                                       *)
THEOREM SeqNumMatchesDataTheorem == Spec => []SeqNumMatchesData
BY InductiveInvariant, PTL DEF IInv

-----------------------------------------------------------------------------
(* CompletedAtLastSequence is not inductive by itself either: the next     *)
(* handler's completed test compares the read count with the row count     *)
(* the iterator recorded at its start, and that is the part's row count in *)
(* the database only because the part's rows do not change (RowsOfPart).  *)
RowsOfPart ==
    \A k \in DOMAIN activeRequests :
       activeRequests[k].sequenceRowCount = RowCount[activeRequests[k].part]

CInv == RowsOfPart /\ CompletedAtLastSequence

(* A reply that is not a success, or whose completed flag says whether its *)
(* data is its part's last sequence, keeps every reply's flag right.       *)
LEMMA SendReplyKeepsCompleted ==
    ASSUME CompletedAtLastSequence, UNCHANGED RowCount,
           NEW q, NEW res, NEW sn, NEW c, NEW d,
           SendReply(q, res, sn, c, d),
           res = "success" => (c <=> d[2] = RowCount[d[1]])
    PROVE  CompletedAtLastSequence'
BY DEF SendReply, CompletedAtLastSequence

(* A failed read sends a failure reply. *)
LEMMA ReadFaultKeepsCompleted ==
    ASSUME CompletedAtLastSequence, UNCHANGED RowCount, NEW q, ReadFault(q)
    PROVE  CompletedAtLastSequence'
<1>1. PICK res \in {"exception", "md5-mismatch"} : SendReply(q, res, 0, FALSE, <<>>)
  BY DEF ReadFault
<1> QED  BY <1>1, SendReplyKeepsCompleted

(* _handle_retrieve_key_start: a new iterator records its part's row count, *)
(* and its first reply is completed exactly when that count is 1.          *)
LEMMA StartCInv ==
    ASSUME IInv, CInv, HandleRetrieveKeyStart
    PROVE  CInv'
<1>1. PICK q \in requests :
         /\ q.type = "retrieve-key-start"
         /\ Consume(q)
         /\ \/ q.part = NoPart /\ UNCHANGED <<replies, activeRequests, faults>>
            \/ q.part # NoPart /\ StartReply(q)
         /\ UNCHANGED RowCount
  BY DEF HandleRetrieveKeyStart
<1>2. q.part \in Parts /\ q.part # NoPart
  BY <1>1 DEF IInv, TypeInv, PartRequests
<1>3. StartReply(q)
  BY <1>1, <1>2
<1>4. CASE /\ UNCHANGED activeRequests
           /\ \/ \E res \in {"invalid-duplicate", "no-sequence-rows"} :
                    SendReply(q, res, 0, FALSE, <<>>)
              \/ ReadFault(q)
  <2>1. RowsOfPart'
    BY <1>1, <1>4 DEF CInv, RowsOfPart
  <2>2. CompletedAtLastSequence'
    BY <1>1, <1>4, SendReplyKeepsCompleted, ReadFaultKeepsCompleted DEF CInv
  <2> QED  BY <2>1, <2>2 DEF CInv
<1>5. CASE /\ Key \notin DOMAIN activeRequests
           /\ SaveUnlessCompleted(activeRequests, FirstEntry(q.part))
           /\ SendReply(q, "success", FirstEntry(q.part).sequenceReadCount,
                        Completed(FirstEntry(q.part)),
                        <<q.part, FirstEntry(q.part).genPos>>)
  <2> DEFINE e == FirstEntry(q.part)
  <2>2. DOMAIN activeRequests = {}
    BY <1>5 DEF IInv, TypeInv
  <2>3. /\ DOMAIN activeRequests' \subseteq {Key}
        /\ \A k \in DOMAIN activeRequests' : activeRequests'[k] = e
    BY <1>5, <2>2, SaveFacts
  <2>4. /\ e.part = q.part
        /\ e.sequenceRowCount = RowCount[q.part]
        /\ Completed(e) <=> 1 = RowCount[q.part]
        /\ e.genPos = 1
    BY DEF FirstEntry, Completed
  <2>5. RowsOfPart'
    BY <1>1, <2>3, <2>4 DEF RowsOfPart
  <2>6. CompletedAtLastSequence'
    BY <1>1, <1>5, <2>4, SendReplyKeepsCompleted DEF CInv
  <2> QED  BY <2>5, <2>6 DEF CInv
<1> QED  BY <1>3, <1>4, <1>5 DEF StartReply

(* _handle_retrieve_key_next: the advanced iterator keeps its part and row *)
(* count, and its reply is completed exactly at the part's last sequence.  *)
LEMMA NextHandlerCInv ==
    ASSUME IInv, CInv, HandleRetrieveKeyNext
    PROVE  CInv'
<1> DEFINE old == activeRequests[Key]
           popped == Delete(activeRequests, Key)
<1>1. PICK q \in requests :
         /\ q.type = "retrieve-key-next"
         /\ Consume(q)
         /\ \/ /\ Key \notin DOMAIN activeRequests
               /\ UnknownRequest(q)
            \/ /\ Key \in DOMAIN activeRequests
               /\ \/ /\ old.genPos = old.sequenceRowCount
                     /\ SendReply(q, "exception", 0, FALSE, <<>>)
                     /\ activeRequests' = popped
                     /\ UNCHANGED faults
                  \/ /\ old.genPos < old.sequenceRowCount
                     /\ ReadFault(q)
                     /\ activeRequests' = popped
                  \/ /\ old.genPos < old.sequenceRowCount
                     /\ SaveUnlessCompleted(popped, Advance(old))
                     /\ SendReply(q, "success", Advance(old).sequenceReadCount,
                                  Completed(Advance(old)),
                                  <<old.part, Advance(old).genPos>>)
                     /\ UNCHANGED faults
         /\ UNCHANGED RowCount
  BY DEF HandleRetrieveKeyNext
<1>2. DOMAIN popped = {}
  BY DEF IInv, TypeInv, Delete, Restrict
<1>3. CASE Key \notin DOMAIN activeRequests /\ UnknownRequest(q)
  BY <1>1, <1>3, SendReplyKeepsCompleted DEF UnknownRequest, CInv, RowsOfPart
<1>4. CASE Key \in DOMAIN activeRequests /\ SendReply(q, "exception", 0, FALSE, <<>>)
             /\ activeRequests' = popped
  BY <1>1, <1>2, <1>4, SendReplyKeepsCompleted DEF CInv, RowsOfPart
<1>5. CASE Key \in DOMAIN activeRequests /\ ReadFault(q) /\ activeRequests' = popped
  BY <1>1, <1>2, <1>5, ReadFaultKeepsCompleted DEF CInv, RowsOfPart
<1>6. CASE Key \in DOMAIN activeRequests /\ old.genPos < old.sequenceRowCount
             /\ SaveUnlessCompleted(popped, Advance(old))
             /\ SendReply(q, "success", Advance(old).sequenceReadCount,
                          Completed(Advance(old)),
                          <<old.part, Advance(old).genPos>>)
  <2>1. /\ old \in RetrieveStates
        /\ old.genPos = old.sequenceReadCount
        /\ old.sequenceRowCount = RowCount[old.part]
    BY <1>6 DEF IInv, TypeInv, IterInv, CInv, RowsOfPart
  <2>2. /\ Advance(old).genPos = old.genPos + 1
        /\ Advance(old).sequenceReadCount = old.sequenceReadCount + 1
        /\ Advance(old).part = old.part
    BY <1>6, <2>1, AdvanceFacts
  <2>3. Advance(old).sequenceRowCount = old.sequenceRowCount
    BY DEF Advance
  <2>4. /\ DOMAIN activeRequests' \subseteq {Key}
        /\ \A k \in DOMAIN activeRequests' : activeRequests'[k] = Advance(old)
    BY <1>2, <1>6, SaveFacts
  <2>5. RowsOfPart'
    BY <1>1, <2>1, <2>2, <2>3, <2>4 DEF RowsOfPart
  <2>6. Completed(Advance(old)) <=> <<old.part, Advance(old).genPos>>[2]
                                       = RowCount[<<old.part, Advance(old).genPos>>[1]]
    BY <2>1, <2>2, <2>3 DEF Completed
  <2>7. CompletedAtLastSequence'
    BY <1>1, <1>6, <2>6, SendReplyKeepsCompleted DEF CInv
  <2> QED  BY <2>5, <2>7 DEF CInv
<1> QED  BY <1>1, <1>3, <1>4, <1>5, <1>6

(* Every handler of the reader and every client step keep CInv. *)
LEMMA NextCInv == IInv /\ CInv /\ [Next]_vars => CInv'
<1> SUFFICES ASSUME IInv, CInv, [Next]_vars PROVE CInv'
  OBVIOUS
<1>1. CASE HandleRetrieveKeyStart /\ UNCHANGED clientVars
  BY <1>1, StartCInv
<1>2. CASE HandleRetrieveKeyNext /\ UNCHANGED clientVars
  BY <1>2, NextHandlerCInv
<1>3. CASE StateCleaner /\ UNCHANGED clientVars
  <2>1. DOMAIN activeRequests' = {}
    BY <1>3 DEF StateCleaner, IInv, TypeInv, Delete, Restrict
  <2> QED  BY <1>3, <2>1 DEF StateCleaner, CInv, RowsOfPart, CompletedAtLastSequence
<1>4. CASE RetrieveKeyStart
  BY <1>4 DEF RetrieveKeyStart, CInv, RowsOfPart, CompletedAtLastSequence
<1>5. CASE ReceiveReply
  BY <1>5 DEF ReceiveReply, CInv, RowsOfPart, CompletedAtLastSequence
<1>6. CASE DropReply
  BY <1>6 DEF DropReply, CInv, RowsOfPart, CompletedAtLastSequence
<1>7. CASE UNCHANGED vars
  BY <1>7 DEF vars, serviceVars, CInv, RowsOfPart, CompletedAtLastSequence
<1> QED  BY <1>1, <1>2, <1>3, <1>4, <1>5, <1>6, <1>7 DEF Next, ServiceStep

(* For any number of parts, sequences, duplicate deliveries, reaps and    *)
(* failed reads, the completed flag of every successful retrieve-key-reply *)
(* of both handlers is set exactly when the reply delivers its part's last *)
(* sequence (spec 4.3).                                                    *)
THEOREM CompletedAtLastSequenceTheorem == Spec => []CompletedAtLastSequence
<1>1. Init => CInv
  BY DEF Init, ServiceInit, CInv, RowsOfPart, CompletedAtLastSequence
<1>2. IInv /\ CInv /\ [Next]_vars => CInv'
  BY NextCInv
<1> QED  BY <1>1, <1>2, InductiveInvariant, PTL DEF Spec, CInv

=============================================================================
