--------------------- MODULE AntiEntropyLifecycleProofs ---------------------
(***************************************************************************)
(* Proof that the anti-entropy auditor implements AuditLifecycle for every *)
(* value of the constants.                                                 *)
(*                                                                         *)
(* The invariant IInv of AntiEntropyProofs is all the refinement needs.   *)
(* A verdict settles the row of the request it decides, and that row is   *)
(* in-progress because RowsTracked says an active request carries only an *)
(* in-progress row; a success needs agreement, which AgreementFromAuditOk  *)
(* derives from RepliesFromIndex.  The RetryManager restarts the row of a *)
(* retry entry, which RowsTracked says is waiting for retry.  The nodes'   *)
(* indexes never change, so neither do the agreed collections.             *)
(***************************************************************************)
EXTENDS AntiEntropyProofs

USE ConstantsAssumption

(* No step of the auditor changes a node's index, so the agreed           *)
(* collections stay the same.                                              *)
LEMMA AgreedStays ==
    ASSUME UNCHANGED NodeIndex
    PROVE  AgreedCollections' = AgreedCollections
BY DEF AgreedCollections

(* A step that leaves the audit rows and the indexes alone is a stutter   *)
(* of the lifecycle.                                                       *)
LEMMA RowsStay ==
    ASSUME UNCHANGED <<auditRows, NodeIndex>>
    PROVE  [Lifecycle!Next]_Lifecycle!vars
BY AgreedStays DEF Lifecycle!vars

(* start_audit: a new in-progress row for a collection is an Open. *)
LEMMA StartAuditMaps ==
    ASSUME NEW c \in Collections, Len(auditRows) < MaxAudits,
           auditRows' = Append(auditRows, [collection |-> c, state |-> "in-progress"]),
           UNCHANGED NodeIndex
    PROVE  [Lifecycle!Next]_Lifecycle!vars
<1>1. Lifecycle!Open(c)
  BY AgreedStays DEF Lifecycle!Open
<1> QED  BY <1>1 DEF Lifecycle!Next

(* The verdict on a request whose replies are all in, each an error or    *)
(* the replying node's digest, settles the row the request carries, which *)
(* is in-progress; a success is of a collection whose nodes agree.         *)
LEMMA DecideMaps ==
    ASSUME IInv,
           NEW key \in DOMAIN activeRequests, NEW rs \in RequestStates,
           rs.rowId = activeRequests[key].rowId,
           \A n \in Nodes : rs.replies[n] # NoReply,
           \A n \in Nodes : rs.replies[n].kind = "digest" =>
                               rs.replies[n] = DigestReply(Digest(NodeIndex[<<n, key[1]>>])),
           Decide(key, rs),
           UNCHANGED NodeIndex
    PROVE  [Lifecycle!Next]_Lifecycle!vars
<1> DEFINE r == rs.rowId
<1>1. PICK st \in {"successful", "error", "wait-for-retry"} :
         /\ auditRows' = [auditRows EXCEPT ![r].state = st]
         /\ st = "successful" => AuditOk(rs)
  BY DecideShape
<1>2. /\ r \in 1..Len(auditRows)
      /\ auditRows[r].collection = key[1]
  BY DEF IInv, RowLinks
<1>3. auditRows[r].state = "in-progress"
  BY <1>2 DEF IInv, RowsTracked
<1>4. st = "successful" => auditRows[r].collection \in AgreedCollections
  <2> SUFFICES ASSUME st = "successful"
               PROVE  auditRows[r].collection \in AgreedCollections
    OBVIOUS
  <2>1. key[1] \in Collections
    BY DEF IInv, TypeInv
  <2>2. \A n, m \in Nodes : Digest(NodeIndex[<<n, key[1]>>]) = Digest(NodeIndex[<<m, key[1]>>])
    BY <1>1, AgreementFromAuditOk DEF RequestStates
  <2> QED  BY <1>2, <2>1, <2>2 DEF AgreedCollections
<1>5. Lifecycle!Settle(r, st)
  BY <1>1, <1>3, <1>4, AgreedStays DEF Lifecycle!Settle
<1> QED  BY <1>1, <1>2, <1>5 DEF Lifecycle!Next, Lifecycle!Settled

(* RetryManager: restart_audit of a retry entry's row, which waits for    *)
(* retry, is a Retry.                                                      *)
LEMMA RetryManagerMaps ==
    ASSUME IInv, RetryManager
    PROVE  [Lifecycle!Next]_Lifecycle!vars
<1>1. PICK e \in retryList :
         /\ RestartConsistencyCheck(e.collection, e.rowId, e.retryCount + 1)
         /\ UNCHANGED NodeIndex
  BY DEF RetryManager
<1>2. /\ e.rowId \in 1..Len(auditRows)
      /\ auditRows[e.rowId].state = "wait-for-retry"
  BY DEF IInv, RowLinks, RowsTracked
<1>3. Lifecycle!Retry(e.rowId)
  BY <1>1, <1>2, AgreedStays DEF RestartConsistencyCheck, SetRow, Lifecycle!Retry
<1> QED  BY <1>2, <1>3 DEF Lifecycle!Next

(* _handle_consistency_check_reply: an ignored reply, or one that leaves  *)
(* some node unanswered, changes no row; the last reply decides.           *)
LEMMA HandleConsistencyCheckReplyMaps ==
    ASSUME IInv, HandleConsistencyCheckReply
    PROVE  [Lifecycle!Next]_Lifecycle!vars
<1>1. PICK m \in checkReplies :
         /\ IF m.key \notin DOMAIN activeRequests
               \/ activeRequests[m.key].replies[m.node] # NoReply
               THEN UNCHANGED <<activeRequests, auditRows, retryList, auditReplies>>
               ELSE RecordReply(m.key, m.node, m.result)
         /\ UNCHANGED NodeIndex
  BY DEF HandleConsistencyCheckReply
<1>2. CASE m.key \notin DOMAIN activeRequests
           \/ activeRequests[m.key].replies[m.node] # NoReply
  BY <1>1, <1>2, RowsStay
<1>3. CASE ~(m.key \notin DOMAIN activeRequests
             \/ activeRequests[m.key].replies[m.node] # NoReply)
  <2> DEFINE key == m.key
             rs == activeRequests[key]
             rs2 == [rs EXCEPT !.replies[m.node] = m.result]
  <2>1. /\ key \in DOMAIN activeRequests
        /\ RecordReply(key, m.node, m.result)
    BY <1>1, <1>3
  <2>2. /\ m.node \in Nodes
        /\ m.result \in ReplyValues \ {NoReply}
        /\ rs \in RequestStates
        /\ m.result.kind = "digest" =>
              m.result = DigestReply(Digest(NodeIndex[<<m.node, key[1]>>]))
    BY <2>1 DEF IInv, TypeInv, RepliesFromIndex
  <2>3. /\ rs2 \in RequestStates
        /\ rs2.rowId = rs.rowId
        /\ \A n \in Nodes : rs2.replies[n].kind = "digest" =>
              rs2.replies[n] = DigestReply(Digest(NodeIndex[<<n, key[1]>>]))
    <3>1. rs2 \in RequestStates /\ rs2.rowId = rs.rowId
      BY <2>2 DEF RequestStates
    <3>2. ASSUME NEW n \in Nodes, rs2.replies[n].kind = "digest"
          PROVE  rs2.replies[n] = DigestReply(Digest(NodeIndex[<<n, key[1]>>]))
      <4>1. CASE n = m.node
        BY <4>1, <3>2, <2>2 DEF RequestStates
      <4>2. CASE n # m.node
        BY <4>2, <3>2, <2>1, <2>2 DEF RequestStates, IInv, RepliesFromIndex
      <4> QED  BY <4>1, <4>2
    <3> QED  BY <3>1, <3>2
  <2>4. CASE \A n \in Nodes : rs2.replies[n] # NoReply
    <3>1. Decide(key, rs2)
      BY <2>1, <2>4 DEF RecordReply
    <3> QED  BY <1>1, <2>1, <2>3, <2>4, <3>1, DecideMaps
  <2>5. CASE ~\A n \in Nodes : rs2.replies[n] # NoReply
    <3>1. UNCHANGED auditRows
      BY <2>1, <2>5 DEF RecordReply
    <3> QED  BY <1>1, <3>1, RowsStay
  <2> QED  BY <2>4, <2>5
<1> QED  BY <1>2, <1>3

(* The state cleaner's timeout decides with the silent nodes as errors. *)
LEMMA StateCleanerMaps ==
    ASSUME IInv, StateCleaner
    PROVE  [Lifecycle!Next]_Lifecycle!vars
<1>1. PICK key \in DOMAIN activeRequests :
         LET rs == activeRequests[key] IN
         /\ Decide(key, [rs EXCEPT !.replies =
                            [n \in Nodes |-> IF rs.replies[n] = NoReply
                                             THEN ErrorReply ELSE rs.replies[n]]])
         /\ UNCHANGED NodeIndex
  BY DEF StateCleaner
<1> DEFINE rs == activeRequests[key]
           rs2 == [rs EXCEPT !.replies =
                      [n \in Nodes |-> IF rs.replies[n] = NoReply
                                       THEN ErrorReply ELSE rs.replies[n]]]
<1>2. rs \in RequestStates
  BY DEF IInv, TypeInv
<1>3. /\ rs2 \in RequestStates
      /\ rs2.rowId = rs.rowId
      /\ \A n \in Nodes : rs2.replies[n] # NoReply
  BY <1>2 DEF RequestStates, ReplyValues, ErrorReply, NoReply
<1>4. \A n \in Nodes : rs2.replies[n].kind = "digest" =>
         rs2.replies[n] = DigestReply(Digest(NodeIndex[<<n, key[1]>>]))
  <2> SUFFICES ASSUME NEW n \in Nodes, rs2.replies[n].kind = "digest"
               PROVE  rs2.replies[n] = DigestReply(Digest(NodeIndex[<<n, key[1]>>]))
    OBVIOUS
  <2>1. rs.replies[n] # NoReply
    BY <1>2 DEF RequestStates, ErrorReply
  <2>2. rs2.replies[n] = rs.replies[n]
    BY <1>2, <2>1 DEF RequestStates
  <2> QED  BY <2>2 DEF IInv, RepliesFromIndex
<1> QED  BY <1>1, <1>3, <1>4, DecideMaps

(* Every step of the auditor, the database and the nodes is a step of the *)
(* lifecycle or changes no audit row.                                       *)
LEMMA NextMaps == IInv /\ [Next]_vars => [Lifecycle!Next]_Lifecycle!vars
<1> SUFFICES ASSUME IInv, [Next]_vars PROVE [Lifecycle!Next]_Lifecycle!vars
  OBVIOUS
<1>1. CASE \/ HandleDatabaseCollectionListReply \/ HandleConsistencyCheck
           \/ UNCHANGED vars
  BY <1>1, RowsStay DEF HandleDatabaseCollectionListReply, HandleConsistencyCheck, vars
<1>2. CASE ConsistencyCheckStarter
  <2>1. PICK c \in collectionIds :
           /\ Len(auditRows) < MaxAudits
           /\ auditRows' = Append(auditRows, [collection |-> c, state |-> "in-progress"])
           /\ UNCHANGED NodeIndex
    BY <1>2 DEF ConsistencyCheckStarter, StartConsistencyCheck
  <2> QED  BY <2>1, StartAuditMaps DEF IInv, TypeInv
<1>3. CASE HandleAntiEntropyAuditRequest
  BY <1>3, StartAuditMaps DEF HandleAntiEntropyAuditRequest
<1>4. CASE RetryManager                  BY <1>4, RetryManagerMaps
<1>5. CASE HandleConsistencyCheckReply   BY <1>5, HandleConsistencyCheckReplyMaps
<1>6. CASE StateCleaner                  BY <1>6, StateCleanerMaps
<1> QED  BY <1>1, <1>2, <1>3, <1>4, <1>5, <1>6 DEF Next

(* The auditor implements AuditLifecycle (ImplementsAuditLifecycle) for    *)
(* any nodes, collections, audit and retry bounds and duplicates: a row is *)
(* opened in-progress, settled only while in-progress (a late reply of a   *)
(* timed-out or replaced attempt never settles it again), successful only  *)
(* when the nodes agree, and put back in progress only from               *)
(* wait-for-retry; successful and error rows never change.                 *)
THEOREM ImplementsAuditLifecycleTheorem == Spec => ImplementsAuditLifecycle
<1>1. Init => Lifecycle!Init
  BY DEF Init, Lifecycle!Init, AgreedCollections
<1> QED  BY <1>1, InductiveInvariant, NextMaps, PTL
         DEF Spec, ImplementsAuditLifecycle, Lifecycle!Spec

=============================================================================
