---------------------------- MODULE AntiEntropy ----------------------------
(***************************************************************************)
(* The anti-entropy auditor (src/anti_entropy_server/anti_entropy_server_  *)
(* main.py) on the node that runs it, and the consistency-check handler   *)
(* on every node.                                                          *)
(*                                                                         *)
(* An attempt for a collection gets a state key (collection, timestamp),  *)
(* an entry in active-requests, and a consistency-check sent to every     *)
(* node.  Each node answers with the digest of its segment index for the  *)
(* collection.  When every node has an entry in the attempt's replies the *)
(* entry is removed and the audit row in the central database is set      *)
(* successful, error, or wait-for-retry with an entry in the retry list.  *)
(*                                                                         *)
(* Not in the repository, so modelled from the spec (4.5): the            *)
(* ConsistencyCheckStarter starts a fresh audit of a collection that has  *)
(* no attempt active and none waiting for retry; the RetryManager restarts *)
(* a waiting collection with retry_count + 1; the StateCleaner times an   *)
(* attempt out, counting every node that has not answered as an error    *)
(* reply; AuditResultDatabase keeps one row per audit with its state.     *)
(*                                                                         *)
(* Requests travel through ResilientClients, which deliver at least once: *)
(* a node may answer the same request twice (bounded by MaxDuplicates),   *)
(* and a request or reply may be delayed past the timeout.                *)
(*                                                                         *)
(* Data abstraction: a node's segment index for a collection maps each   *)
(* key of Keys to the status of its row ("A" active, "T" tombstone, or    *)
(* none), fixed for the run.  The md5 digest over the selected rows,      *)
(* sorted by key, is modelled by the set of rows it is taken over (md5    *)
(* collisions are not modelled).                                          *)
(***************************************************************************)
EXTENDS Naturals, Sequences, Functions

CONSTANTS
    Nodes,          \* NIMBUSIO_NODE_NAME_SEQ: one anti-entropy client per node
    Collections,    \* collection ids of the cluster
    Keys,           \* keys stored in a collection
    MaxRetryCount,  \* common.max_retry_count
    MaxAudits,      \* audits (audit rows) started in a run
    MaxDuplicates   \* duplicate deliveries of a consistency-check

ASSUME ConstantsAssumption ==
    /\ Nodes # {}
    /\ Collections # {}
    /\ MaxRetryCount \in Nat
    /\ MaxAudits \in Nat
    /\ MaxDuplicates \in Nat

SegmentStatuses == {"none", "A", "T"}
Indexes == [Keys -> SegmentStatuses]

(* _handle_consistency_check's query: rows of the collection with         *)
(* status = 'A' (and no handoff node), hashed in key order.               *)
Digest(index) == {k \in Keys : index[k] = "A"}
Digests == SUBSET Keys

(* A node's entry in request_state.replies: (count, digest) on success,   *)
(* _error_reply on error, and NoReply while the node has no entry.        *)
DigestReply(d) == [kind |-> "digest", digest |-> d]
ErrorReply == [kind |-> "error", digest |-> {}]
NoReply == [kind |-> "none", digest |-> {}]
ReplyValues == {DigestReply(d) : d \in Digests} \cup {ErrorReply, NoReply}

RowStates == {"in-progress", "successful", "wait-for-retry", "error"}
AuditResults == {"success", "error", "audit-error"}

\* Largest timestamp a run can create: every audit has at most
\* MaxRetryCount + 1 attempts.
MaxTimestamp == MaxAudits * (MaxRetryCount + 1)
Timestamps == 1..MaxTimestamp
Rows == 1..MaxAudits

\* _request_state_tuple; explicit = client_tag is not None
RequestStates ==
    [explicit : BOOLEAN, retryCount : 0..MaxRetryCount,
     replies : [Nodes -> ReplyValues], rowId : Rows]

VARIABLES
    NodeIndex,       \* each node's segment index for each collection
    collectionIds,   \* state["collection-ids"]
    clock,           \* last value of create_timestamp()
    activeRequests,  \* state["active-requests"]: (collection, timestamp) -> request state
    retryList,       \* state["retry-list"]
    auditRows,       \* audit rows of AuditResultDatabase, by row id
    checks,          \* consistency-check requests in flight
    checkReplies,    \* consistency-check-reply messages in flight
    auditReplies,    \* anti-entropy-audit-reply messages sent, by row id
    duplicates       \* duplicate deliveries so far

vars == <<NodeIndex, collectionIds, clock, activeRequests, retryList, auditRows, checks,
          checkReplies, auditReplies, duplicates>>

StateKeys == Collections \X Timestamps

TypeOK ==
    /\ NodeIndex \in [Nodes \X Collections -> Indexes]
    /\ collectionIds \subseteq Collections
    /\ clock \in 0..MaxTimestamp
    /\ DOMAIN activeRequests \subseteq StateKeys
    /\ \A k \in DOMAIN activeRequests : activeRequests[k] \in RequestStates
    /\ retryList \subseteq [collection : Collections, rowId : Rows,
                            retryCount : 0..MaxRetryCount]
    /\ auditRows \in Seq([collection : Collections, state : RowStates])
    /\ Len(auditRows) <= MaxAudits
    /\ checks \subseteq [node : Nodes, key : StateKeys]
    /\ checkReplies \subseteq [node : Nodes, key : StateKeys,
                               result : ReplyValues \ {NoReply}]
    /\ auditReplies \subseteq [rowId : Rows, result : AuditResults]
    /\ duplicates \in 0..MaxDuplicates

-----------------------------------------------------------------------------
(* dict assignment d[k] = v *)
Put(f, k, v) == [x \in DOMAIN f \cup {k} |-> IF x = k THEN v ELSE f[x]]

(* del d[k] *)
Delete(f, k) == Restrict(f, DOMAIN f \ {k})

(* AuditResultDatabase: set the state of a row. *)
SetRow(rowId, st) == auditRows' = [auditRows EXCEPT ![rowId].state = st]

(* _create_state *)
Init ==
    /\ NodeIndex \in [Nodes \X Collections -> Indexes]
    /\ collectionIds = {}
    /\ clock = 0
    /\ activeRequests = <<>>
    /\ retryList = {}
    /\ auditRows = << >>
    /\ checks = {}
    /\ checkReplies = {}
    /\ auditReplies = {}
    /\ duplicates = 0

(* Shared tail of _start_consistency_check and                             *)
(* _handle_anti_entropy_audit_request: a fresh timestamp, the request      *)
(* state under (collection, timestamp), a consistency-check to every node. *)
StartAttempt(c, explicit, rowId, retryCount) ==
    LET ts == clock + 1 IN
    /\ clock' = ts
    /\ activeRequests' = Put(activeRequests, <<c, ts>>,
                             [explicit |-> explicit, retryCount |-> retryCount,
                              replies |-> [n \in Nodes |-> NoReply], rowId |-> rowId])
    /\ checks' = checks \cup {[node |-> n, key |-> <<c, ts>>] : n \in Nodes}

(* _start_consistency_check with row_id None: database.start_audit. *)
StartConsistencyCheck(c) ==
    /\ Len(auditRows) < MaxAudits
    /\ auditRows' = Append(auditRows, [collection |-> c, state |-> "in-progress"])
    /\ StartAttempt(c, FALSE, Len(auditRows) + 1, 0)

RestartConsistencyCheckNoRestartAudit(c, rowId, retryCount) ==
    /\ UNCHANGED auditRows
    /\ StartAttempt(c, FALSE, rowId, retryCount)

(* _start_consistency_check with a row_id: database.restart_audit. *)
RestartConsistencyCheck(c, rowId, retryCount) ==
    /\ SetRow(rowId, "in-progress")
    /\ StartAttempt(c, FALSE, rowId, retryCount)

(* _handle_database_collection_list_reply: the collection ids the         *)
(* CollectionListRequestor's query returned replace the known ones.        *)
HandleDatabaseCollectionListReply ==
    /\ \E ids \in SUBSET Collections : collectionIds' = ids
    /\ UNCHANGED <<NodeIndex, clock, activeRequests, retryList, auditRows, checks,
                   checkReplies, auditReplies, duplicates>>

(* ConsistencyCheckStarter.run: audit a collection that is not already     *)
(* being audited (spec 4.5: at most one request per collection).           *)
ConsistencyCheckStarter ==
    \E c \in collectionIds :
       /\ \A k \in DOMAIN activeRequests : k[1] # c
       /\ \A e \in retryList : e.collection # c
       /\ StartConsistencyCheck(c)
       /\ UNCHANGED <<NodeIndex, collectionIds, retryList, checkReplies, auditReplies, duplicates>>

(* _handle_anti_entropy_audit_request: audit this collection now, never   *)
(* retried (retry_count = max_retry_count), answered to the client tag.    *)
HandleAntiEntropyAuditRequest ==
    \E c \in Collections :
       /\ Len(auditRows) < MaxAudits
       /\ auditRows' = Append(auditRows, [collection |-> c, state |-> "in-progress"])
       /\ StartAttempt(c, TRUE, Len(auditRows) + 1, MaxRetryCount)
       /\ UNCHANGED <<NodeIndex, collectionIds, retryList, checkReplies, auditReplies, duplicates>>

(* RetryManager.run: a due retry-list entry is restarted with the same row *)
(* and one more retry.                                                     *)
RetryManager ==
    \E e \in retryList :
       /\ retryList' = retryList \ {e}
       /\ RestartConsistencyCheck(e.collection, e.rowId, e.retryCount + 1)
       /\ UNCHANGED <<NodeIndex, collectionIds, checkReplies, auditReplies, duplicates>>

(* _handle_consistency_check on node n: the digest of n's index for the   *)
(* collection, sent back with result success.  The request may be kept to *)
(* be delivered again (a resilient client re-send).                        *)
HandleConsistencyCheck ==
    \E q \in checks :
       /\ \/ checks' = checks \ {q} /\ UNCHANGED duplicates
          \/ duplicates < MaxDuplicates /\ duplicates' = duplicates + 1
             /\ UNCHANGED checks
       /\ checkReplies' = checkReplies \cup
             {[node |-> q.node, key |-> q.key, result |-> DigestReply(Digest(NodeIndex[<<q.node, q.key[1]>>]))]}
       /\ UNCHANGED <<NodeIndex, collectionIds, clock, activeRequests, retryList, auditRows, auditReplies>>

(* md5_digest_dict.pop(_error_reply): the nodes that replied with an error *)
ErrorNodes(rs) == {n \in Nodes : rs.replies[n] = ErrorReply}

(* the keys left in md5_digest_dict: the distinct digests of the others *)
ReplyDigests(rs) == {rs.replies[n].digest : n \in Nodes \ ErrorNodes(rs)}

AuditOkNoDigestCheck(rs) == ErrorNodes(rs) = {}

(* len(error_reply_list) == 0 and len(md5_digest_dict) == 1 *)
AuditOk(rs) == ErrorNodes(rs) = {} /\ \E d \in Digests : ReplyDigests(rs) = {d}

(* errors, but the non-errors compare ok (an explicit audit replies error) *)
ErrorsOnly(rs) == ErrorNodes(rs) # {} /\ \E d \in Digests : ReplyDigests(rs) = {d}

RetriesLeftOffByOne(rs) == rs.retryCount <= MaxRetryCount

(* not request_state.retry_count >= max_retry_count *)
RetriesLeft(rs) == rs.retryCount < MaxRetryCount

ScheduleRetryNoEntry(key, rs) ==
    /\ UNCHANGED retryList
    /\ SetRow(rs.rowId, "wait-for-retry")

(* state["retry-list"].append(...) and database.wait_for_retry(row_id) *)
ScheduleRetry(key, rs) ==
    /\ retryList' = retryList \cup
          {[collection |-> key[1], rowId |-> rs.rowId, retryCount |-> rs.retryCount]}
    /\ SetRow(rs.rowId, "wait-for-retry")

(* The decision of _handle_consistency_check_reply once every node has an  *)
(* entry in the replies: drop the request state and record the verdict;    *)
(* an explicit audit is answered and never retried.                        *)
Decide(key, rs) ==
    LET reply(res) == auditReplies' = auditReplies \cup {[rowId |-> rs.rowId, result |-> res]}
    IN
    /\ activeRequests' = Delete(activeRequests, key)
    /\ \/ /\ AuditOk(rs)
          /\ SetRow(rs.rowId, "successful")
          /\ IF rs.explicit THEN reply("success") ELSE UNCHANGED auditReplies
          /\ UNCHANGED retryList
       \/ /\ ~AuditOk(rs) /\ rs.explicit
          /\ SetRow(rs.rowId, "error")
          /\ reply(IF ErrorsOnly(rs) THEN "error" ELSE "audit-error")
          /\ UNCHANGED retryList
       \/ /\ ~AuditOk(rs) /\ ~rs.explicit /\ ~RetriesLeft(rs)
          /\ SetRow(rs.rowId, "error")
          /\ UNCHANGED <<retryList, auditReplies>>
       \/ /\ ~AuditOk(rs) /\ ~rs.explicit /\ RetriesLeft(rs)
          /\ ScheduleRetry(key, rs)
          /\ UNCHANGED auditReplies

(* Record one node's reply; decide when every node has one. *)
RecordReply(key, node, value) ==
    LET rs == activeRequests[key]
        rs2 == [rs EXCEPT !.replies[node] = value]
    IN
    IF \A n \in Nodes : rs2.replies[n] # NoReply
       THEN Decide(key, rs2)
       ELSE /\ activeRequests' = [activeRequests EXCEPT ![key] = rs2]
            /\ UNCHANGED <<auditRows, retryList, auditReplies>>

(* _handle_consistency_check_reply: unknown state keys (the attempt is     *)
(* over) and duplicate replies from a node are logged and ignored.         *)
HandleConsistencyCheckReply ==
    \E m \in checkReplies :
       /\ checkReplies' = checkReplies \ {m}
       /\ IF m.key \notin DOMAIN activeRequests
             \/ activeRequests[m.key].replies[m.node] # NoReply
             THEN UNCHANGED <<activeRequests, auditRows, retryList, auditReplies>>
             ELSE RecordReply(m.key, m.node, m.result)
       /\ UNCHANGED <<NodeIndex, collectionIds, clock, checks, duplicates>>

(* StateCleaner.run: after _request_timeout the nodes that have not        *)
(* answered count as error replies.                                        *)
StateCleaner ==
    \E key \in DOMAIN activeRequests :
       LET rs == activeRequests[key] IN
       /\ \E n \in Nodes : rs.replies[n] = NoReply
       /\ Decide(key, [rs EXCEPT !.replies =
                          [n \in Nodes |-> IF rs.replies[n] = NoReply
                                           THEN ErrorReply ELSE rs.replies[n]]])
       /\ UNCHANGED <<NodeIndex, collectionIds, clock, checks, checkReplies, duplicates>>

Next ==
    \/ HandleDatabaseCollectionListReply
    \/ ConsistencyCheckStarter
    \/ HandleAntiEntropyAuditRequest
    \/ RetryManager
    \/ HandleConsistencyCheck
    \/ HandleConsistencyCheckReply
    \/ StateCleaner

(* Every service is a time-queue task or a pollster callback that runs    *)
(* again and again; messages queued to a node are eventually served.      *)
Fairness ==
    /\ WF_vars(RetryManager)
    /\ WF_vars(HandleConsistencyCheck)
    /\ WF_vars(HandleConsistencyCheckReply)
    /\ WF_vars(StateCleaner)

Spec == Init /\ [][Next]_vars

FairSpec == Spec /\ Fairness

-----------------------------------------------------------------------------
(* Spec 5 (audit disagreement detection), about the verdict of             *)
(* _handle_consistency_check_reply: an audit row is set successful only    *)
(* when every node's consistency-check digest for the collection, the      *)
(* active rows of its index, is the same.                                 *)
SuccessMeansAgreement ==
    \A i \in 1..Len(auditRows) :
       auditRows[i].state = "successful" =>
          \A n, m \in Nodes : Digest(NodeIndex[<<n, auditRows[i].collection>>])
                            = Digest(NodeIndex[<<m, auditRows[i].collection>>])

(* Spec 4.5 (tombstones hash as tombstone markers), about the query of    *)
(* _handle_consistency_check: an audit succeeds only when the nodes' indexes *)
(* for the collection agree, tombstones included.                         *)
SuccessMeansIndexesAgree ==
    \A i \in 1..Len(auditRows) :
       auditRows[i].state = "successful" =>
          \A n, m \in Nodes : NodeIndex[<<n, auditRows[i].collection>>]
                            = NodeIndex[<<m, auditRows[i].collection>>]

(* the collections on which every node's consistency-check digest agrees *)
AgreedCollections ==
    {c \in Collections :
        \A n, m \in Nodes : Digest(NodeIndex[<<n, c>>]) = Digest(NodeIndex[<<m, c>>])}

(* The auditor implements AuditLifecycle: seen through the audit rows      *)
(* alone, every step opens a row, settles an in-progress row (successful   *)
(* only if the nodes agree), puts a waiting row back in progress, or       *)
(* changes no row.  A reply that arrives after the state cleaner timed its *)
(* attempt out, or after a retry replaced it, must not settle the row      *)
(* again; a restart must put the row back in progress.                     *)
Lifecycle == INSTANCE AuditLifecycle
                 WITH auditRows <- auditRows, agreed <- AgreedCollections

ImplementsAuditLifecycle == Lifecycle!Spec

(* The audit bookkeeping of _start_consistency_check, the verdict and the *)
(* RetryManager stay in step: a row is in-progress exactly when one        *)
(* active request carries its row id, and wait-for-retry exactly when the *)
(* retry list holds it; no two active requests share a row.                *)
RowsTracked ==
    /\ \A i \in 1..Len(auditRows) :
          /\ auditRows[i].state = "in-progress"
                <=> \E k \in DOMAIN activeRequests : activeRequests[k].rowId = i
          /\ auditRows[i].state = "wait-for-retry"
                <=> \E e \in retryList : e.rowId = i
    /\ \A k1, k2 \in DOMAIN activeRequests :
          activeRequests[k1].rowId = activeRequests[k2].rowId => k1 = k2

(* The retry counts of active attempts and retry entries, as the          *)
(* retry_count >= max_retry_count test and the RetryManager's increment    *)
(* leave them; a conjunct of the auditor's inductive invariant.            *)
RetryCountBounded ==
    /\ \A k \in DOMAIN activeRequests : activeRequests[k].retryCount <= MaxRetryCount
    /\ \A e \in retryList : e.retryCount < MaxRetryCount

(* Spec 4.5 (ordering), about _handle_anti_entropy_audit_request and     *)
(* _start_consistency_check: for a collection at most one request is      *)
(* active at a time.                                                      *)
AtMostOneActivePerCollection ==
    \A k1, k2 \in DOMAIN activeRequests : k1[1] = k2[1] => k1 = k2

(* Audit records run in-progress -> successful | error | wait-for-retry    *)
(* -> in-progress ... until terminal (spec 3): with replies, timeouts and  *)
(* retries served, every audit row started ends successful or error.      *)
AuditsTerminate ==
    \A i \in Rows :
       (i <= Len(auditRows))
          ~> (i <= Len(auditRows) /\ auditRows[i].state \in {"successful", "error"})

=============================================================================
