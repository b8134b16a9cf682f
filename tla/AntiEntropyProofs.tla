------------------------- MODULE AntiEntropyProofs -------------------------
(***************************************************************************)
(* Proofs about the anti-entropy auditor for every value of the constants. *)
(*                                                                         *)
(* The bookkeeping invariant RowsTracked is not inductive by itself.  A    *)
(* step keeps it only if it is also known that:                            *)
(*   - every active request and retry entry points at an existing audit   *)
(*     row of its own collection;                                         *)
(*   - no two retry entries share a row;                                   *)
(*   - state keys are never reused: every active key carries a timestamp  *)
(*     no later than the clock, so the key made by the next                *)
(*     create_timestamp() is fresh.                                        *)
(* SuccessMeansAgreement needs one more fact: every digest that a reply   *)
(* carries, on the wire or recorded in a request state, is the digest of  *)
(* the replying node's index for the request's collection.                 *)
(*                                                                         *)
(* TypeOK bounds the clock by MaxTimestamp.  That bound holds only through *)
(* a count of attempts over all audits, so TypeInv, the typing used here,  *)
(* leaves the clock unbounded.                                             *)
(***************************************************************************)
EXTENDS AntiEntropy, TLAPS

AuditRowType == [collection : Collections, state : RowStates]
RetryEntries == [collection : Collections, rowId : Rows, retryCount : 0..MaxRetryCount]

TypeInv ==
    /\ NodeIndex \in [Nodes \X Collections -> Indexes]
    /\ collectionIds \subseteq Collections
    /\ clock \in Nat
    /\ activeRequests \in [DOMAIN activeRequests -> RequestStates]
    /\ DOMAIN activeRequests \subseteq Collections \X (1..clock)
    /\ retryList \subseteq RetryEntries
    /\ auditRows \in Seq(AuditRowType)
    /\ Len(auditRows) <= MaxAudits
    /\ checks \subseteq [node : Nodes, key : Collections \X Nat]
    /\ checkReplies \subseteq [node : Nodes, key : Collections \X Nat,
                               result : ReplyValues \ {NoReply}]
    /\ auditReplies \subseteq [rowId : Rows, result : AuditResults]
    /\ duplicates \in 0..MaxDuplicates

(* Every active request and retry entry names an existing audit row of    *)
(* its own collection; a row has at most one retry entry.                 *)
RowLinks ==
    /\ \A k \in DOMAIN activeRequests :
          /\ activeRequests[k].rowId \in 1..Len(auditRows)
          /\ auditRows[activeRequests[k].rowId].collection = k[1]
    /\ \A e \in retryList :
          /\ e.rowId \in 1..Len(auditRows)
          /\ auditRows[e.rowId].collection = e.collection
    /\ \A e1, e2 \in retryList : e1.rowId = e2.rowId => e1 = e2

(* A digest reply, recorded or in flight, is the digest of the replying   *)
(* node's index for the collection of the request it answers.             *)
RepliesFromIndex ==
    /\ \A k \in DOMAIN activeRequests, n \in Nodes :
          activeRequests[k].replies[n].kind = "digest" =>
             activeRequests[k].replies[n] = DigestReply(Digest(NodeIndex[<<n, k[1]>>]))
    /\ \A m \in checkReplies :
          m.result.kind = "digest" =>
             m.result = DigestReply(Digest(NodeIndex[<<m.node, m.key[1]>>]))

IInv ==
    /\ TypeInv
    /\ RowLinks
    /\ RepliesFromIndex
    /\ RowsTracked
    /\ RetryCountBounded
    /\ SuccessMeansAgreement

USE ConstantsAssumption

(* The auditor starts with no request, no retry and no audit row. *)
LEMMA InitIInv == Init => IInv
<1> SUFFICES ASSUME Init PROVE IInv
  OBVIOUS
<1>1. DOMAIN activeRequests = {} /\ activeRequests \in [{} -> RequestStates]
  BY DEF Init
<1>2. Len(auditRows) = 0 /\ auditRows \in Seq(AuditRowType)
  BY DEF Init
<1> QED
  BY <1>1, <1>2 DEF Init, IInv, TypeInv, RowLinks, RepliesFromIndex, RowsTracked,
                    RetryCountBounded, SuccessMeansAgreement

(* dict assignment d[k] = v on a dict of values of S *)
LEMMA PutFacts ==
    ASSUME NEW S, NEW f, NEW k, NEW v \in S, f \in [DOMAIN f -> S]
    PROVE  /\ Put(f, k, v) \in [DOMAIN f \cup {k} -> S]
           /\ DOMAIN Put(f, k, v) = DOMAIN f \cup {k}
           /\ Put(f, k, v)[k] = v
           /\ \A x \in DOMAIN f \ {k} : Put(f, k, v)[x] = f[x]
BY DEF Put

(* del d[k] on a dict of values of S *)
LEMMA DeleteFacts ==
    ASSUME NEW S, NEW f, NEW k, f \in [DOMAIN f -> S]
    PROVE  /\ Delete(f, k) \in [DOMAIN f \ {k} -> S]
           /\ DOMAIN Delete(f, k) = DOMAIN f \ {k}
           /\ \A x \in DOMAIN f \ {k} : Delete(f, k)[x] = f[x]
BY DEF Delete, Restrict

(* The verdict drops the request state and moves its row out of           *)
(* in-progress: to successful only if the audit compared ok, to           *)
(* wait-for-retry only with a retry left and a retry entry for the row.   *)
LEMMA DecideShape ==
    ASSUME NEW key, NEW rs, Decide(key, rs)
    PROVE  \E st \in {"successful", "error", "wait-for-retry"} :
              /\ auditRows' = [auditRows EXCEPT ![rs.rowId].state = st]
              /\ activeRequests' = Delete(activeRequests, key)
              /\ st = "successful" => AuditOk(rs)
              /\ st = "wait-for-retry" =>
                    /\ RetriesLeft(rs)
                    /\ retryList' = retryList \cup
                          {[collection |-> key[1], rowId |-> rs.rowId,
                            retryCount |-> rs.retryCount]}
              /\ st # "wait-for-retry" => retryList' = retryList
              /\ auditReplies' \subseteq
                    auditReplies \cup [rowId : {rs.rowId}, result : AuditResults]
<1>1. CASE AuditOk(rs)
  <2> WITNESS "successful" \in {"successful", "error", "wait-for-retry"}
  <2> QED  BY <1>1 DEF Decide, SetRow, AuditResults
<1>2. CASE ~AuditOk(rs) /\ rs.explicit
  <2> WITNESS "error" \in {"successful", "error", "wait-for-retry"}
  <2> QED  BY <1>2 DEF Decide, SetRow, AuditResults
<1>3. CASE ~AuditOk(rs) /\ ~rs.explicit /\ ~RetriesLeft(rs)
  <2> WITNESS "error" \in {"successful", "error", "wait-for-retry"}
  <2> QED  BY <1>3 DEF Decide, SetRow
<1>4. CASE ~AuditOk(rs) /\ ~rs.explicit /\ RetriesLeft(rs)
  <2> WITNESS "wait-for-retry" \in {"successful", "error", "wait-for-retry"}
  <2> QED  BY <1>4 DEF Decide, SetRow, ScheduleRetry
<1> QED  BY <1>1, <1>2, <1>3, <1>4

(* An audit that compared ok over replies that are each an error or the   *)
(* digest of the replying node's index saw the same digest at every node. *)
LEMMA AgreementFromAuditOk ==
    ASSUME NEW rs, NEW c,
           rs.replies \in [Nodes -> ReplyValues],
           \A n \in Nodes : rs.replies[n] # NoReply,
           \A n \in Nodes : rs.replies[n].kind = "digest" =>
                               rs.replies[n] = DigestReply(Digest(NodeIndex[<<n, c>>])),
           AuditOk(rs)
    PROVE  \A n, m \in Nodes : Digest(NodeIndex[<<n, c>>]) = Digest(NodeIndex[<<m, c>>])
<1>1. PICK d \in Digests : ReplyDigests(rs) = {d}
  BY DEF AuditOk
<1>2. \A n \in Nodes : rs.replies[n].kind = "digest"
  <2> SUFFICES ASSUME NEW n \in Nodes PROVE rs.replies[n].kind = "digest"
    OBVIOUS
  <2>1. rs.replies[n] # ErrorReply
    BY DEF AuditOk, ErrorNodes
  <2>2. rs.replies[n] \in {DigestReply(x) : x \in Digests}
    BY <2>1 DEF ReplyValues
  <2>3. PICK x \in Digests : rs.replies[n] = DigestReply(x)
    BY <2>2
  <2> QED  BY <2>3 DEF DigestReply
<1>3. \A n \in Nodes : rs.replies[n].digest \in ReplyDigests(rs)
  BY DEF AuditOk, ReplyDigests
<1>4. \A n \in Nodes : Digest(NodeIndex[<<n, c>>]) = d
  <2> SUFFICES ASSUME NEW n \in Nodes PROVE Digest(NodeIndex[<<n, c>>]) = d
    OBVIOUS
  <2>1. rs.replies[n] = DigestReply(Digest(NodeIndex[<<n, c>>]))
    BY <1>2
  <2>2. rs.replies[n].digest = Digest(NodeIndex[<<n, c>>])
    BY <2>1 DEF DigestReply
  <2> QED  BY <1>1, <1>3, <2>2
<1> QED  BY <1>4
(* The verdict on a request whose replies are all in, each an error or    *)
(* the replying node's digest, keeps the invariant.  Both the last reply  *)
(* (RecordReply) and the state cleaner reach the verdict this way.         *)
LEMMA DecideIInv ==
    ASSUME IInv,
           NEW key \in DOMAIN activeRequests, NEW rs \in RequestStates,
           rs.rowId = activeRequests[key].rowId,
           \A n \in Nodes : rs.replies[n] # NoReply,
           \A n \in Nodes : rs.replies[n].kind = "digest" =>
                               rs.replies[n] = DigestReply(Digest(NodeIndex[<<n, key[1]>>])),
           Decide(key, rs),
           UNCHANGED <<NodeIndex, collectionIds, clock, checks, duplicates>>,
           checkReplies' \subseteq checkReplies
    PROVE  IInv'
<1> DEFINE r == rs.rowId
<1>1. PICK st \in {"successful", "error", "wait-for-retry"} :
         /\ auditRows' = [auditRows EXCEPT ![r].state = st]
         /\ activeRequests' = Delete(activeRequests, key)
         /\ st = "successful" => AuditOk(rs)
         /\ st = "wait-for-retry" =>
               /\ RetriesLeft(rs)
               /\ retryList' = retryList \cup
                     {[collection |-> key[1], rowId |-> r, retryCount |-> rs.retryCount]}
         /\ st # "wait-for-retry" => retryList' = retryList
         /\ auditReplies' \subseteq auditReplies \cup [rowId : {r}, result : AuditResults]
  BY DecideShape
<1>2. /\ r \in 1..Len(auditRows)
      /\ auditRows[r].collection = key[1]
      /\ key \in Collections \X (1..clock)
  BY DEF IInv, RowLinks, TypeInv
<1>3. auditRows[r].state = "in-progress"
  BY <1>2 DEF IInv, RowsTracked
<1>4. \A e \in retryList : e.rowId # r
  BY <1>2, <1>3 DEF IInv, RowsTracked
<1>5. \A k \in DOMAIN activeRequests \ {key} : activeRequests[k].rowId # r
  BY DEF IInv, RowsTracked
<1>6. /\ auditRows' \in Seq(AuditRowType)
      /\ Len(auditRows') = Len(auditRows)
      /\ auditRows'[r].state = st
      /\ auditRows'[r].collection = key[1]
      /\ \A i \in 1..Len(auditRows) \ {r} : auditRows'[i] = auditRows[i]
  <2>1. auditRows[r] \in AuditRowType
    BY <1>2 DEF IInv, TypeInv
  <2>2. [auditRows[r] EXCEPT !.state = st] \in AuditRowType
    BY <2>1 DEF AuditRowType, RowStates
  <2>3. auditRows' = [auditRows EXCEPT ![r] = [auditRows[r] EXCEPT !.state = st]]
    BY <1>1
  <2> QED  BY <1>2, <2>2, <2>3 DEF IInv, TypeInv
<1>7. /\ activeRequests' \in [DOMAIN activeRequests \ {key} -> RequestStates]
      /\ DOMAIN activeRequests' = DOMAIN activeRequests \ {key}
      /\ \A k \in DOMAIN activeRequests \ {key} : activeRequests'[k] = activeRequests[k]
  <2>1. activeRequests \in [DOMAIN activeRequests -> RequestStates]
    BY DEF IInv, TypeInv
  <2>2. /\ Delete(activeRequests, key) \in [DOMAIN activeRequests \ {key} -> RequestStates]
        /\ DOMAIN Delete(activeRequests, key) = DOMAIN activeRequests \ {key}
        /\ \A k \in DOMAIN activeRequests \ {key} :
              Delete(activeRequests, key)[k] = activeRequests[k]
    BY <2>1 DEF Delete, Restrict
  <2> QED  BY <1>1, <2>2
<1>8. st = "wait-for-retry" => rs.retryCount < MaxRetryCount
  BY <1>1 DEF RetriesLeft
<1>9. TypeInv'
  <2>1. retryList' \subseteq RetryEntries
    BY <1>1, <1>2 DEF IInv, TypeInv, RetryEntries, RequestStates, Rows
  <2>2. auditReplies' \subseteq [rowId : Rows, result : AuditResults]
    BY <1>1 DEF IInv, TypeInv, RequestStates
  <2> QED  BY <1>6, <1>7, <2>1, <2>2 DEF IInv, TypeInv
<1>10. RowLinks'
  <2>1. \A k \in DOMAIN activeRequests' :
           /\ activeRequests'[k].rowId \in 1..Len(auditRows')
           /\ auditRows'[activeRequests'[k].rowId].collection = k[1]
    BY <1>5, <1>6, <1>7 DEF IInv, RowLinks
  <2>2. \A e \in retryList' :
           /\ e.rowId \in 1..Len(auditRows')
           /\ auditRows'[e.rowId].collection = e.collection
    BY <1>1, <1>2, <1>4, <1>6 DEF IInv, RowLinks
  <2>3. \A e1, e2 \in retryList' : e1.rowId = e2.rowId => e1 = e2
    BY <1>1, <1>4 DEF IInv, RowLinks
  <2> QED  BY <2>1, <2>2, <2>3 DEF RowLinks
<1>11. RepliesFromIndex'
  BY <1>7 DEF IInv, RepliesFromIndex
<1>12. RowsTracked'
  <2>1. ASSUME NEW i \in 1..Len(auditRows'), i # r
        PROVE  /\ auditRows'[i].state = "in-progress"
                     <=> \E k \in DOMAIN activeRequests' : activeRequests'[k].rowId = i
               /\ auditRows'[i].state = "wait-for-retry"
                     <=> \E e \in retryList' : e.rowId = i
    BY <2>1, <1>1, <1>6, <1>7 DEF IInv, RowsTracked
  <2>2. /\ auditRows'[r].state = "in-progress"
              <=> \E k \in DOMAIN activeRequests' : activeRequests'[k].rowId = r
        /\ auditRows'[r].state = "wait-for-retry"
              <=> \E e \in retryList' : e.rowId = r
    <3>1. ~\E k \in DOMAIN activeRequests' : activeRequests'[k].rowId = r
      BY <1>5, <1>7
    <3>2. (\E e \in retryList' : e.rowId = r) <=> st = "wait-for-retry"
      <4>1. CASE st = "wait-for-retry"
        <5>1. [collection |-> key[1], rowId |-> r, retryCount |-> rs.retryCount] \in retryList'
          BY <4>1, <1>1
        <5> QED  BY <4>1, <5>1
      <4>2. CASE st # "wait-for-retry"
        BY <4>2, <1>1, <1>4
      <4> QED  BY <4>1, <4>2
    <3> QED  BY <3>1, <3>2, <1>6
  <2>3. \A k1, k2 \in DOMAIN activeRequests' :
           activeRequests'[k1].rowId = activeRequests'[k2].rowId => k1 = k2
    BY <1>7 DEF IInv, RowsTracked
  <2> QED  BY <2>1, <2>2, <2>3, <1>2, <1>6 DEF RowsTracked
<1>13. RetryCountBounded'
  BY <1>1, <1>7, <1>8 DEF IInv, RetryCountBounded
<1>14. SuccessMeansAgreement'
  <2>1. ASSUME NEW i \in 1..Len(auditRows'), i # r
        PROVE  auditRows'[i].state = "successful" =>
                  \A n, m \in Nodes : Digest(NodeIndex[<<n, auditRows'[i].collection>>])
                                    = Digest(NodeIndex[<<m, auditRows'[i].collection>>])
    BY <2>1, <1>6 DEF IInv, SuccessMeansAgreement
  <2>2. auditRows'[r].state = "successful" =>
           \A n, m \in Nodes : Digest(NodeIndex[<<n, auditRows'[r].collection>>])
                             = Digest(NodeIndex[<<m, auditRows'[r].collection>>])
    <3> SUFFICES ASSUME st = "successful"
                 PROVE  \A n, m \in Nodes : Digest(NodeIndex[<<n, key[1]>>])
                                          = Digest(NodeIndex[<<m, key[1]>>])
      BY <1>6
    <3> QED  BY <1>1, AgreementFromAuditOk DEF RequestStates
  <2> QED  BY <2>1, <2>2, <1>2, <1>6 DEF SuccessMeansAgreement
<1> QED  BY <1>9, <1>10, <1>11, <1>12, <1>13, <1>14 DEF IInv
(* create_timestamp() is later than every active key's timestamp, so the  *)
(* attempt's state key is fresh: the request state is added, none is       *)
(* overwritten.                                                            *)
LEMMA StartAttemptFacts ==
    ASSUME TypeInv, NEW c \in Collections, NEW ex \in BOOLEAN, NEW row \in Rows,
           NEW rc \in 0..MaxRetryCount, StartAttempt(c, ex, row, rc)
    PROVE  LET key == <<c, clock + 1>> IN
           /\ key \notin DOMAIN activeRequests
           /\ DOMAIN activeRequests' = DOMAIN activeRequests \cup {key}
           /\ activeRequests' \in [DOMAIN activeRequests' -> RequestStates]
           /\ activeRequests'[key].rowId = row
           /\ activeRequests'[key].retryCount = rc
           /\ \A n \in Nodes : activeRequests'[key].replies[n] = NoReply
           /\ \A k \in DOMAIN activeRequests : activeRequests'[k] = activeRequests[k]
           /\ clock' = clock + 1
           /\ DOMAIN activeRequests' \subseteq Collections \X (1..clock')
           /\ checks' \subseteq [node : Nodes, key : Collections \X Nat]
<1> DEFINE key == <<c, clock + 1>>
           rs == [explicit |-> ex, retryCount |-> rc,
                  replies |-> [n \in Nodes |-> NoReply], rowId |-> row]
<1>1. rs \in RequestStates
  BY DEF RequestStates, ReplyValues
<1>2. key \notin DOMAIN activeRequests
  BY DEF TypeInv
<1>3. /\ activeRequests' = Put(activeRequests, key, rs)
      /\ clock' = clock + 1
      /\ checks' = checks \cup {[node |-> n, key |-> key] : n \in Nodes}
  BY DEF StartAttempt
<1>4. /\ Put(activeRequests, key, rs) \in [DOMAIN activeRequests \cup {key} -> RequestStates]
      /\ DOMAIN Put(activeRequests, key, rs) = DOMAIN activeRequests \cup {key}
      /\ Put(activeRequests, key, rs)[key] = rs
      /\ \A x \in DOMAIN activeRequests \ {key} : Put(activeRequests, key, rs)[x] = activeRequests[x]
  BY <1>1 DEF TypeInv, Put
<1>5. \A k \in DOMAIN activeRequests : activeRequests'[k] = activeRequests[k]
  BY <1>2, <1>3, <1>4
<1>6. DOMAIN activeRequests' \subseteq Collections \X (1..clock + 1)
  BY <1>3, <1>4 DEF TypeInv
<1>7. checks' \subseteq [node : Nodes, key : Collections \X Nat]
  BY <1>3 DEF TypeInv
<1> QED  BY <1>2, <1>3, <1>4, <1>5, <1>6, <1>7

(* start_audit and the first attempt of a new audit keep the invariant:   *)
(* the new row is in-progress and carried by the new request alone.       *)
LEMMA StartAuditIInv ==
    ASSUME IInv, NEW c \in Collections, NEW ex \in BOOLEAN, NEW rc \in 0..MaxRetryCount,
           Len(auditRows) < MaxAudits,
           auditRows' = Append(auditRows, [collection |-> c, state |-> "in-progress"]),
           StartAttempt(c, ex, Len(auditRows) + 1, rc),
           UNCHANGED <<NodeIndex, collectionIds, retryList, checkReplies, auditReplies, duplicates>>
    PROVE  IInv'
<1> DEFINE L == Len(auditRows)
           key == <<c, clock + 1>>
<1>1. L + 1 \in Rows /\ L \in Nat
  BY DEF IInv, TypeInv, Rows
<1>2. /\ key \notin DOMAIN activeRequests
      /\ DOMAIN activeRequests' = DOMAIN activeRequests \cup {key}
      /\ activeRequests' \in [DOMAIN activeRequests' -> RequestStates]
      /\ activeRequests'[key].rowId = L + 1
      /\ activeRequests'[key].retryCount = rc
      /\ \A n \in Nodes : activeRequests'[key].replies[n] = NoReply
      /\ \A k \in DOMAIN activeRequests : activeRequests'[k] = activeRequests[k]
      /\ clock' = clock + 1
      /\ DOMAIN activeRequests' \subseteq Collections \X (1..clock')
      /\ checks' \subseteq [node : Nodes, key : Collections \X Nat]
  BY <1>1, StartAttemptFacts DEF IInv
<1>3. /\ auditRows' \in Seq(AuditRowType)
      /\ Len(auditRows') = L + 1
      /\ auditRows'[L + 1] = [collection |-> c, state |-> "in-progress"]
      /\ \A i \in 1..L : auditRows'[i] = auditRows[i]
  BY DEF IInv, TypeInv, AuditRowType, RowStates
<1>4. /\ \A k \in DOMAIN activeRequests : activeRequests[k].rowId \in 1..L
      /\ \A e \in retryList : e.rowId \in 1..L
  BY DEF IInv, RowLinks
<1>5. TypeInv'
  BY <1>1, <1>2, <1>3 DEF IInv, TypeInv
<1>6. RowLinks'
  <2>1. ASSUME NEW k \in DOMAIN activeRequests'
        PROVE  /\ activeRequests'[k].rowId \in 1..Len(auditRows')
               /\ auditRows'[activeRequests'[k].rowId].collection = k[1]
    <3>1. CASE k = key
      BY <3>1, <1>1, <1>2, <1>3
    <3>2. CASE k # key
      BY <3>2, <1>2, <1>3, <1>4 DEF IInv, RowLinks
    <3> QED  BY <3>1, <3>2
  <2>2. \A e \in retryList' :
           /\ e.rowId \in 1..Len(auditRows')
           /\ auditRows'[e.rowId].collection = e.collection
    BY <1>3, <1>4 DEF IInv, RowLinks
  <2> QED  BY <2>1, <2>2 DEF IInv, RowLinks
<1>7. RepliesFromIndex'
  <2>1. ASSUME NEW k \in DOMAIN activeRequests', NEW n \in Nodes,
               activeRequests'[k].replies[n].kind = "digest"
        PROVE  activeRequests'[k].replies[n] = DigestReply(Digest(NodeIndex'[<<n, k[1]>>]))
    <3>1. k # key
      <4>0. activeRequests'[key].replies[n] = NoReply
        BY <1>2
      <4>1. activeRequests'[key].replies[n].kind = "none"
        BY <4>0 DEF NoReply
      <4> QED  BY <2>1, <4>1
    <3> QED  BY <2>1, <3>1, <1>2 DEF IInv, RepliesFromIndex
  <2> QED  BY <2>1 DEF IInv, RepliesFromIndex
<1>8. RowsTracked'
  <2>1. ASSUME NEW i \in 1..L
        PROVE  /\ auditRows'[i].state = "in-progress"
                     <=> \E k \in DOMAIN activeRequests' : activeRequests'[k].rowId = i
               /\ auditRows'[i].state = "wait-for-retry"
                     <=> \E e \in retryList' : e.rowId = i
    <3>1. (\E k \in DOMAIN activeRequests' : activeRequests'[k].rowId = i)
            <=> \E k \in DOMAIN activeRequests : activeRequests[k].rowId = i
      <4>1. ASSUME NEW k \in DOMAIN activeRequests', activeRequests'[k].rowId = i
            PROVE  k \in DOMAIN activeRequests /\ activeRequests[k].rowId = i
        <5>1. k # key
          <6>1. activeRequests'[key].rowId = L + 1
            BY <1>2
          <6> QED  BY <6>1, <4>1, <1>1
        <5> QED  BY <4>1, <5>1, <1>2
      <4>2. ASSUME NEW k \in DOMAIN activeRequests, activeRequests[k].rowId = i
            PROVE  k \in DOMAIN activeRequests' /\ activeRequests'[k].rowId = i
        BY <4>2, <1>2
      <4> QED  BY <4>1, <4>2
    <3> QED  BY <3>1, <1>3 DEF IInv, RowsTracked
  <2>2. /\ auditRows'[L + 1].state = "in-progress"
              <=> \E k \in DOMAIN activeRequests' : activeRequests'[k].rowId = L + 1
        /\ auditRows'[L + 1].state = "wait-for-retry"
              <=> \E e \in retryList' : e.rowId = L + 1
    BY <1>1, <1>2, <1>3, <1>4
  <2>3. ASSUME NEW k1 \in DOMAIN activeRequests', NEW k2 \in DOMAIN activeRequests',
               activeRequests'[k1].rowId = activeRequests'[k2].rowId
        PROVE  k1 = k2
    <3>1. ASSUME NEW k \in DOMAIN activeRequests', k # key
          PROVE  activeRequests'[k].rowId # L + 1
      <4>1. k \in DOMAIN activeRequests
        BY <3>1, <1>2
      <4>2. activeRequests'[k].rowId \in 1..L
        BY <4>1, <1>2, <1>4
      <4> QED  BY <4>2, <1>1
    <3>2. CASE k1 = key \/ k2 = key
      BY <2>3, <3>1, <3>2, <1>2
    <3>3. CASE k1 # key /\ k2 # key
      BY <2>3, <3>3, <1>2 DEF IInv, RowsTracked
    <3> QED  BY <3>2, <3>3
  <2> QED  BY <1>1, <1>3, <2>1, <2>2, <2>3 DEF RowsTracked
<1>9. RetryCountBounded'
  <2>1. ASSUME NEW k \in DOMAIN activeRequests'
        PROVE  activeRequests'[k].retryCount <= MaxRetryCount
    <3>1. CASE k = key
      BY <3>1, <1>2
    <3>2. CASE k # key
      BY <3>2, <1>2 DEF IInv, RetryCountBounded
    <3> QED  BY <3>1, <3>2
  <2> QED  BY <2>1 DEF IInv, RetryCountBounded
<1>10. SuccessMeansAgreement'
  BY <1>1, <1>3 DEF IInv, SuccessMeansAgreement
<1> QED  BY <1>5, <1>6, <1>7, <1>8, <1>9, <1>10 DEF IInv
(* The RetryManager's restart_audit and new attempt keep the invariant:   *)
(* the row leaves wait-for-retry with its only retry entry and becomes     *)
(* in-progress with the new request, which no other request shares.       *)
LEMMA RestartIInv ==
    ASSUME IInv, NEW e \in retryList,
           retryList' = retryList \ {e},
           RestartConsistencyCheck(e.collection, e.rowId, e.retryCount + 1),
           UNCHANGED <<NodeIndex, collectionIds, checkReplies, auditReplies, duplicates>>
    PROVE  IInv'
<1> DEFINE r == e.rowId
           key == <<e.collection, clock + 1>>
<1>1. /\ e \in RetryEntries
      /\ r \in 1..Len(auditRows)
      /\ auditRows[r].collection = e.collection
      /\ auditRows[r].state = "wait-for-retry"
      /\ e.retryCount + 1 \in 0..MaxRetryCount
  BY DEF IInv, TypeInv, RowLinks, RowsTracked, RetryCountBounded, RetryEntries
<1>2. \A k \in DOMAIN activeRequests : activeRequests[k].rowId # r
  BY <1>1 DEF IInv, RowsTracked
<1>3. \A f \in retryList' : f.rowId # r
  BY DEF IInv, RowLinks
<1>4. /\ key \notin DOMAIN activeRequests
      /\ DOMAIN activeRequests' = DOMAIN activeRequests \cup {key}
      /\ activeRequests' \in [DOMAIN activeRequests' -> RequestStates]
      /\ activeRequests'[key].rowId = r
      /\ activeRequests'[key].retryCount = e.retryCount + 1
      /\ \A n \in Nodes : activeRequests'[key].replies[n] = NoReply
      /\ \A k \in DOMAIN activeRequests : activeRequests'[k] = activeRequests[k]
      /\ clock' = clock + 1
      /\ DOMAIN activeRequests' \subseteq Collections \X (1..clock')
      /\ checks' \subseteq [node : Nodes, key : Collections \X Nat]
  <2>1. StartAttempt(e.collection, FALSE, r, e.retryCount + 1)
    BY DEF RestartConsistencyCheck
  <2> QED  BY <1>1, <2>1, StartAttemptFacts DEF IInv, RetryEntries
<1>5. /\ auditRows' \in Seq(AuditRowType)
      /\ Len(auditRows') = Len(auditRows)
      /\ auditRows'[r].state = "in-progress"
      /\ auditRows'[r].collection = e.collection
      /\ \A i \in 1..Len(auditRows) \ {r} : auditRows'[i] = auditRows[i]
  <2>1. auditRows[r] \in AuditRowType
    BY <1>1 DEF IInv, TypeInv
  <2>2. [auditRows[r] EXCEPT !.state = "in-progress"] \in AuditRowType
    BY <2>1 DEF AuditRowType, RowStates
  <2>3. auditRows' = [auditRows EXCEPT ![r] = [auditRows[r] EXCEPT !.state = "in-progress"]]
    BY DEF RestartConsistencyCheck, SetRow
  <2> QED  BY <1>1, <2>2, <2>3 DEF IInv, TypeInv
<1>6. TypeInv'
  BY <1>4, <1>5 DEF IInv, TypeInv
<1>7. RowLinks'
  <2>1. ASSUME NEW k \in DOMAIN activeRequests'
        PROVE  /\ activeRequests'[k].rowId \in 1..Len(auditRows')
               /\ auditRows'[activeRequests'[k].rowId].collection = k[1]
    <3>1. CASE k = key
      BY <3>1, <1>1, <1>4, <1>5
    <3>2. CASE k # key
      BY <3>2, <1>2, <1>4, <1>5 DEF IInv, RowLinks
    <3> QED  BY <3>1, <3>2
  <2>2. \A f \in retryList' :
           /\ f.rowId \in 1..Len(auditRows')
           /\ auditRows'[f.rowId].collection = f.collection
    BY <1>3, <1>5 DEF IInv, RowLinks
  <2> QED  BY <2>1, <2>2 DEF IInv, RowLinks
<1>8. RepliesFromIndex'
  <2>1. ASSUME NEW k \in DOMAIN activeRequests', NEW n \in Nodes,
               activeRequests'[k].replies[n].kind = "digest"
        PROVE  activeRequests'[k].replies[n] = DigestReply(Digest(NodeIndex'[<<n, k[1]>>]))
    <3>1. k # key
      <4>1. activeRequests'[key].replies[n] = NoReply
        BY <1>4
      <4>2. activeRequests'[key].replies[n].kind = "none"
        BY <4>1 DEF NoReply
      <4> QED  BY <2>1, <4>2
    <3> QED  BY <2>1, <3>1, <1>4 DEF IInv, RepliesFromIndex
  <2> QED  BY <2>1 DEF IInv, RepliesFromIndex
<1>9. RowsTracked'
  <2>1. ASSUME NEW i \in 1..Len(auditRows), i # r
        PROVE  /\ auditRows'[i].state = "in-progress"
                     <=> \E k \in DOMAIN activeRequests' : activeRequests'[k].rowId = i
               /\ auditRows'[i].state = "wait-for-retry"
                     <=> \E f \in retryList' : f.rowId = i
    <3>1. (\E k \in DOMAIN activeRequests' : activeRequests'[k].rowId = i)
            <=> \E k \in DOMAIN activeRequests : activeRequests[k].rowId = i
      <4>1. ASSUME NEW k \in DOMAIN activeRequests', activeRequests'[k].rowId = i
            PROVE  k \in DOMAIN activeRequests /\ activeRequests[k].rowId = i
        <5>1. k # key
          <6>1. activeRequests'[key].rowId = r
            BY <1>4
          <6> QED  BY <6>1, <4>1, <2>1
        <5> QED  BY <4>1, <5>1, <1>4
      <4>2. ASSUME NEW k \in DOMAIN activeRequests, activeRequests[k].rowId = i
            PROVE  k \in DOMAIN activeRequests' /\ activeRequests'[k].rowId = i
        BY <4>2, <1>4
      <4> QED  BY <4>1, <4>2
    <3>2. (\E f \in retryList' : f.rowId = i) <=> \E f \in retryList : f.rowId = i
      BY <2>1
    <3> QED  BY <3>1, <3>2, <2>1, <1>5 DEF IInv, RowsTracked
  <2>2. /\ auditRows'[r].state = "in-progress"
              <=> \E k \in DOMAIN activeRequests' : activeRequests'[k].rowId = r
        /\ auditRows'[r].state = "wait-for-retry"
              <=> \E f \in retryList' : f.rowId = r
    BY <1>3, <1>4, <1>5
  <2>3. ASSUME NEW k1 \in DOMAIN activeRequests', NEW k2 \in DOMAIN activeRequests',
               activeRequests'[k1].rowId = activeRequests'[k2].rowId
        PROVE  k1 = k2
    <3>1. ASSUME NEW k \in DOMAIN activeRequests', k # key
          PROVE  activeRequests'[k].rowId # r
      <4>1. k \in DOMAIN activeRequests
        BY <3>1, <1>4
      <4> QED  BY <4>1, <1>2, <1>4
    <3>2. CASE k1 = key \/ k2 = key
      BY <2>3, <3>1, <3>2, <1>4
    <3>3. CASE k1 # key /\ k2 # key
      BY <2>3, <3>3, <1>4 DEF IInv, RowsTracked
    <3> QED  BY <3>2, <3>3
  <2> QED  BY <1>1, <1>5, <2>1, <2>2, <2>3 DEF RowsTracked
<1>10. RetryCountBounded'
  <2>1. ASSUME NEW k \in DOMAIN activeRequests'
        PROVE  activeRequests'[k].retryCount <= MaxRetryCount
    <3>1. CASE k = key
      BY <3>1, <1>1, <1>4
    <3>2. CASE k # key
      BY <3>2, <1>4 DEF IInv, RetryCountBounded
    <3> QED  BY <3>1, <3>2
  <2> QED  BY <2>1 DEF IInv, RetryCountBounded
<1>11. SuccessMeansAgreement'
  BY <1>5 DEF IInv, SuccessMeansAgreement
<1> QED  BY <1>6, <1>7, <1>8, <1>9, <1>10, <1>11 DEF IInv
(* Recording the first reply of a node to a live request keeps the        *)
(* invariant, whether or not it completes the replies.                     *)
LEMMA RecordReplyIInv ==
    ASSUME IInv, NEW m \in checkReplies,
           m.key \in DOMAIN activeRequests,
           activeRequests[m.key].replies[m.node] = NoReply,
           checkReplies' = checkReplies \ {m},
           RecordReply(m.key, m.node, m.result),
           UNCHANGED <<NodeIndex, collectionIds, clock, checks, duplicates>>
    PROVE  IInv'
<1> DEFINE key == m.key
           rs == activeRequests[key]
           rs2 == [rs EXCEPT !.replies[m.node] = m.result]
<1>1. /\ m.node \in Nodes
      /\ m.result \in ReplyValues \ {NoReply}
      /\ rs \in RequestStates
      /\ m.result.kind = "digest" =>
            m.result = DigestReply(Digest(NodeIndex[<<m.node, key[1]>>]))
  BY DEF IInv, TypeInv, RepliesFromIndex
<1>2. /\ rs2 \in RequestStates
      /\ rs2.rowId = rs.rowId
      /\ rs2.retryCount = rs.retryCount
      /\ \A n \in Nodes : rs2.replies[n].kind = "digest" =>
            rs2.replies[n] = DigestReply(Digest(NodeIndex[<<n, key[1]>>]))
  <2>1. rs2 \in RequestStates /\ rs2.rowId = rs.rowId /\ rs2.retryCount = rs.retryCount
    BY <1>1 DEF RequestStates
  <2>2. ASSUME NEW n \in Nodes, rs2.replies[n].kind = "digest"
        PROVE  rs2.replies[n] = DigestReply(Digest(NodeIndex[<<n, key[1]>>]))
    <3>1. CASE n = m.node
      BY <3>1, <2>2, <1>1 DEF RequestStates
    <3>2. CASE n # m.node
      BY <3>2, <2>2, <1>1 DEF RequestStates, IInv, RepliesFromIndex
    <3> QED  BY <3>1, <3>2
  <2> QED  BY <2>1, <2>2
<1>3. CASE \A n \in Nodes : rs2.replies[n] # NoReply
  <2>1. Decide(key, rs2)
    BY <1>3 DEF RecordReply
  <2> QED  BY <1>2, <1>3, <2>1, DecideIInv
<1>4. CASE ~\A n \in Nodes : rs2.replies[n] # NoReply
  <2>1. /\ activeRequests' = [activeRequests EXCEPT ![key] = rs2]
        /\ UNCHANGED <<auditRows, retryList, auditReplies>>
    BY <1>4 DEF RecordReply
  <2>2. /\ DOMAIN activeRequests' = DOMAIN activeRequests
        /\ activeRequests'[key] = rs2
        /\ \A k \in DOMAIN activeRequests \ {key} : activeRequests'[k] = activeRequests[k]
    BY <2>1
  <2>3. \A k \in DOMAIN activeRequests : activeRequests'[k].rowId = activeRequests[k].rowId
    BY <2>2, <1>2
  <2>4. TypeInv'
    BY <2>1, <2>2, <1>2 DEF IInv, TypeInv
  <2>5. RowLinks'
    BY <2>1, <2>2, <2>3 DEF IInv, RowLinks
  <2>6. RepliesFromIndex'
    <3>1. \A k \in DOMAIN activeRequests', n \in Nodes :
             activeRequests'[k].replies[n].kind = "digest" =>
                activeRequests'[k].replies[n] = DigestReply(Digest(NodeIndex'[<<n, k[1]>>]))
      <4> SUFFICES ASSUME NEW k \in DOMAIN activeRequests', NEW n \in Nodes,
                          activeRequests'[k].replies[n].kind = "digest"
                   PROVE  activeRequests'[k].replies[n]
                             = DigestReply(Digest(NodeIndex[<<n, k[1]>>]))
        BY DEF IInv
      <4>1. CASE k = key
        BY <4>1, <2>2, <1>2
      <4>2. CASE k # key
        BY <4>2, <2>2 DEF IInv, RepliesFromIndex
      <4> QED  BY <4>1, <4>2
    <3>2. \A r \in checkReplies' :
             r.result.kind = "digest" =>
                r.result = DigestReply(Digest(NodeIndex'[<<r.node, r.key[1]>>]))
      BY DEF IInv, RepliesFromIndex
    <3> QED  BY <3>1, <3>2 DEF RepliesFromIndex
  <2>7. RowsTracked'
    BY <2>1, <2>2, <2>3 DEF IInv, RowsTracked
  <2>8. RetryCountBounded'
    BY <2>1, <2>2, <1>2 DEF IInv, RetryCountBounded
  <2>9. SuccessMeansAgreement'
    BY <2>1 DEF IInv, SuccessMeansAgreement
  <2> QED  BY <2>4, <2>5, <2>6, <2>7, <2>8, <2>9 DEF IInv
<1> QED  BY <1>3, <1>4

(* The state cleaner's timeout counts the silent nodes as errors and      *)
(* reaches the verdict.                                                    *)
LEMMA StateCleanerIInv ==
    ASSUME IInv, StateCleaner
    PROVE  IInv'
<1>1. PICK key \in DOMAIN activeRequests :
         LET rs == activeRequests[key] IN
         /\ Decide(key, [rs EXCEPT !.replies =
                            [n \in Nodes |-> IF rs.replies[n] = NoReply
                                             THEN ErrorReply ELSE rs.replies[n]]])
         /\ UNCHANGED <<NodeIndex, collectionIds, clock, checks, checkReplies, duplicates>>
  BY DEF StateCleaner
<1> DEFINE rs == activeRequests[key]
           rs2 == [rs EXCEPT !.replies =
                      [n \in Nodes |-> IF rs.replies[n] = NoReply
                                       THEN ErrorReply ELSE rs.replies[n]]]
<1>2. rs \in RequestStates
  BY DEF IInv, TypeInv
<1>3. /\ rs2 \in RequestStates
      /\ rs2.rowId = rs.rowId
      /\ \A n \in Nodes : rs2.replies[n] # NoReply
  BY <1>2 DEF RequestStates, ReplyValues, ErrorReply, NoReply
<1>4. \A n \in Nodes : rs2.replies[n].kind = "digest" =>
         rs2.replies[n] = DigestReply(Digest(NodeIndex[<<n, key[1]>>]))
  <2> SUFFICES ASSUME NEW n \in Nodes, rs2.replies[n].kind = "digest"
               PROVE  rs2.replies[n] = DigestReply(Digest(NodeIndex[<<n, key[1]>>]))
    OBVIOUS
  <2>1. rs.replies[n] # NoReply
    BY <1>2 DEF RequestStates, ErrorReply
  <2>2. rs2.replies[n] = rs.replies[n]
    BY <1>2, <2>1 DEF RequestStates
  <2> QED  BY <2>2 DEF IInv, RepliesFromIndex
<1> QED  BY <1>1, <1>3, <1>4, DecideIInv

(* Every handler of the auditor, and the database and nodes, keep IInv. *)
LEMMA NextIInv == IInv /\ [Next]_vars => IInv'
<1> SUFFICES ASSUME IInv, [Next]_vars PROVE IInv'
  OBVIOUS
<1>1. CASE HandleDatabaseCollectionListReply
  BY <1>1 DEF HandleDatabaseCollectionListReply, IInv, TypeInv, RowLinks,
              RepliesFromIndex, RowsTracked, RetryCountBounded, SuccessMeansAgreement
<1>2. CASE ConsistencyCheckStarter
  <2>1. PICK c \in collectionIds :
           /\ StartConsistencyCheck(c)
           /\ UNCHANGED <<NodeIndex, collectionIds, retryList, checkReplies,
                          auditReplies, duplicates>>
    BY <1>2 DEF ConsistencyCheckStarter
  <2>2. c \in Collections
    BY DEF IInv, TypeInv
  <2>3. /\ Len(auditRows) < MaxAudits
        /\ auditRows' = Append(auditRows, [collection |-> c, state |-> "in-progress"])
        /\ StartAttempt(c, FALSE, Len(auditRows) + 1, 0)
    BY <2>1 DEF StartConsistencyCheck
  <2>4. FALSE \in BOOLEAN /\ 0 \in 0..MaxRetryCount
    OBVIOUS
  <2> QED  BY <2>1, <2>2, <2>3, <2>4, StartAuditIInv, Zenon
<1>3. CASE HandleAntiEntropyAuditRequest
  <2>1. PICK c \in Collections :
           /\ Len(auditRows) < MaxAudits
           /\ auditRows' = Append(auditRows, [collection |-> c, state |-> "in-progress"])
           /\ StartAttempt(c, TRUE, Len(auditRows) + 1, MaxRetryCount)
           /\ UNCHANGED <<NodeIndex, collectionIds, retryList, checkReplies,
                          auditReplies, duplicates>>
    BY <1>3 DEF HandleAntiEntropyAuditRequest
  <2>2. TRUE \in BOOLEAN /\ MaxRetryCount \in 0..MaxRetryCount
    OBVIOUS
  <2> QED  BY <2>1, <2>2, StartAuditIInv, Zenon
<1>4. CASE RetryManager
  BY <1>4, RestartIInv DEF RetryManager
<1>5. CASE HandleConsistencyCheck
  <2>1. PICK q \in checks :
           /\ \/ checks' = checks \ {q} /\ UNCHANGED duplicates
              \/ duplicates < MaxDuplicates /\ duplicates' = duplicates + 1
                 /\ UNCHANGED checks
           /\ checkReplies' = checkReplies \cup
                 {[node |-> q.node, key |-> q.key,
                   result |-> DigestReply(Digest(NodeIndex[<<q.node, q.key[1]>>]))]}
           /\ UNCHANGED <<NodeIndex, collectionIds, clock, activeRequests, retryList,
                          auditRows, auditReplies>>
    BY <1>5 DEF HandleConsistencyCheck
  <2>2. DigestReply(Digest(NodeIndex[<<q.node, q.key[1]>>])) \in ReplyValues \ {NoReply}
    <3>1. NodeIndex[<<q.node, q.key[1]>>] \in Indexes
      BY DEF IInv, TypeInv
    <3>2. Digest(NodeIndex[<<q.node, q.key[1]>>]) \in Digests
      BY <3>1 DEF Digest, Digests, Indexes
    <3> QED  BY <3>2 DEF ReplyValues, DigestReply, NoReply
  <2>3. TypeInv'
    BY <2>1, <2>2 DEF IInv, TypeInv
  <2>4. RepliesFromIndex'
    BY <2>1 DEF IInv, RepliesFromIndex, DigestReply
  <2> QED  BY <2>1, <2>3, <2>4 DEF IInv, RowLinks, RowsTracked, RetryCountBounded,
                                   SuccessMeansAgreement
<1>6. CASE HandleConsistencyCheckReply
  <2>1. PICK m \in checkReplies :
           /\ checkReplies' = checkReplies \ {m}
           /\ IF m.key \notin DOMAIN activeRequests
                 \/ activeRequests[m.key].replies[m.node] # NoReply
                 THEN UNCHANGED <<activeRequests, auditRows, retryList, auditReplies>>
                 ELSE RecordReply(m.key, m.node, m.result)
           /\ UNCHANGED <<NodeIndex, collectionIds, clock, checks, duplicates>>
    BY <1>6 DEF HandleConsistencyCheckReply
  <2>2. CASE m.key \notin DOMAIN activeRequests
             \/ activeRequests[m.key].replies[m.node] # NoReply
    BY <2>1, <2>2 DEF IInv, TypeInv, RowLinks, RepliesFromIndex, RowsTracked,
                      RetryCountBounded, SuccessMeansAgreement
  <2>3. CASE ~(m.key \notin DOMAIN activeRequests
               \/ activeRequests[m.key].replies[m.node] # NoReply)
    BY <2>1, <2>3, RecordReplyIInv
  <2> QED  BY <2>2, <2>3
<1>7. CASE StateCleaner
  BY <1>7, StateCleanerIInv
<1>8. CASE UNCHANGED vars
  BY <1>8 DEF vars, IInv, TypeInv, RowLinks, RepliesFromIndex, RowsTracked,
              RetryCountBounded, SuccessMeansAgreement
<1> QED  BY <1>1, <1>2, <1>3, <1>4, <1>5, <1>6, <1>7, <1>8 DEF Next

(* The strengthened invariant holds in every reachable state of the        *)
(* auditor.                                                                *)
THEOREM InductiveInvariant == Spec => []IInv
<1>1. Init => IInv
  BY InitIInv
<1>2. IInv /\ [Next]_vars => IInv'
  BY NextIInv
<1> QED  BY <1>1, <1>2, PTL DEF Spec

(* Whatever the number of nodes, collections, audits and retries, the     *)
(* audit rows of _start_consistency_check, the verdict of                  *)
(* _handle_consistency_check_reply and the RetryManager stay in step: a   *)
(* row is in-progress exactly when one active request carries it and      *)
(* wait-for-retry exactly when the retry list holds it.                    *)
THEOREM RowsTrackedTheorem == Spec => []RowsTracked
BY InductiveInvariant, PTL DEF IInv

(* For every cluster size, _handle_consistency_check_reply sets an audit   *)
(* row successful only when every node's consistency-check digest for the *)
(* collection is the same, whatever duplicates, timeouts and retries the  *)
(* audit went through.                                                     *)
THEOREM SuccessMeansAgreementTheorem == Spec => []SuccessMeansAgreement
BY InductiveInvariant, PTL DEF IInv
=============================================================================
