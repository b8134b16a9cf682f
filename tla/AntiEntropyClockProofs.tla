----------------------- MODULE AntiEntropyClockProofs -----------------------
(***************************************************************************)
(* The bound on create_timestamp() that TypeOK states: the clock never     *)
(* passes MaxAudits * (MaxRetryCount + 1), and every state key, check and  *)
(* reply carries a timestamp the clock has handed out.                     *)
(*                                                                         *)
(* Each attempt takes a fresh timestamp, so the clock counts attempts.  An *)
(* attempt of an audit row runs with a retry count, and no row runs two    *)
(* attempts with the same count.  Consumed is the set of (row, retry       *)
(* count) slots that the rows have used.  It is read off the present state *)
(* alone:                                                                  *)
(*   - a finished row has used all of its slots;                           *)
(*   - an in-progress row has used the counts up to its active request's;  *)
(*   - a row waiting for a retry has used those up to its entry's count.   *)
(* An explicit audit starts at max_retry_count and so takes every slot at  *)
(* once.  Every attempt adds a slot not yet used, and no step gives one    *)
(* back, so the clock never exceeds the number of used slots.  The proof   *)
(* rests on IInv of AntiEntropyProofs, for the row links, the retry bound  *)
(* and the one-to-one correspondence between rows and requests or retry    *)
(* entries.                                                                *)
(***************************************************************************)
EXTENDS AntiEntropyProofs, FiniteSets, FiniteSetTheorems

Slots == Rows \X (0..MaxRetryCount)

(* Slot <<i, r>> is used: row i exists, and it is finished or has reached *)
(* retry count r.                                                          *)
Used(i, r) ==
    /\ i <= Len(auditRows)
    /\ \/ auditRows[i].state \in {"successful", "error"}
       \/ \E k \in DOMAIN activeRequests :
             activeRequests[k].rowId = i /\ r <= activeRequests[k].retryCount
       \/ \E e \in retryList : e.rowId = i /\ r <= e.retryCount

Consumed == {s \in Slots : Used(s[1], s[2])}

(* Every check, reply and state key carries a timestamp already handed out. *)
KeysBelowClock ==
    /\ \A q \in checks : q.key[2] \in 1..clock
    /\ \A m \in checkReplies : m.key[2] \in 1..clock
    /\ \A k \in DOMAIN activeRequests : k[2] \in 1..clock

ClockInv ==
    /\ KeysBelowClock
    /\ clock <= Cardinality(Consumed)

-----------------------------------------------------------------------------
(* There are exactly MaxTimestamp (row, retry count) slots. *)
LEMMA SlotsFinite ==
    /\ IsFiniteSet(Slots)
    /\ Cardinality(Slots) = MaxTimestamp
<1>1. IsFiniteSet(Rows) /\ Cardinality(Rows) = MaxAudits
  <2>1. IsFiniteSet(1..MaxAudits) /\ Cardinality(1..MaxAudits) = IF 1 > MaxAudits THEN 0 ELSE MaxAudits - 1 + 1
    BY ConstantsAssumption, FS_Interval
  <2> QED  BY <2>1, ConstantsAssumption DEF Rows
<1>2. IsFiniteSet(0..MaxRetryCount) /\ Cardinality(0..MaxRetryCount) = MaxRetryCount + 1
  <2>1. IsFiniteSet(0..MaxRetryCount)
        /\ Cardinality(0..MaxRetryCount) = IF 0 > MaxRetryCount THEN 0 ELSE MaxRetryCount - 0 + 1
    BY ConstantsAssumption, FS_Interval
  <2> QED  BY <2>1, ConstantsAssumption
<1> QED  BY <1>1, <1>2, FS_Product DEF Slots, MaxTimestamp

(* A set of slots that gains a slot it lacked grows by at least one. *)
LEMMA SlotsGrow ==
    ASSUME NEW S \in SUBSET Slots, NEW T \in SUBSET Slots, NEW x,
           x \notin S, S \cup {x} \subseteq T
    PROVE  Cardinality(T) >= Cardinality(S) + 1
<1>1. IsFiniteSet(S) /\ IsFiniteSet(T)
  BY SlotsFinite, FS_Subset
<1>2. IsFiniteSet(S \cup {x}) /\ Cardinality(S \cup {x}) = Cardinality(S) + 1
  BY <1>1, FS_AddElement
<1>3. Cardinality(S \cup {x}) <= Cardinality(T)
  BY <1>1, <1>2, FS_Subset
<1>4. Cardinality(S) \in Nat
  BY <1>1, FS_CardinalityType
<1> QED  BY <1>2, <1>3, <1>4

(* A set of slots inside another has no more of them. *)
LEMMA SlotsMonotone ==
    ASSUME NEW S \in SUBSET Slots, NEW T \in SUBSET Slots, S \subseteq T
    PROVE  Cardinality(S) <= Cardinality(T)
BY SlotsFinite, FS_Subset

(* The auditor starts with its clock at zero and no slot used. *)
LEMMA InitClockInv == Init => ClockInv
<1> SUFFICES ASSUME Init PROVE ClockInv
  OBVIOUS
<1>1. Consumed \in SUBSET Slots
  BY DEF Consumed
<1>2. Cardinality(Consumed) \in Nat
  BY <1>1, SlotsFinite, FS_Subset, FS_CardinalityType
<1> QED  BY <1>2 DEF Init, ClockInv, KeysBelowClock
(* The verdict keeps every used slot: its row ends finished, or waits for *)
(* a retry at the count of the attempt that just ended.                   *)
LEMMA DecideConsumed ==
    ASSUME IInv,
           NEW key \in DOMAIN activeRequests, NEW rs,
           rs.rowId = activeRequests[key].rowId,
           rs.retryCount = activeRequests[key].retryCount,
           Decide(key, rs)
    PROVE  Consumed \subseteq Consumed'
<1> DEFINE r == rs.rowId
<1>1. PICK st \in {"successful", "error", "wait-for-retry"} :
         /\ auditRows' = [auditRows EXCEPT ![r].state = st]
         /\ activeRequests' = Delete(activeRequests, key)
         /\ st = "wait-for-retry" =>
               retryList' = retryList \cup
                  {[collection |-> key[1], rowId |-> r, retryCount |-> rs.retryCount]}
         /\ st # "wait-for-retry" => retryList' = retryList
  BY DecideShape
<1>2. /\ r \in 1..Len(auditRows)
      /\ auditRows[r].state = "in-progress"
      /\ \A k \in DOMAIN activeRequests \ {key} : activeRequests[k].rowId # r
  BY DEF IInv, RowLinks, RowsTracked
<1>3. /\ DOMAIN activeRequests' = DOMAIN activeRequests \ {key}
      /\ \A k \in DOMAIN activeRequests \ {key} : activeRequests'[k] = activeRequests[k]
  <2>1. activeRequests \in [DOMAIN activeRequests -> RequestStates]
    BY DEF IInv, TypeInv
  <2>2. /\ DOMAIN Delete(activeRequests, key) = DOMAIN activeRequests \ {key}
        /\ \A k \in DOMAIN activeRequests \ {key} :
              Delete(activeRequests, key)[k] = activeRequests[k]
    BY <2>1 DEF Delete, Restrict
  <2> QED  BY <1>1, <2>2
<1>4. retryList \subseteq retryList'
  BY <1>1
<1>5. /\ Len(auditRows') = Len(auditRows)
      /\ auditRows'[r].state = st
      /\ \A i \in 1..Len(auditRows) \ {r} : auditRows'[i] = auditRows[i]
  <2>1. auditRows \in Seq(AuditRowType)
    BY DEF IInv, TypeInv
  <2>2. auditRows[r] \in AuditRowType
    BY <1>2, <2>1
  <2>3. auditRows' = [auditRows EXCEPT ![r] = [auditRows[r] EXCEPT !.state = st]]
    BY <1>1
  <2> QED  BY <1>2, <2>1, <2>2, <2>3 DEF AuditRowType
<1> SUFFICES ASSUME NEW s \in Consumed PROVE s \in Consumed'
  BY DEF Consumed
<1>6. s \in Slots /\ Used(s[1], s[2])
  BY DEF Consumed
<1>7. CASE s[1] # r
  <2>1. s[1] \in 1..Len(auditRows) \ {r}
    BY <1>6, <1>7 DEF Used, Slots, Rows
  <2>2. ASSUME NEW k \in DOMAIN activeRequests,
               activeRequests[k].rowId = s[1], s[2] <= activeRequests[k].retryCount
        PROVE  k \in DOMAIN activeRequests' /\ activeRequests'[k] = activeRequests[k]
    BY <2>2, <1>2, <1>3, <1>7
  <2> QED  BY <1>5, <1>6, <1>4, <2>1, <2>2 DEF Used, Consumed
<1>8. CASE s[1] = r
  <2>1. s[1] <= Len(auditRows')
    BY <1>2, <1>5, <1>8
  <2>2. CASE st \in {"successful", "error"}
    BY <1>5, <1>6, <1>8, <2>1, <2>2 DEF Used, Consumed
  <2>3. CASE st = "wait-for-retry"
    <3>1. \E e \in retryList' : e.rowId = r /\ s[2] <= e.retryCount
      <4>1. CASE \E e \in retryList : e.rowId = r /\ s[2] <= e.retryCount
        BY <4>1, <1>4
      <4>2. CASE \E k \in DOMAIN activeRequests :
                    activeRequests[k].rowId = r /\ s[2] <= activeRequests[k].retryCount
        <5>1. s[2] <= rs.retryCount
          BY <4>2, <1>2
        <5>2. [collection |-> key[1], rowId |-> r, retryCount |-> rs.retryCount] \in retryList'
          BY <2>3, <1>1
        <5> QED  BY <5>1, <5>2
      <4> QED  BY <4>1, <4>2, <1>2, <1>6, <1>8 DEF Used
    <3> QED  BY <3>1, <2>1, <1>6, <1>8 DEF Used, Consumed
  <2> QED  BY <2>2, <2>3
<1> QED  BY <1>7, <1>8

(* start_audit and the first attempt of a new row use its slot 0, which   *)
(* no row had used, and keep every used slot.                              *)
LEMMA StartAuditConsumed ==
    ASSUME IInv, NEW c \in Collections, NEW ex \in BOOLEAN, NEW rc \in 0..MaxRetryCount,
           Len(auditRows) < MaxAudits,
           auditRows' = Append(auditRows, [collection |-> c, state |-> "in-progress"]),
           StartAttempt(c, ex, Len(auditRows) + 1, rc),
           UNCHANGED retryList
    PROVE  Cardinality(Consumed') >= Cardinality(Consumed) + 1
<1> DEFINE L == Len(auditRows)
           key == <<c, clock + 1>>
           x == <<L + 1, 0>>
<1>1. auditRows \in Seq(AuditRowType) /\ TypeInv
  BY DEF IInv, TypeInv
<1>2. L + 1 \in Rows
  BY <1>1, ConstantsAssumption DEF Rows
<1>3. /\ key \notin DOMAIN activeRequests
      /\ DOMAIN activeRequests' = DOMAIN activeRequests \cup {key}
      /\ activeRequests'[key].rowId = L + 1
      /\ activeRequests'[key].retryCount = rc
      /\ \A k \in DOMAIN activeRequests : activeRequests'[k] = activeRequests[k]
  <2>1. key \notin DOMAIN activeRequests
    BY <1>1 DEF TypeInv
  <2>2. activeRequests' = Put(activeRequests, key,
                              [explicit |-> ex, retryCount |-> rc,
                               replies |-> [n \in Nodes |-> NoReply], rowId |-> L + 1])
    BY DEF StartAttempt
  <2> QED  BY <1>1, <2>1, <2>2, SMTT(30) DEF Put
<1>4. /\ Len(auditRows') = L + 1
      /\ \A i \in 1..L : auditRows'[i] = auditRows[i]
  BY <1>1
<1>5. x \notin Consumed
  BY DEF Consumed, Used
<1>6. x \in Consumed'
  <2>1. x \in Slots
    BY <1>2, ConstantsAssumption DEF Slots
  <2>2. \E k \in DOMAIN activeRequests' :
           activeRequests'[k].rowId = L + 1 /\ 0 <= activeRequests'[k].retryCount
    BY <1>3
  <2> QED  BY <2>1, <2>2, <1>4 DEF Consumed, Used
<1>7. Consumed \subseteq Consumed'
  <2> SUFFICES ASSUME NEW s \in Consumed PROVE s \in Consumed'
    OBVIOUS
  <2>1. s \in Slots /\ s[1] \in 1..L /\ Used(s[1], s[2])
    BY DEF Consumed, Used, Slots, Rows
  <2> QED  BY <2>1, <1>3, <1>4 DEF Consumed, Used
<1>8. Consumed \in SUBSET Slots /\ Consumed' \in SUBSET Slots
  BY DEF Consumed
<1> QED  BY <1>5, <1>6, <1>7, <1>8, SlotsGrow, Zenon

(* restart_audit and the next attempt of a waiting row use its next slot: *)
(* the row's only retry entry covered the counts up to its own, and no    *)
(* request carried the row.                                                *)
LEMMA RestartConsumed ==
    ASSUME IInv, NEW e \in retryList,
           retryList' = retryList \ {e},
           RestartConsistencyCheck(e.collection, e.rowId, e.retryCount + 1)
    PROVE  Cardinality(Consumed') >= Cardinality(Consumed) + 1
<1> DEFINE rw == e.rowId
           nx == e.retryCount + 1
           x == <<rw, nx>>
<1>1. /\ TypeInv
      /\ e \in RetryEntries
      /\ e.retryCount < MaxRetryCount
      /\ auditRows \in Seq(AuditRowType)
  BY DEF IInv, TypeInv, RetryCountBounded
<1>2. /\ rw \in 1..Len(auditRows)
      /\ auditRows[rw].state = "wait-for-retry"
      /\ \A k \in DOMAIN activeRequests : activeRequests[k].rowId # rw
      /\ \A e2 \in retryList : e2.rowId = rw => e2 = e
  BY DEF IInv, RowLinks, RowsTracked
<1>3. /\ e.collection \in Collections /\ rw \in Rows /\ nx \in 0..MaxRetryCount
  BY <1>1, ConstantsAssumption DEF RetryEntries
<1>4. /\ DOMAIN activeRequests' = DOMAIN activeRequests \cup {<<e.collection, clock + 1>>}
      /\ activeRequests'[<<e.collection, clock + 1>>].rowId = rw
      /\ activeRequests'[<<e.collection, clock + 1>>].retryCount = nx
      /\ \A k \in DOMAIN activeRequests : activeRequests'[k] = activeRequests[k]
  <2>1. StartAttempt(e.collection, FALSE, rw, nx) /\ FALSE \in BOOLEAN
    BY Zenon DEF RestartConsistencyCheck
  <2>2. <<e.collection, clock + 1>> \notin DOMAIN activeRequests
    BY <1>1 DEF TypeInv
  <2>3. activeRequests' = Put(activeRequests, <<e.collection, clock + 1>>,
                              [explicit |-> FALSE, retryCount |-> nx,
                               replies |-> [n \in Nodes |-> NoReply], rowId |-> rw])
    BY <2>1 DEF StartAttempt
  <2> QED  BY <2>2, <2>3 DEF Put
<1>5. /\ Len(auditRows') = Len(auditRows)
      /\ auditRows'[rw].state = "in-progress"
      /\ \A i \in 1..Len(auditRows) \ {rw} : auditRows'[i] = auditRows[i]
  <2>1. auditRows[rw] \in AuditRowType
    BY <1>1, <1>2
  <2>2. auditRows' = [auditRows EXCEPT ![rw] = [auditRows[rw] EXCEPT !.state = "in-progress"]]
    BY DEF RestartConsistencyCheck, SetRow
  <2> QED  BY <1>1, <1>2, <2>1, <2>2 DEF AuditRowType
<1>6. x \notin Consumed
  <2>1. auditRows[rw].state \notin {"successful", "error"}
    BY <1>2
  <2>2. ~\E k \in DOMAIN activeRequests : activeRequests[k].rowId = rw
    BY <1>2
  <2>3. ~\E e2 \in retryList : e2.rowId = rw /\ nx <= e2.retryCount
    BY <1>1, <1>2 DEF RetryEntries
  <2>4. ~Used(rw, nx)
    BY <2>1, <2>2, <2>3 DEF Used
  <2> QED  BY <2>4 DEF Consumed
<1>7. x \in Consumed'
  <2>1. x \in Slots
    BY <1>3 DEF Slots
  <2>2. /\ <<e.collection, clock + 1>> \in DOMAIN activeRequests'
        /\ activeRequests'[<<e.collection, clock + 1>>].rowId = rw
        /\ nx <= activeRequests'[<<e.collection, clock + 1>>].retryCount
    BY <1>3, <1>4
  <2>3. Used(rw, nx)'
    BY <1>2, <1>5, <2>2 DEF Used
  <2> QED  BY <2>1, <2>3 DEF Consumed
<1>8. Consumed \subseteq Consumed'
  <2> SUFFICES ASSUME NEW s \in Consumed PROVE s \in Consumed'
    OBVIOUS
  <2>1. s \in Slots /\ s[1] \in 1..Len(auditRows) /\ Used(s[1], s[2])
    BY DEF Consumed, Used, Slots, Rows
  <2>2. CASE s[1] # rw
    <3>1. s[1] <= Len(auditRows')
      BY <2>1, <1>5
    <3>2. CASE auditRows[s[1]].state \in {"successful", "error"}
      <4>1. auditRows'[s[1]] = auditRows[s[1]]
        BY <2>1, <2>2, <1>5
      <4> QED  BY <3>1, <3>2, <4>1, <2>1 DEF Used, Consumed
    <3>3. CASE \E k \in DOMAIN activeRequests :
                  activeRequests[k].rowId = s[1] /\ s[2] <= activeRequests[k].retryCount
      <4>1. PICK k \in DOMAIN activeRequests :
                  activeRequests[k].rowId = s[1] /\ s[2] <= activeRequests[k].retryCount
        BY <3>3
      <4>2. k \in DOMAIN activeRequests' /\ activeRequests'[k] = activeRequests[k]
        BY <4>1, <1>4
      <4> QED  BY <3>1, <4>1, <4>2, <2>1 DEF Used, Consumed
    <3>4. CASE \E e2 \in retryList : e2.rowId = s[1] /\ s[2] <= e2.retryCount
      <4>1. PICK e2 \in retryList : e2.rowId = s[1] /\ s[2] <= e2.retryCount
        BY <3>4
      <4>2. e2 \in retryList'
        BY <4>1, <2>2
      <4> QED  BY <3>1, <4>1, <4>2, <2>1 DEF Used, Consumed
    <3> QED  BY <2>1, <3>2, <3>3, <3>4 DEF Used
  <2>3. CASE s[1] = rw
    <3>1. s[2] <= e.retryCount
      BY <2>1, <2>3, <1>2 DEF Used
    <3>2. /\ <<e.collection, clock + 1>> \in DOMAIN activeRequests'
          /\ activeRequests'[<<e.collection, clock + 1>>].rowId = s[1]
          /\ s[2] <= activeRequests'[<<e.collection, clock + 1>>].retryCount
      BY <3>1, <2>1, <2>3, <1>1, <1>4 DEF Slots, RetryEntries
    <3>3. Used(s[1], s[2])'
      BY <3>2, <2>1, <1>5 DEF Used
    <3> QED  BY <3>3, <2>1 DEF Consumed
  <2> QED  BY <2>2, <2>3
<1>9. Consumed \in SUBSET Slots /\ Consumed' \in SUBSET Slots
  BY DEF Consumed
<1> QED  BY <1>6, <1>7, <1>8, <1>9, SlotsGrow, Zenon

(* A step that keeps the rows, the retry list and every request's row and *)
(* retry count keeps the used slots.                                       *)
LEMMA SameSlots ==
    ASSUME UNCHANGED <<auditRows, retryList>>,
           DOMAIN activeRequests' = DOMAIN activeRequests,
           \A k \in DOMAIN activeRequests :
              /\ activeRequests'[k].rowId = activeRequests[k].rowId
              /\ activeRequests'[k].retryCount = activeRequests[k].retryCount
    PROVE  Consumed' = Consumed
BY DEF Consumed, Used

(* The verdict, reached from a reply or a timeout, keeps the clock and    *)
(* drops one state key.                                                     *)
LEMMA DecideClockInv ==
    ASSUME IInv, ClockInv,
           NEW key \in DOMAIN activeRequests, NEW rs,
           rs.rowId = activeRequests[key].rowId,
           rs.retryCount = activeRequests[key].retryCount,
           Decide(key, rs),
           UNCHANGED <<clock, checks>>,
           checkReplies' \subseteq checkReplies
    PROVE  ClockInv'
<1>1. Cardinality(Consumed) <= Cardinality(Consumed')
  <2>1. Consumed \subseteq Consumed'
    BY DecideConsumed, Zenon
  <2>2. Consumed \in SUBSET Slots /\ Consumed' \in SUBSET Slots
    BY DEF Consumed
  <2> QED  BY <2>1, <2>2, SlotsMonotone, Zenon
<1>2. DOMAIN activeRequests' \subseteq DOMAIN activeRequests
  <2>1. activeRequests' = Delete(activeRequests, key)
    BY DEF Decide
  <2> QED  BY <2>1 DEF Delete, Restrict
<1>3. clock \in Nat /\ Cardinality(Consumed) \in Nat /\ Cardinality(Consumed') \in Nat
  <2>1. Consumed \in SUBSET Slots /\ Consumed' \in SUBSET Slots
    BY DEF Consumed
  <2> QED  BY <2>1, SlotsFinite, FS_Subset, FS_CardinalityType DEF IInv, TypeInv
<1>4. KeysBelowClock'
  BY <1>2 DEF ClockInv, KeysBelowClock
<1> QED  BY <1>1, <1>3, <1>4 DEF ClockInv

(* Every attempt of _start_consistency_check stamps its state key with the *)
(* next timestamp and uses a fresh slot, so the clock stays below the      *)
(* count of used slots.                                                    *)
LEMMA StartClockInv ==
    ASSUME IInv, ClockInv, NEW c, NEW ex, NEW row, NEW rc,
           StartAttempt(c, ex, row, rc),
           UNCHANGED checkReplies,
           Cardinality(Consumed') >= Cardinality(Consumed) + 1
    PROVE  ClockInv'
<1>1. clock \in Nat /\ Cardinality(Consumed) \in Nat /\ Cardinality(Consumed') \in Nat
  <2>1. Consumed \in SUBSET Slots /\ Consumed' \in SUBSET Slots
    BY DEF Consumed
  <2> QED  BY <2>1, SlotsFinite, FS_Subset, FS_CardinalityType DEF IInv, TypeInv
<1>2. /\ clock' = clock + 1
      /\ checks' = checks \cup {[node |-> n, key |-> <<c, clock + 1>>] : n \in Nodes}
      /\ DOMAIN activeRequests' = DOMAIN activeRequests \cup {<<c, clock + 1>>}
  BY DEF StartAttempt, Put
<1>3. KeysBelowClock'
  BY <1>1, <1>2 DEF ClockInv, KeysBelowClock
<1>4. clock' <= Cardinality(Consumed')
  BY <1>1, <1>2 DEF ClockInv
<1> QED  BY <1>3, <1>4 DEF ClockInv

(* Every step of the auditor keeps the clock within the slots used. *)
LEMMA NextClockInv == IInv /\ ClockInv /\ [Next]_vars => ClockInv'
<1> SUFFICES ASSUME IInv, ClockInv, [Next]_vars PROVE ClockInv'
  OBVIOUS
<1>0. /\ activeRequests \in [DOMAIN activeRequests -> RequestStates]
      /\ clock \in Nat
      /\ Cardinality(Consumed) \in Nat
  <2>1. Consumed \in SUBSET Slots
    BY DEF Consumed
  <2> QED  BY <2>1, SlotsFinite, FS_Subset, FS_CardinalityType DEF IInv, TypeInv
<1>1. CASE HandleDatabaseCollectionListReply
  <2>1. Consumed' = Consumed
    BY <1>1, SameSlots DEF HandleDatabaseCollectionListReply
  <2> QED  BY <1>1, <2>1 DEF HandleDatabaseCollectionListReply, ClockInv, KeysBelowClock
<1>2. CASE ConsistencyCheckStarter
  <2>1. PICK c \in collectionIds :
           /\ StartConsistencyCheck(c)
           /\ UNCHANGED <<retryList, checkReplies>>
    BY <1>2 DEF ConsistencyCheckStarter
  <2>2. c \in Collections /\ FALSE \in BOOLEAN /\ 0 \in 0..MaxRetryCount
    BY <2>1, ConstantsAssumption DEF IInv, TypeInv
  <2>3. /\ Len(auditRows) < MaxAudits
        /\ auditRows' = Append(auditRows, [collection |-> c, state |-> "in-progress"])
        /\ StartAttempt(c, FALSE, Len(auditRows) + 1, 0)
    BY <2>1, Zenon DEF StartConsistencyCheck
  <2>4. Cardinality(Consumed') >= Cardinality(Consumed) + 1
    BY <2>1, <2>2, <2>3, StartAuditConsumed, Zenon
  <2> QED  BY <2>1, <2>3, <2>4, StartClockInv, Zenon
<1>3. CASE HandleAntiEntropyAuditRequest
  <2>1. PICK c \in Collections :
           /\ Len(auditRows) < MaxAudits
           /\ auditRows' = Append(auditRows, [collection |-> c, state |-> "in-progress"])
           /\ StartAttempt(c, TRUE, Len(auditRows) + 1, MaxRetryCount)
           /\ UNCHANGED <<NodeIndex, collectionIds, retryList, checkReplies,
                          auditReplies, duplicates>>
    BY <1>3, Zenon DEF HandleAntiEntropyAuditRequest
  <2>2. TRUE \in BOOLEAN /\ MaxRetryCount \in 0..MaxRetryCount
    BY ConstantsAssumption
  <2>3. Cardinality(Consumed') >= Cardinality(Consumed) + 1
    BY <2>1, <2>2, StartAuditConsumed, Zenon
  <2> QED  BY <2>1, <2>3, StartClockInv, Zenon
<1>4. CASE RetryManager
  <2>1. PICK e \in retryList :
           /\ retryList' = retryList \ {e}
           /\ RestartConsistencyCheck(e.collection, e.rowId, e.retryCount + 1)
           /\ UNCHANGED checkReplies
    BY <1>4 DEF RetryManager
  <2>2. Cardinality(Consumed') >= Cardinality(Consumed) + 1
    BY <2>1, RestartConsumed, Zenon
  <2>3. StartAttempt(e.collection, FALSE, e.rowId, e.retryCount + 1)
    BY <2>1, Zenon DEF RestartConsistencyCheck
  <2> QED  BY <2>1, <2>2, <2>3, StartClockInv, Zenon
<1>5. CASE HandleConsistencyCheck
  <2>1. PICK q \in checks :
           /\ \/ checks' = checks \ {q} /\ UNCHANGED duplicates
              \/ duplicates < MaxDuplicates /\ duplicates' = duplicates + 1
                 /\ UNCHANGED checks
           /\ checkReplies' = checkReplies \cup
                 {[node |-> q.node, key |-> q.key,
                   result |-> DigestReply(Digest(NodeIndex[<<q.node, q.key[1]>>]))]}
           /\ UNCHANGED <<NodeIndex, collectionIds, clock, activeRequests, retryList,
                          auditRows, auditReplies>>
    BY <1>5, Zenon DEF HandleConsistencyCheck
  <2>2. checks' \subseteq checks
    BY <2>1
  <2>3. Consumed' = Consumed
    BY <2>1, SameSlots
  <2> QED  BY <2>1, <2>2, <2>3 DEF ClockInv, KeysBelowClock
<1>6. CASE HandleConsistencyCheckReply
  <2>1. PICK m \in checkReplies :
           /\ checkReplies' = checkReplies \ {m}
           /\ IF m.key \notin DOMAIN activeRequests
                 \/ activeRequests[m.key].replies[m.node] # NoReply
                 THEN UNCHANGED <<activeRequests, auditRows, retryList, auditReplies>>
                 ELSE RecordReply(m.key, m.node, m.result)
           /\ UNCHANGED <<clock, checks>>
    BY <1>6 DEF HandleConsistencyCheckReply
  <2>2. CASE m.key \notin DOMAIN activeRequests
             \/ activeRequests[m.key].replies[m.node] # NoReply
    <3>1. Consumed' = Consumed
      BY <2>1, <2>2, SameSlots
    <3> QED  BY <2>1, <2>2, <3>1 DEF ClockInv, KeysBelowClock
  <2>3. CASE ~(m.key \notin DOMAIN activeRequests
               \/ activeRequests[m.key].replies[m.node] # NoReply)
    <3> DEFINE key == m.key
               rs2 == [activeRequests[key] EXCEPT !.replies[m.node] = m.result]
    <3>1. key \in DOMAIN activeRequests /\ RecordReply(key, m.node, m.result)
      BY <2>1, <2>3
    <3>2. activeRequests[key] \in RequestStates
      BY <1>0, <3>1
    <3>3. rs2.rowId = activeRequests[key].rowId
          /\ rs2.retryCount = activeRequests[key].retryCount
      BY <3>2 DEF RequestStates
    <3>4. CASE \A n \in Nodes : rs2.replies[n] # NoReply
      <4>1. Decide(key, rs2)
        BY <3>1, <3>4 DEF RecordReply
      <4>2. checkReplies' \subseteq checkReplies /\ UNCHANGED <<clock, checks>>
        BY <2>1
      <4> QED  BY <3>1, <3>3, <4>1, <4>2, DecideClockInv, Zenon
    <3>5. CASE ~\A n \in Nodes : rs2.replies[n] # NoReply
      <4>1. /\ activeRequests' = [activeRequests EXCEPT ![key] = rs2]
            /\ UNCHANGED <<auditRows, retryList>>
        BY <3>1, <3>5 DEF RecordReply
      <4>2. Consumed' = Consumed
        BY <4>1, <3>3, SameSlots
      <4> QED  BY <2>1, <4>1, <4>2 DEF ClockInv, KeysBelowClock
    <3> QED  BY <3>4, <3>5
  <2> QED  BY <2>2, <2>3
<1>7. CASE StateCleaner
  <2>1. PICK key \in DOMAIN activeRequests :
           LET rs == activeRequests[key] IN
           /\ Decide(key, [rs EXCEPT !.replies =
                              [n \in Nodes |-> IF rs.replies[n] = NoReply
                                               THEN ErrorReply ELSE rs.replies[n]]])
           /\ UNCHANGED <<clock, checks, checkReplies>>
    BY <1>7 DEF StateCleaner
  <2>2. activeRequests[key] \in RequestStates
    BY <1>0
  <2> QED  BY <2>1, <2>2, DecideClockInv DEF RequestStates
<1>8. CASE UNCHANGED vars
  <2>1. Consumed' = Consumed
    BY <1>8, SameSlots DEF vars
  <2> QED  BY <1>8, <2>1 DEF vars, ClockInv, KeysBelowClock
<1> QED  BY <1>1, <1>2, <1>3, <1>4, <1>5, <1>6, <1>7, <1>8 DEF Next
(* The clock bound and the key ranges of TypeOK follow from the two         *)
(* invariants: the clock counts at most the used slots, of which there are *)
(* MaxAudits * (MaxRetryCount + 1).                                         *)
LEMMA TypeFromInvariants == IInv /\ ClockInv => TypeOK
<1> SUFFICES ASSUME IInv, ClockInv PROVE TypeOK
  OBVIOUS
<1>1. Cardinality(Consumed) \in Nat /\ Cardinality(Consumed) <= MaxTimestamp
  <2>1. Consumed \in SUBSET Slots
    BY DEF Consumed
  <2>2. Cardinality(Consumed) <= Cardinality(Slots)
    BY <2>1, SlotsMonotone
  <2> QED  BY <2>1, <2>2, SlotsFinite, FS_Subset, FS_CardinalityType
<1>2. /\ clock \in Nat
      /\ DOMAIN activeRequests \subseteq Collections \X (1..clock)
      /\ checks \subseteq [node : Nodes, key : Collections \X Nat]
      /\ checkReplies \subseteq [node : Nodes, key : Collections \X Nat,
                                 result : ReplyValues \ {NoReply}]
  BY DEF IInv, TypeInv
<1>3. MaxTimestamp \in Nat /\ clock \in 0..MaxTimestamp
  <2>1. MaxTimestamp \in Nat
    BY ConstantsAssumption DEF MaxTimestamp
  <2>2. clock <= Cardinality(Consumed)
    BY DEF ClockInv
  <2> QED  BY <1>1, <1>2, <2>1, <2>2
<1>4. DOMAIN activeRequests \subseteq StateKeys
  BY <1>2, <1>3 DEF StateKeys, Timestamps
<1>5. checks \subseteq [node : Nodes, key : StateKeys]
  BY <1>2, <1>3 DEF ClockInv, KeysBelowClock, StateKeys, Timestamps
<1>6. checkReplies \subseteq [node : Nodes, key : StateKeys,
                              result : ReplyValues \ {NoReply}]
  BY <1>2, <1>3 DEF ClockInv, KeysBelowClock, StateKeys, Timestamps
<1> QED  BY <1>3, <1>4, <1>5, <1>6 DEF TypeOK, IInv, TypeInv, RetryEntries, AuditRowType

(* Every state the auditor reaches satisfies both invariants: the request *)
(* bookkeeping of IInv and the slot count that bounds the clock.           *)
THEOREM ClockInvariant == Spec => [](IInv /\ ClockInv)
<1>1. Init => IInv /\ ClockInv
  BY InitIInv, InitClockInv
<1>2. IInv /\ ClockInv /\ [Next]_vars => (IInv /\ ClockInv)'
  BY NextIInv, NextClockInv
<1> QED  BY <1>1, <1>2, PTL DEF Spec

(* For every number of audits and every max_retry_count, the timestamp     *)
(* _start_consistency_check gives each attempt never exceeds                *)
(* MaxAudits * (MaxRetryCount + 1), every state key, request and reply     *)
(* carries such a timestamp, and the auditor's state keeps its types.      *)
THEOREM TypeCorrect == Spec => []TypeOK
BY ClockInvariant, TypeFromInvariants, PTL
=====
