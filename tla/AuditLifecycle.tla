--------------------------- MODULE AuditLifecycle ---------------------------
(***************************************************************************)
(* What the anti-entropy auditor promises about the rows of the audit     *)
(* result database, without requests, replies, timeouts or the retry      *)
(* list.  An audit opens a row in-progress.  An in-progress row is settled *)
(* successful, error or wait-for-retry; successful only for a collection  *)
(* whose nodes agree.  A row waiting for retry goes back in-progress.      *)
(* Nothing else ever changes a row: a settled row stays settled until its  *)
(* retry, and successful and error rows never change again.               *)
(*                                                                         *)
(* AntiEntropy implements this specification under the mapping that       *)
(* keeps the audit rows and takes for agreed the collections whose nodes' *)
(* digests are equal (AntiEntropy!ImplementsAuditLifecycle).               *)
(***************************************************************************)
EXTENDS Naturals, Sequences

CONSTANTS
    Collections,    \* collection ids of the cluster
    MaxAudits       \* audit rows opened in a run

VARIABLES
    auditRows,      \* one row per audit: its collection and state
    agreed          \* collections on which every node's index agrees

vars == <<auditRows, agreed>>

Settled == {"successful", "error", "wait-for-retry"}

Init ==
    /\ auditRows = << >>
    /\ agreed \subseteq Collections

(* An audit of collection c starts: a new row, in-progress. *)
Open(c) ==
    /\ Len(auditRows) < MaxAudits
    /\ auditRows' = Append(auditRows, [collection |-> c, state |-> "in-progress"])
    /\ UNCHANGED agreed

(* The verdict on an in-progress row; success needs agreement. *)
Settle(i, st) ==
    /\ auditRows[i].state = "in-progress"
    /\ st = "successful" => auditRows[i].collection \in agreed
    /\ auditRows' = [auditRows EXCEPT ![i].state = st]
    /\ UNCHANGED agreed

(* A row waiting for retry is audited again. *)
Retry(i) ==
    /\ auditRows[i].state = "wait-for-retry"
    /\ auditRows' = [auditRows EXCEPT ![i].state = "in-progress"]
    /\ UNCHANGED agreed

Next ==
    \/ \E c \in Collections : Open(c)
    \/ \E i \in 1..Len(auditRows) :
          \/ \E st \in Settled : Settle(i, st)
          \/ Retry(i)

Spec == Init /\ [][Next]_vars

=============================================================================
