--------------------------- MODULE MCAntiEntropy ---------------------------
(* Two nodes, one collection of one key: the key can be active on one     *)
(* node, a tombstone or missing on the other, so digests agree, disagree  *)
(* or agree only because tombstones are not hashed.  Two audits with one  *)
(* retry each reach a retry after a mismatch and an explicit audit running *)
(* beside a scheduled one; one duplicate delivery exercises the duplicate- *)
(* and unknown-key paths of the reply handler.                             *)
EXTENDS AntiEntropy, TLC

CONSTANTS n1, n2, c1, k1

MCNodes == {n1, n2}
MCCollections == {c1}
MCKeys == {k1}
MCMaxRetryCount == 1
MCMaxAudits == 2
MCMaxDuplicates == 1

(* The audit run follows one audit row through its attempts and retries, *)
(* with liveness, so nodes are not a symmetry set; the violation runs use *)
(* two audits.                                                             *)
MCLiveMaxAudits == 1
=============================================================================
