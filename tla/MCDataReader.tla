---------------------------- MODULE MCDataReader ----------------------------
(* Two conjoined parts of up to three sequences each: enough for a start  *)
(* that completes at once, a next that completes, and a next in between.   *)
(* Two retrievals let an iterator left by the first meet the second.  One  *)
(* duplicate delivery and one failed read.                                 *)
EXTENDS DataReader

CONSTANTS p1, p2

MCParts == {p1, p2}
MCMaxSequences == 3
MCMaxRetrievals == 2
MCMaxDuplicates == 1
MCMaxFaults == 1

(* The in-order run delivers every request once. *)
MCNoDuplicates == 0
=============================================================================
