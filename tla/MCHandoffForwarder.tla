------------------------- MODULE MCHandoffForwarder -------------------------
(* A handed-off segment of up to two sequences on B, whose reader may      *)
(* handle a request twice and fail a read once, and a writer on A that may *)
(* fail once: enough for every reply the coroutine's first yield could get. *)
EXTENDS HandoffForwarder, TLC

CONSTANT p1

MCMaxSequences == 2
=============================================================================
