------------------------- MODULE MCResilientClient -------------------------
(* Model-checking instance of ResilientClient: three queued messages, so   *)
(* that one can be pending while two wait and a requeued head overtakes    *)
(* nothing; one loss and one spurious timeout, so that a lost handshake,   *)
(* a lost request or ack, and a late ack racing a timeout all happen.      *)
EXTENDS ResilientClient

MCMaxMessages == 3
MCMaxLoss == 1
MCMaxSpurious == 1
=============================================================================
