--------------------------- MODULE MCBridgeQueue ---------------------------
(* BridgeQueue for TLC: no bound, a queue that holds nothing, one of two.  *)
EXTENDS BridgeQueue

Bounds == {-1, 0, 2}

=============================================================================
