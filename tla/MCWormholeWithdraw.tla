------------------------- MODULE MCWormholeWithdraw -------------------------
(* Two callers of one session, to any chain with any signer.                *)
EXTENDS WormholeWithdraw

CONSTANTS c1, c2

MCCallers == {c1, c2}
==============================================================================
