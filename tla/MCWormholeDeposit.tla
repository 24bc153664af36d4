------------------------- MODULE MCWormholeDeposit -------------------------
(* Two callers of one session, and guardians with two signature sets.       *)
EXTENDS WormholeDeposit, TLC

CONSTANTS c1, c2, vaa1, vaa2

MCCallers == {c1, c2}
MCSignedVAAs == {vaa1, vaa2}
==============================================================================
