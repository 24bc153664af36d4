--------------------------- MODULE MCSolanaRedeem ---------------------------
(* Three signature transactions (a quorum of 13 signatures takes two).      *)
EXTENDS SolanaRedeem, TLC

CONSTANTS t1, t2, t3

MCSigTxs == {t1, t2, t3}
==============================================================================
