-------------------------- MODULE MCAccountOrders --------------------------
(* Two overlapping calls of up to two orders, two miliseconds to a second.  *)
EXTENDS AccountOrders, TLC

CONSTANTS c1, c2

MCCallers == {c1, c2}
CallerSymmetry == Permutations(MCCallers)
==============================================================================
