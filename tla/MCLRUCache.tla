----------------------------- MODULE MCLRUCache -----------------------------
(* Two callers and three keys over a map of two entries.                    *)
EXTENDS LRUCache, TLC

CONSTANTS c1, c2, k1, k2, k3

MCCallers == {c1, c2}
MCKeys == {k1, k2, k3}
MCCaches == 1..4
MCSymmetry == Permutations(MCCallers) \cup Permutations(MCKeys)
==============================================================================
