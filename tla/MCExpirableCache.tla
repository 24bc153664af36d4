-------------------------- MODULE MCExpirableCache --------------------------
(* Three overlapping get() calls on one cache.                              *)
EXTENDS ExpirableCache, TLC

CONSTANTS c1, c2, c3, cache

MCCallers == {c1, c2, c3}
MCCaches == {cache}
CallerSymmetry == Permutations(MCCallers)
==============================================================================
