------------------------- MODULE MC_ResourceLocker -------------------------
(* Small instances of ResourceLocker for TLC: two instances, a timeout of *)
(* two ticks, one store error and one crash.                             *)
EXTENDS ResourceLocker, TLC

CONSTANTS w1, w2

MCWorkers == {w1, w2}

MCSymmetry == Permutations(MCWorkers)
=============================================================================
