------------------------- MODULE MC_HistoryLimiter -------------------------
(* Model-checking instances of HistoryLimiter: three runs of one group,   *)
(* two workers.                                                           *)
EXTENDS HistoryLimiter, TLC

CONSTANTS r1, r2, r3, w1, w2

MCRuns == {r1, r2, r3}
MCWorkers == {w1, w2}

\* Creation timestamps one second apart.
MCCreatedDistinct == [r \in MCRuns |-> IF r = r1 THEN 1 ELSE IF r = r2 THEN 2 ELSE 3]

\* r1 and r2 created in the same second (timestamps have 1 s resolution).
MCCreatedTied == [r \in MCRuns |-> IF r = r3 THEN 2 ELSE 1]

\* Workers are interchangeable.
MCSymmetry == Permutations(MCWorkers)
=============================================================================
