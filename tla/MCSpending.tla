---- MODULE MCSpending ----
EXTENDS Spending, TLC

CONSTANTS r1, r2

MCRuns == {r1, r2}
Symmetry == Permutations(MCRuns)
====
