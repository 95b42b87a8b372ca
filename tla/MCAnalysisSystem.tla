-------------------------- MODULE MCAnalysisSystem ---------------------------
EXTENDS AnalysisSystem, TLC

CONSTANTS r1, r2, r3, a1, p1

Symmetry == Permutations(Runs)
=============================================================================
