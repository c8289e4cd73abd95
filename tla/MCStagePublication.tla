------------------------- MODULE MCStagePublication -------------------------
EXTENDS StagePublication, TLC
Symmetry == Permutations(Publishers)
=============================================================================
