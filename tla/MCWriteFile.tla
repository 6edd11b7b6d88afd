----------------------------- MODULE MCWriteFile -----------------------------
EXTENDS WriteFile, TLC

MCSize == [w \in Writer |-> 2]
Symmetry == Permutations(Writer)
==============================================================================
