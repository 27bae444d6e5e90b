--------------------------- MODULE MCGraphicBuffer ---------------------------
EXTENDS GraphicBuffer, TLC

\* Neither the objects nor the addresses are told apart.
Symmetry == Permutations(Objects) \cup Permutations(Handles)
=============================================================================
