--------------------------- MODULE MCSharedMemory ---------------------------
EXTENDS SharedMemory, TLC

\* One object is like another, and only invariants are checked.
Symmetry == Permutations(Objects)
=============================================================================
