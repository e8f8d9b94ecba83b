--------------------------- MODULE MCEmailOutbox ---------------------------
EXTENDS EmailOutbox, TLC

RequestSymmetry == Permutations(Requests)
=============================================================================
