--------------------------- MODULE MCCallbackReturn ---------------------------
EXTENDS CallbackReturn, TLC

Symmetry == Permutations(Objects)
=============================================================================
