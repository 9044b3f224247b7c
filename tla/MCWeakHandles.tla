--------------------------- MODULE MCWeakHandles ---------------------------
\* Model values for WeakHandles: wrappers, and values, are interchangeable.
EXTENDS WeakHandles, TLC
Symmetry == Permutations(Wrappers) \union Permutations(Things)
=============================================================================
