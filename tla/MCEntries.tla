----------------------------- MODULE MCEntries -----------------------------
\* Model values for Entries: values and externals are interchangeable.
EXTENDS Entries, TLC
CONSTANTS v1, v2, e1, e2
Symmetry == Permutations({v1, v2}) \union Permutations({e1, e2})
=============================================================================
