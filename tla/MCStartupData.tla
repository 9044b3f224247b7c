---------------------------- MODULE MCStartupData ----------------------------
EXTENDS StartupData, TLC

Symmetry == Permutations(Snapshots) \union Permutations(Isolates) \union Permutations(Blobs)
=============================================================================
