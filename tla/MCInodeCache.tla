---------------------------- MODULE MCInodeCache ----------------------------
EXTENDS InodeCache, TLC

Symmetry == Permutations(FuseThreads) \cup Permutations(Addr)
=============================================================================
