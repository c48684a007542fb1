---------------------------- MODULE MCBlockCache ----------------------------
\* Small instances of BlockCache: processes and blocks are interchangeable.
EXTENDS BlockCache, TLC

Symmetry == Permutations(Procs) \cup Permutations(Blocks)
=============================================================================
