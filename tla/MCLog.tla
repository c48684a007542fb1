------------------------------- MODULE MCLog -------------------------------
\* Small instances of Log: processes and blocks are interchangeable.
EXTENDS Log, TLC

Symmetry == Permutations(Ops) \cup Permutations(Blocks)
=============================================================================
