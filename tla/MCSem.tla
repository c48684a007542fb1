------------------------------- MODULE MCSem -------------------------------
\* Small instances of Sem: the processes are interchangeable.
EXTENDS Sem, TLC

Symmetry == Permutations(Procs)
=============================================================================
