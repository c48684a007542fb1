------------------------------ MODULE MCSched ------------------------------
\* Small instances of Sched: process slots and CPUs are interchangeable.
EXTENDS Sched, TLC

Symmetry == Permutations(Procs) \cup Permutations(Cpus)
=============================================================================
