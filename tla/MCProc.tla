------------------------------- MODULE MCProc -------------------------------
\* Small instances of Proc: the structures other than root_proc's are
\* interchangeable.
EXTENDS Proc, TLC

Symmetry == Permutations(Procs \ {Root})
=============================================================================
