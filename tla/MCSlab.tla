------------------------------- MODULE MCSlab -------------------------------
\* Small instances of Slab: CPUs and pages are interchangeable.
EXTENDS Slab, TLC

\* Sizes whose blocks fill a page of 56 bytes to its end, like 8 and 56 of 4096.
MCsize == <<16, 24>>
Symmetry == Permutations(Cpus) \cup Permutations(Pages)
=============================================================================
