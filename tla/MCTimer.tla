------------------------------ MODULE MCTimer ------------------------------
\* A small instance of CpuTimer: eleven nodes, two of them with the same key.
EXTENDS CpuTimer

MCTestKey == [x \in Nodes |-> IF x = 11 THEN 4 ELSE x]
=============================================================================
