------------------------------ MODULE ListOps ------------------------------
(***************************************************************************)
(* The circular lists of src/src/common/list.c as sequences of the nodes,  *)
(* from the node after the list head to the node before it.                *)
(***************************************************************************)
EXTENDS Integers, Sequences

Elems(q) == {q[i] : i \in 1..Len(q)}
NoDup(q) == \A i, j \in 1..Len(q) : q[i] = q[j] => i = j

\* _insert_into_list(list, node) puts the node right after the head.
_insert_into_list(q, p) == <<p>> \o q

\* _detach_from_list(node): a node that is in no list stays in no list.
_detach_from_list(q, p) ==
    LET at == {i \in 1..Len(q) : q[i] = p}
    IN  IF at = {} THEN q
        ELSE LET i == CHOOSE k \in at : \A j \in at : k <= j
             IN  [j \in 1..(Len(q) - 1) |-> IF j < i THEN q[j] ELSE q[j + 1]]

\* list.prev, the node inserted first.
Oldest(q) == q[Len(q)]
=============================================================================
