----------------------------- MODULE MCFileSys -----------------------------
(* Instances of FileSys: the paths and the buffers. *)
EXTENDS FileSys

Abs(e) == [abs |-> TRUE, elems |-> e]
Rel(e) == [abs |-> FALSE, elems |-> e]

\* One process and its files: a directory, a file in it, the parent.
TreePaths == {Abs(<<>>), Abs(<<"a">>), Abs(<<"a", "b">>), Rel(<<"b">>), Rel(<<"..">>)}
\* A write and a writev of two operations each.
TreeBuffers == {<<3>>, <<1, 2>>}

\* Two processes and their descriptors: a name and the cwd.
TablePaths == {Abs(<<"a">>), Rel(<<".">>)}
=============================================================================
