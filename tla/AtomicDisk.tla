----------------------------- MODULE AtomicDisk -----------------------------
(***************************************************************************)
(* What the block cache's atomic operations promise (src/src/fs/cache.h):  *)
(* a disk whose contents change all at once, from one state in which no    *)
(* operation is half done to another one.  Running operations write to     *)
(* memory; a commit makes memory durable when no operation is running; a   *)
(* crash brings memory back to what is durable.  The promise is void once  *)
(* a process is killed while it waits in begin_op or end_op: both go on as *)
(* if they had succeeded.                                                  *)
(***************************************************************************)
CONSTANTS Ops, Blocks, Vals, Zero

VARIABLES mem,     \* the contents the operations see
          durable, \* the contents a crash and a recovery leave
          running, \* the operations between begin_op and end_op
          faulty   \* a process was killed while it waited

vars == <<mem, durable, running, faulty>>

Init ==
    /\ mem = [b \in Blocks |-> Zero]
    /\ durable = mem
    /\ running = {}
    /\ faulty = FALSE

Begin(o) ==
    /\ o \notin running
    /\ running' = running \cup {o}
    /\ UNCHANGED <<mem, durable>>

Write(o, b, v) ==
    /\ o \in running
    /\ mem' = [mem EXCEPT ![b] = v]
    /\ UNCHANGED <<durable, running>>

End(o) ==
    /\ o \in running
    /\ running' = running \ {o}
    /\ UNCHANGED <<mem, durable>>

Commit ==
    /\ running = {}
    /\ durable' = mem
    /\ UNCHANGED <<mem, running>>

Crash ==
    /\ mem' = durable
    /\ running' = {}
    /\ UNCHANGED durable

Regular ==
    \/ \E o \in Ops : Begin(o) \/ End(o) \/ \E b \in Blocks, v \in Vals : Write(o, b, v)
    \/ Commit
    \/ Crash

Next == faulty' \/ (Regular /\ ~faulty)

Spec == Init /\ [][Next]_vars
=============================================================================
