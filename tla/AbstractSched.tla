--------------------------- MODULE AbstractSched ---------------------------
(***************************************************************************)
(* What the kernel's scheduler promises, without a run queue, a lock or a  *)
(* context switch.  Every CPU has one current thread.  A context switch    *)
(* gives the current thread its new state and makes a RUNNABLE thread      *)
(* current, in one step, and it is work conserving: a CPU takes its idle   *)
(* thread only when no process is RUNNABLE.  The idle thread of CPU c is   *)
(* named c.                                                                *)
(***************************************************************************)
CONSTANTS Cpus, Procs

VARIABLES thisproc,  \* thisproc[c]: the thread that CPU c executes
          state      \* state[t]: the scheduling state of thread t

vars == <<thisproc, state>>

Threads == Procs \cup Cpus

Asleep == {"SLEEPING", "DEEPSLEEPING"}

Init ==
    /\ thisproc = [c \in Cpus |-> c]
    /\ state = [t \in Threads |-> IF t \in Cpus THEN "RUNNING" ELSE "UNUSED"]

\* The idle thread never blocks and never ends.
MayBecome(c, ns) ==
    \/ ns = "RUNNABLE"
    \/ thisproc[c] \notin Cpus /\ ns \in Asleep \cup {"ZOMBIE"}

\* The threads CPU c may take once the states are st.
Choices(c, st) ==
    LET ready == {p \in Procs : st[p] = "RUNNABLE"}
    IN  IF ready = {} THEN {c} ELSE ready

Switch(c, ns) ==
    /\ MayBecome(c, ns)
    /\ LET st == [state EXCEPT ![thisproc[c]] = ns]
       IN  \E next \in Choices(c, st) :
              /\ st[next] = "RUNNABLE"
              /\ state' = [st EXCEPT ![next] = "RUNNING"]
              /\ thisproc' = [thisproc EXCEPT ![c] = next]

\* A new process is started, or a sleeping one is woken.
Wake(p) ==
    /\ state[p] \in Asleep \cup {"UNUSED"}
    /\ state' = [state EXCEPT ![p] = "RUNNABLE"]
    /\ UNCHANGED thisproc

\* The parent collects a dead child, whose slot can then be used again.
Reap(p) ==
    /\ state[p] = "ZOMBIE"
    /\ state' = [state EXCEPT ![p] = "UNUSED"]
    /\ UNCHANGED thisproc

Next ==
    \/ \E c \in Cpus, ns \in Asleep \cup {"RUNNABLE", "ZOMBIE"} : Switch(c, ns)
    \/ \E p \in Procs : Wake(p) \/ Reap(p)

Spec == Init /\ [][Next]_vars
=============================================================================
