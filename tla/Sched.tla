------------------------------- MODULE Sched -------------------------------
(***************************************************************************)
(* The scheduler of src/src/kernel/sched.c: one run queue rq under one     *)
(* spinlock rqlock, shared by all CPUs.  The queue holds the RUNNABLE and  *)
(* the RUNNING processes; the idle thread of CPU c, named c here, is never *)
(* in it.  A critical section of rqlock that has no context switch inside  *)
(* is one step; sched() is three (choose, swtch, unlock), because the lock *)
(* is taken on the stack of one thread and released on the stack of        *)
(* another.                                                                *)
(***************************************************************************)
EXTENDS Integers, Sequences, FiniteSets, ListOps

CONSTANTS Cpus,      \* the CPUs; c is also the name of CPU c's idle thread
          Procs,     \* the process slots; a reaped slot is used again
          UserProcs, \* the processes whose saved ELR is a user address
          None       \* nobody

ASSUME CpusAssumption  == IsFiniteSet(Cpus) /\ Cpus # {} /\ None \notin Cpus
ASSUME ProcsAssumption ==
    /\ IsFiniteSet(Procs)
    /\ Procs \cap Cpus = {}
    /\ None \notin Procs
    /\ UserProcs \subseteq Procs

VARIABLES
    rqlock,    \* the CPU that holds rqlock, or None
    rq,        \* the run queue, from the list head's next to its prev
    state,     \* Proc.state of every thread
    killed,    \* Proc.killed of every thread
    wait_time, \* Proc.wait_time of every thread
    thisproc,  \* cpus[c].sched.thisproc
    stack,     \* the thread whose kernel stack CPU c executes on
    pc,        \* what the code on CPU c does next
    new_state, \* the argument of the sched() CPU c is about to run, or None
    target     \* the process an activate, kill or wait on CPU c is about, or None

vars == <<rqlock, rq, state, killed, wait_time, thisproc, stack, pc,
          new_state, target>>

Threads == Procs \cup Cpus

procstate == {"UNUSED", "RUNNABLE", "RUNNING", "SLEEPING", "DEEPSLEEPING", "ZOMBIE"}

PCs == {"kern", "sched", "swtch", "unlock", "activate", "alert", "is_unused",
        "set_killed", "reap"}

init_sched ==
    /\ rqlock = None
    /\ rq = <<>>
    /\ state = [t \in Threads |-> IF t \in Cpus THEN "RUNNING" ELSE "UNUSED"]
    /\ killed = [t \in Threads |-> FALSE]
    /\ wait_time = [t \in Threads |-> 0]
    /\ thisproc = [c \in Cpus |-> c]
    /\ stack = [c \in Cpus |-> c]
    /\ pc = [c \in Cpus |-> "kern"]
    /\ new_state = [c \in Cpus |-> None]
    /\ target = [c \in Cpus |-> None]

-----------------------------------------------------------------------------
(* The parts of sched(), each as a function of the state it starts from.    *)

Queued == {"RUNNABLE", "RUNNING"}

\* A mutant of QueueAfter: a thread that yields is not queued again.
QueueAfterLost(c, ns) == _detach_from_list(rq, thisproc[c])

\* update_this_state: what the queue is after CPU c's thread becomes ns.
QueueAfter(c, ns) ==
    LET p == thisproc[c]
        q == IF p # c /\ state[p] \in Queued THEN _detach_from_list(rq, p) ELSE rq
    IN  IF p # c /\ ns \in Queued THEN _insert_into_list(q, p) ELSE q

\* A mutant of WaitAfter: the thread keeps the time it had waited before.
WaitAfterKept(c, ns) == wait_time

\* update_this_state: the thread starts its next wait from zero.
WaitAfter(c, ns) ==
    IF thisproc[c] # c /\ ns \in Queued
    THEN [wait_time EXCEPT ![thisproc[c]] = 0] ELSE wait_time

Ready(q, st) == {i \in 1..Len(q) : st[q[i]] = "RUNNABLE"}

\* pick_next: every RUNNABLE process of the queue has waited once more.
Aged(q, st, wt) ==
    [t \in Threads |->
        IF \E i \in Ready(q, st) : q[i] = t THEN wt[t] + 1 ELSE wt[t]]

\* A mutant of pick_next: the CPU goes idle rather than take the only process.
PickNextIdle(c, q, st, wt) ==
    IF Cardinality(Ready(q, st)) < 2 THEN c
    ELSE q[CHOOSE i \in Ready(q, st) : \A j \in Ready(q, st) : i <= j]

\* pick_next: the first of those that waited longest, else the idle thread.
pick_next(c, q, st, wt) ==
    IF Ready(q, st) = {} THEN c
    ELSE q[CHOOSE i \in Ready(q, st) : \A j \in Ready(q, st) :
               \/ wt[q[j]] < wt[q[i]]
               \/ wt[q[j]] = wt[q[i]] /\ i <= j]

\* A mutant of StaysOnCpu: sched() ignores the killed flag.
StaysOnCpuNever(c) == FALSE

\* The killed flag stops every switch but the last one.
StaysOnCpu(c) == killed[thisproc[c]] /\ new_state[c] # "ZOMBIE"

-----------------------------------------------------------------------------
(* sched(new_state), called by the thread that CPU c executes.             *)

\* sched() returns at once in a killed thread; it still releases the lock.
SchedKilled(c) ==
    /\ pc[c] = "sched"
    /\ rqlock = None
    /\ StaysOnCpu(c)
    /\ pc' = [pc EXCEPT ![c] = "kern"]
    /\ new_state' = [new_state EXCEPT ![c] = None]
    /\ UNCHANGED <<rqlock, rq, state, killed, wait_time, thisproc, stack, target>>

\* update_this_state, pick_next, update_this_proc and the new thread's state.
Dispatch(c) ==
    /\ pc[c] = "sched"
    /\ ~StaysOnCpu(c)
    /\ LET this == thisproc[c]
           ns   == new_state[c]
           q    == QueueAfter(c, ns)
           st   == [state EXCEPT ![this] = ns]
           wt   == Aged(q, st, WaitAfter(c, ns))
           next == pick_next(c, q, st, wt)
       IN  /\ st[next] = "RUNNABLE"      \* ASSERT(next->state == RUNNABLE)
           /\ rq' = q
           /\ wait_time' = wt
           /\ state' = [st EXCEPT ![next] = "RUNNING"]
           /\ thisproc' = [thisproc EXCEPT ![c] = next]
           /\ pc' = [pc EXCEPT ![c] = IF next # this THEN "swtch" ELSE "unlock"]
    /\ new_state' = [new_state EXCEPT ![c] = None]
    /\ UNCHANGED <<killed, stack, target>>

\* A mutant of SchedChoose: the lock is released before swtch.
SchedChooseUnlocked(c) == rqlock = None /\ Dispatch(c) /\ UNCHANGED rqlock

\* sched() up to swtch: the lock stays held.
SchedChoose(c) == rqlock = None /\ Dispatch(c) /\ rqlock' = c

\* swtch saves the registers on the old stack and continues on the new one.
swtch(c) ==
    /\ pc[c] = "swtch"
    /\ stack' = [stack EXCEPT ![c] = thisproc[c]]
    /\ pc' = [pc EXCEPT ![c] = "unlock"]
    /\ UNCHANGED <<rqlock, rq, state, killed, wait_time, thisproc, new_state, target>>

\* The thread that swtch resumed releases the lock, at the end of sched() or,
\* when it runs for the first time, in proc_entry().
release_sched_lock(c) ==
    /\ pc[c] = "unlock"
    /\ rqlock' = None
    /\ pc' = [pc EXCEPT ![c] = "kern"]
    /\ UNCHANGED <<rq, state, killed, wait_time, thisproc, stack, new_state, target>>

-----------------------------------------------------------------------------
(* The calls of the thread that CPU c executes.                            *)

CallSched(c, ns) ==
    /\ pc[c] = "kern"
    /\ pc' = [pc EXCEPT ![c] = "sched"]
    /\ new_state' = [new_state EXCEPT ![c] = ns]
    /\ UNCHANGED <<rqlock, rq, state, killed, wait_time, thisproc, stack, target>>

\* yield(), the idle loop and the timer interrupt of the CPU.
yield(c) == CallSched(c, "RUNNABLE")

\* _wait_sem puts the caller to sleep.
Sleep(c) ==
    /\ stack[c] \in Procs
    /\ \E ns \in {"SLEEPING", "DEEPSLEEPING"} : CallSched(c, ns)

\* exit() makes the caller a zombie.
exit(c) == stack[c] \in Procs /\ CallSched(c, "ZOMBIE")

CallOn(c, p, step) ==
    /\ pc[c] = "kern"
    /\ pc' = [pc EXCEPT ![c] = step]
    /\ target' = [target EXCEPT ![c] = p]
    /\ UNCHANGED <<rqlock, rq, state, killed, wait_time, thisproc, stack, new_state>>

\* activate_proc(p): start_proc, or _post_sem for a waiter.
activate_proc(c, p) == CallOn(c, p, "activate")

\* Mutants of Activatable: a process that is already queued is queued again; a
\* running process is made RUNNABLE.
ActivatableQueued(step)  == {"SLEEPING", "UNUSED", "RUNNABLE"}
ActivatableRunning(step) == {"SLEEPING", "UNUSED", "RUNNING"}

\* An alert does not wake a DEEPSLEEPING process, a post does.
Activatable(step) ==
    {"SLEEPING", "UNUSED"} \cup (IF step = "activate" THEN {"DEEPSLEEPING"} ELSE {})

\* _activate_proc under the lock.
_activate_proc(c) ==
    LET p == target[c]
    IN  /\ pc[c] \in {"activate", "alert"}
        /\ rqlock = None
        /\ IF state[p] \in Activatable(pc[c])
           THEN /\ state' = [state EXCEPT ![p] = "RUNNABLE"]
                /\ wait_time' = [wait_time EXCEPT ![p] = 0]
                /\ rq' = _insert_into_list(rq, p)
           ELSE UNCHANGED <<state, wait_time, rq>>
        /\ pc' = [pc EXCEPT ![c] = "kern"]
        /\ target' = [target EXCEPT ![c] = None]
        /\ UNCHANGED <<rqlock, killed, thisproc, stack, new_state>>

\* kill(): dfs_kill found p and asks is_unused(p).
kill(c, p) == CallOn(c, p, "is_unused")

is_unused(c) ==
    /\ pc[c] = "is_unused"
    /\ rqlock = None
    /\ IF state[target[c]] = "UNUSED"
       THEN /\ pc' = [pc EXCEPT ![c] = "kern"]
            /\ target' = [target EXCEPT ![c] = None]
       ELSE /\ pc' = [pc EXCEPT ![c] = "set_killed"]
            /\ UNCHANGED target
    /\ UNCHANGED <<rqlock, rq, state, killed, wait_time, thisproc, stack, new_state>>

\* dfs_kill marks p, and kill() alerts it when it is a user process.
SetKilled(c) ==
    LET p == target[c]
    IN  /\ pc[c] = "set_killed"
        /\ killed' = [killed EXCEPT ![p] = TRUE]
        /\ IF p \in UserProcs
           THEN /\ pc' = [pc EXCEPT ![c] = "alert"]
                /\ UNCHANGED target
           ELSE /\ pc' = [pc EXCEPT ![c] = "kern"]
                /\ target' = [target EXCEPT ![c] = None]
        /\ UNCHANGED <<rqlock, rq, state, wait_time, thisproc, stack, new_state>>

\* wait() read ZOMBIE in a child, without rqlock.  A child has one parent, so
\* no other CPU is collecting it.
FoundZombie(c, p) ==
    /\ stack[c] \in Procs
    /\ state[p] = "ZOMBIE"
    /\ \A d \in Cpus : ~(pc[d] = "reap" /\ target[d] = p)
    /\ CallOn(c, p, "reap")

\* wait() takes the child off the queue, then frees its stack and its Proc; the
\* slot is then a fresh process of init_proc.
FreeChild(c) ==
    LET p == target[c]
    IN  /\ pc[c] = "reap"
        /\ rq' = _detach_from_list(rq, p)
        /\ state' = [state EXCEPT ![p] = "UNUSED"]
        /\ killed' = [killed EXCEPT ![p] = FALSE]
        /\ pc' = [pc EXCEPT ![c] = "kern"]
        /\ target' = [target EXCEPT ![c] = None]
        /\ UNCHANGED <<rqlock, wait_time, thisproc, stack, new_state>>

\* A mutant of Reap: wait() does not take rqlock before it frees the stack.
ReapUnlocked(c) == FreeChild(c)

\* wait() takes and releases rqlock before it frees anything.
Reap(c) == rqlock = None /\ FreeChild(c)

-----------------------------------------------------------------------------
\* A step that takes rqlock; somebody spinning on it gets it when it is free.
LockStep(c) ==
    \/ SchedKilled(c) \/ SchedChoose(c)
    \/ _activate_proc(c) \/ is_unused(c) \/ Reap(c)

Call(c) ==
    \/ yield(c) \/ Sleep(c) \/ exit(c)
    \/ \E p \in Procs : activate_proc(c, p) \/ kill(c, p) \/ FoundZombie(c, p)

Next == \E c \in Cpus : \/ Call(c) \/ LockStep(c) \/ SetKilled(c)
                        \/ swtch(c) \/ release_sched_lock(c)

Spec == init_sched /\ [][Next]_vars

\* A killed user process exits on its way back to user mode (trap.c).
ExitKilled(c) == stack[c] \in UserProcs /\ killed[stack[c]] /\ exit(c)

Fairness ==
    /\ \A c \in Cpus : /\ WF_vars(swtch(c))
                       /\ WF_vars(release_sched_lock(c))
                       /\ WF_vars(SetKilled(c))
                       /\ SF_vars(yield(c))
                       /\ SF_vars(ExitKilled(c))
    /\ WF_vars(\E c \in Cpus : LockStep(c))

FairSpec == Spec /\ Fairness

-----------------------------------------------------------------------------
(* Properties.                                                             *)

TypeOK ==
    /\ rqlock \in Cpus \cup {None}
    /\ rq \in Seq(Procs)
    /\ state \in [Threads -> procstate]
    /\ killed \in [Threads -> BOOLEAN]
    /\ wait_time \in [Threads -> Nat]
    /\ thisproc \in [Cpus -> Threads]
    /\ stack \in [Cpus -> Threads]
    /\ pc \in [Cpus -> PCs]
    /\ new_state \in [Cpus -> procstate \cup {None}]
    /\ target \in [Cpus -> Procs \cup {None}]

\* No two CPUs execute on the same kernel stack, although sched() makes the
\* old thread RUNNABLE before swtch has left its stack.
OneCpuPerStack == \A c, d \in Cpus : stack[c] = stack[d] => c = d

\* sched()'s two assertions: the caller is RUNNING, and the thread it takes is
\* RUNNABLE; the second needs that an idle thread that is not current is.
SchedAsserts ==
    \A c \in Cpus : /\ state[thisproc[c]] = "RUNNING"
                    /\ thisproc[c] # c => state[c] = "RUNNABLE"

\* The queue holds every RUNNABLE or RUNNING process exactly once and nothing
\* else: no insertion of _activate_proc or sched() is lost or done twice.
RqExact ==
    /\ NoDup(rq)
    /\ Elems(rq) = {p \in Procs : state[p] \in Queued}

\* wait() never frees the kernel stack a CPU still executes on: an exiting
\* process is ZOMBIE before it has left its stack.
KstackLive == \A c \in Cpus : state[stack[c]] # "UNUSED"

\* A kill is never lost: a killed user process is not left SLEEPING, unless
\* the alert of some kill() is still on its way to it.
KilledNotAsleep ==
    \A p \in UserProcs :
        killed[p] /\ state[p] = "SLEEPING" =>
            \E c \in Cpus : pc[c] = "alert" /\ target[c] = p

\* pick_next passes a RUNNABLE process over at most once for every other
\* process slot.
BoundedBypass ==
    \A p \in Procs : state[p] = "RUNNABLE" => wait_time[p] < Cardinality(Procs)

\* No RUNNABLE process waits for ever.
StarvationFree ==
    \A p \in Procs : state[p] = "RUNNABLE" ~> state[p] = "RUNNING"

\* The scheduler implements the abstract one: a context switch looks atomic
\* and no CPU idles while a process is RUNNABLE.
Abs == INSTANCE AbstractSched
ImplementsAbstractSched == Abs!Spec
=============================================================================
