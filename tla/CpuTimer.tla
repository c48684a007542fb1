----------------------------- MODULE CpuTimer ------------------------------
(***************************************************************************)
(* The timers of one CPU (src/kernel/cpu.c, src/driver/clock.c): the tree  *)
(* of armed timers, the virtual timer that interrupts at the earliest      *)
(* deadline, and the kernel's two users, hello and the scheduler's         *)
(* preemption timer (src/kernel/sched.c).  Interrupts are off in every     *)
(* step.                                                                   *)
(*                                                                         *)
(* Deadlines and the clock are kept relative to now: a deadline of 0 or    *)
(* less has passed.  The workload is chosen at the start: the kernel's two *)
(* timers, or test/rbtree_test.c's nodes with keys of their own, inserted, *)
(* looked up and removed in any order.                                     *)
(***************************************************************************)
EXTENDS RbTree, FiniteSets, FiniteSetsExt

CONSTANTS
    HelloElapse, SchedElapse,  \* elapse of the two timers (5000, 15)
    IdleReset,                 \* reset_clock(10)
    MaxLag,                    \* bound: how late an interrupt may be taken
    TestKey                    \* the keys of the test's nodes

ASSUME TimerAssumption ==
    /\ {HelloElapse, SchedElapse, IdleReset} \subseteq Nat \ {0}
    /\ MaxLag \in Nat /\ MaxNode >= 2
    /\ \A x \in Nodes : TestKey[x] \in Int

hello == 1
sched_timer == 2
Timers == {hello, sched_timer}
Elapse == [t \in Timers |-> IF t = hello THEN HelloElapse ELSE SchedElapse]

VARIABLES
    use,        \* "timers" or "test": the workload
    tree,       \* cpus[cpuid()].timer, or the test's tree
    key,        \* _key of every node, relative to now
    triggered,  \* the timers' triggered flags
    clock,      \* time until the virtual timer interrupts, 0 once it is due
    loop,       \* this CPU is in the loop of timer_clock_handler
    members,    \* history: the nodes inserted and not removed since
    failed      \* an assertion failed

vars == <<use, tree, key, triggered, clock, loop, members, failed>>

\* __timer_cmp; the test's rb_cmp has no tie break.
Less(w, k) == {e \in Nodes \X Nodes :
                  \/ k[e[1]] < k[e[2]]
                  \/ w = "timers" /\ k[e[1]] = k[e[2]] /\ e[1] < e[2]}

\* __timer_set_clock for tree t and keys k.
TimerSetClock(t, k) ==
    IF First(t) = Null THEN IdleReset ELSE Max({0, k[First(t)]})

-----------------------------------------------------------------------------
(* set_cpu_timer and cancel_cpu_timer, on the record of the CPU's timers.   *)

Cpu == [tree |-> tree, key |-> key, trig |-> triggered, clock |-> clock, mem |-> members,
        bad |-> failed]

\* Mutant of SetCpuTimer: the clock is not set again.
SetCpuTimerQuiet(s, t) ==
    Do([s.key EXCEPT ![t] = Elapse[t]], LAMBDA k :
    Do(RbInsert(s.tree, Less("timers", k), t), LAMBDA u :
    [s EXCEPT !.tree = u, !.key = k, !.trig[t] = FALSE, !.mem = @ \cup {t},
              !.bad = @ \/ u.ret # 0]))

SetCpuTimer(s, t) ==
    Do([s.key EXCEPT ![t] = Elapse[t]], LAMBDA k :
    Do(RbInsert(s.tree, Less("timers", k), t), LAMBDA u :
    [s EXCEPT !.tree = u, !.key = k, !.trig[t] = FALSE, !.mem = @ \cup {t},
              !.clock = TimerSetClock(u, k), !.bad = @ \/ u.ret # 0]))

CancelCpuTimer(s, t) ==
    Do(RbErase(s.tree, t), LAMBDA u :
    [s EXCEPT !.tree = u, !.mem = @ \ {t}, !.clock = TimerSetClock(u, s.key),
              !.bad = @ \/ s.trig[t]])

\* The timer's part of update_this_state: the preemption timer starts again.  It
\* is cancelled unless triggered, and its handler has cleared triggered.
UpdateThisState(s) ==
    SetCpuTimer(IF s.trig[sched_timer] THEN s ELSE CancelCpuTimer(s, sched_timer), sched_timer)

Become(s) ==
    /\ tree' = s.tree /\ key' = s.key /\ triggered' = s.trig
    /\ clock' = s.clock /\ members' = s.mem /\ failed' = s.bad

-----------------------------------------------------------------------------
(* The kernel's timers. *)

\* The clock interrupt enters timer_clock_handler.
ClockInterrupt ==
    /\ use = "timers" /\ ~loop /\ clock = 0
    /\ loop' = TRUE
    /\ clock' = IdleReset
    /\ UNCHANGED <<use, tree, key, triggered, members, failed>>

Due == First(tree) # Null /\ key[First(tree)] <= 0

\* The timer has been taken out of the tree and is marked.
Expired(t) == [CancelCpuTimer(Cpu, t) EXCEPT !.trig[t] = TRUE]

FireHello ==
    /\ use = "timers" /\ loop /\ Due /\ First(tree) = hello
    /\ Become(SetCpuTimer(Expired(hello), hello))
    /\ UNCHANGED <<use, loop>>

\* sched_timer_handler: sched(RUNNABLE) updates the timer and switches, perhaps
\* to a process that goes on with the loop it was preempted in.
FireSched ==
    /\ use = "timers" /\ loop /\ Due /\ First(tree) = sched_timer
    /\ Become(UpdateThisState([Expired(sched_timer) EXCEPT !.trig[sched_timer] = FALSE]))
    /\ loop' \in BOOLEAN
    /\ UNCHANGED use

\* sched returns at once in a killed process: the timer stays out of the tree.
FireKilled ==
    /\ use = "timers" /\ loop /\ Due /\ First(tree) = sched_timer
    /\ Become([Expired(sched_timer) EXCEPT !.trig[sched_timer] = FALSE])
    /\ UNCHANGED <<use, loop>>

LoopEnd ==
    /\ loop /\ ~Due
    /\ loop' = FALSE
    /\ UNCHANGED <<use, tree, key, triggered, clock, members, failed>>

\* Any other call of sched: a process yields, sleeps or exits.
Sched ==
    /\ use = "timers" /\ ~loop
    /\ Become(UpdateThisState(Cpu))
    /\ loop' \in BOOLEAN
    /\ UNCHANGED use

Tick ==
    /\ use = "timers"
    /\ \A t \in members : key[t] > -MaxLag
    /\ key' = [x \in Nodes |-> IF key[x] > -MaxLag THEN key[x] - 1 ELSE key[x]]
    /\ clock' = Max({0, clock - 1})
    /\ UNCHANGED <<use, tree, triggered, loop, members, failed>>

-----------------------------------------------------------------------------
(* test/rbtree_test.c. *)

Insert(x) ==
    /\ use = "test" /\ x \notin members
    /\ tree' = RbInsert(tree, Less(use, key), x)
    /\ members' = IF tree'.ret = -1 THEN members ELSE members \cup {x}
    /\ UNCHANGED <<use, key, triggered, clock, loop, failed>>

\* The removed node's links are dead, since the next insert resets them: they
\* are forgotten here.
Erase(x) ==
    /\ use = "test" /\ x \in members
    /\ tree' = [RbErase(tree, x) EXCEPT !.n[x] = Blank, !.ret = Null]
    /\ members' = members \ {x}
    /\ UNCHANGED <<use, key, triggered, clock, loop, failed>>

-----------------------------------------------------------------------------
\* set_cpu_on arms hello; the scheduler's timer starts out triggered.
Init ==
    /\ use \in {"timers", "test"}
    /\ loop = FALSE
    /\ IF use = "test"
       THEN /\ tree = EmptyTree /\ key = TestKey /\ members = {}
            /\ triggered = [t \in Timers |-> TRUE] /\ clock = 0 /\ failed = FALSE
       ELSE LET s == SetCpuTimer([tree |-> EmptyTree, key |-> [x \in Nodes |-> 0],
                                  trig |-> [t \in Timers |-> t = sched_timer],
                                  clock |-> IdleReset, mem |-> {}, bad |-> FALSE], hello)
            IN  /\ tree = s.tree /\ key = s.key /\ triggered = s.trig
                /\ clock = s.clock /\ members = s.mem /\ failed = s.bad

Next ==
    \/ ClockInterrupt \/ FireHello \/ FireSched \/ FireKilled \/ LoopEnd \/ Sched \/ Tick
    \/ \E x \in Nodes : Insert(x) \/ Erase(x)

Spec == Init /\ [][Next]_vars

-----------------------------------------------------------------------------
(* Properties. *)

\* The tree has the shape its code relies on: the root is black, no red node has
\* a red child, every path has as many black nodes, every child points back to
\* its parent, and nothing was stored through NULL.
Balanced ==
    /\ IsBlack(tree, tree.root)
    /\ tree.root # Null => Parent(tree, tree.root) = Null
    /\ \A x \in members, d \in {"l", "r"} :
           Child(tree, x, d) # Null =>
               /\ Parent(tree, Child(tree, x, d)) = x
               /\ IsRed(tree, x) => IsBlack(tree, Child(tree, x, d))
    /\ BlackHeight(tree, tree.root) # -1
    /\ tree.n[0] = Blank

\* The tree holds exactly the nodes inserted and not removed, in the order of
\* their keys, so lookup finds a key if and only if it is there and the clock
\* handler sees the earliest timer first: although every preemption removes
\* sched_timer a second time when it is out of the tree already.
MembersExact ==
    /\ ~failed
    /\ LET s == InOrder(tree, tree.root, MaxNode)
           less == Less(use, key)
       IN  /\ Len(s) = Cardinality(members) /\ {s[k] : k \in 1..Len(s)} = members
           /\ \A k \in 1..(Len(s) - 1) : <<s[k], s[k + 1]>> \in less
           /\ use = "test" => \A x \in Nodes :
                  Lookup(tree, less, x) =
                      IF \E y \in members : key[y] = key[x]
                      THEN CHOOSE y \in members : key[y] = key[x] ELSE Null

\* Outside the handler's loop hello is armed and the virtual timer interrupts no
\* later than any armed timer is due: no timer is late because a cancel, a second
\* cancel or an expiry in between set the clock for another one.
ClockCovers ==
    (use = "timers" /\ ~loop) =>
        /\ hello \in members
        /\ \A t \in members : clock <= Max({0, key[t]})
=============================================================================
