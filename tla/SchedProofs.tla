---------------------------- MODULE SchedProofs ----------------------------
(***************************************************************************)
(* Proofs about Sched, for any number of CPUs and processes.               *)
(***************************************************************************)
EXTENDS Sched, ListProofs, WellFoundedInduction

-----------------------------------------------------------------------------
(* pick_next.                                                              *)

\* A non-empty set of naturals has a least element.
LEMMA LeastNat ==
  ASSUME NEW T, T \subseteq Nat, T # {}
  PROVE  \E x \in T : \A y \in T : x <= y
<1> DEFINE Less == {ss \in Nat \X Nat : ss[1] < ss[2]}
<1>1. IsWellFoundedOn(Less, Nat)
  BY NatLessThanWellFounded, Zenon DEF OpToRel
<1> HIDE DEF Less
<1>2. \E x \in T : \A y \in T : ~ (<<y, x>> \in Less)
  BY <1>1, WFMin
<1>3. ASSUME NEW x \in T, NEW y \in T, ~ (<<y, x>> \in Less)
      PROVE  x <= y
  <2>1. <<y, x>> \in Nat \X Nat /\ ~ (y < x)
    BY <1>3 DEF Less
  <2>. QED BY <2>1
<1>. QED BY <1>2, <1>3

\* pick_next returns a process that has waited longest, else the idle thread.
LEMMA PickFacts ==
  ASSUME NEW c, NEW q \in Seq(Procs), NEW st, NEW wt \in [Threads -> Nat],
         NEW B \in Nat, \A i \in Ready(q, st) : wt[q[i]] <= B
  PROVE  /\ Ready(q, st) = {} => pick_next(c, q, st, wt) = c
         /\ Ready(q, st) # {} =>
              \E i \in Ready(q, st) :
                 /\ pick_next(c, q, st, wt) = q[i]
                 /\ \A j \in Ready(q, st) : wt[q[j]] <= wt[q[i]]
<1> DEFINE R == Ready(q, st)
           Best(i) == \A j \in R : \/ wt[q[j]] < wt[q[i]]
                                   \/ wt[q[j]] = wt[q[i]] /\ i <= j
<1>1. \A i \in R : i \in Nat /\ wt[q[i]] \in Nat
  BY DEF Ready, Threads
<1>2. CASE R = {}
  BY <1>2 DEF pick_next
<1>3. CASE R # {}
  <2> DEFINE Lack == {B - wt[q[i]] : i \in R}
  <2>1. Lack \subseteq Nat /\ Lack # {}
    BY <1>1, <1>3
  <2>2. PICK x \in Lack : \A y \in Lack : x <= y
    BY <2>1, LeastNat
  <2>3. PICK k \in R : x = B - wt[q[k]]
    BY <2>2
  <2>4. \A j \in R : wt[q[j]] <= wt[q[k]]
    <3> TAKE j \in R
    <3>1. B - wt[q[k]] <= B - wt[q[j]]
      BY <2>2, <2>3
    <3>. QED BY <3>1, <1>1
  <2> DEFINE Top == {j \in R : wt[q[j]] = wt[q[k]]}
  <2>5. Top \subseteq Nat /\ Top # {}
    BY <1>1
  <2>6. PICK i \in Top : \A j \in Top : i <= j
    BY <2>5, LeastNat
  <2>7. i \in R /\ Best(i)
    BY <2>4, <2>6, <1>1
  <2>8. \E m \in R : Best(m)
    BY <2>7
  <2> DEFINE m == CHOOSE i_1 \in R : Best(i_1)
  <2>9. m \in R /\ Best(m)
    BY <2>8
  <2>10. pick_next(c, q, st, wt) = q[m]
    BY <1>3 DEF pick_next
  <2> HIDE DEF m
  <2>11. \A j \in R : wt[q[j]] <= wt[q[m]]
    BY <2>9, <1>1
  <2>. QED BY <1>3, <2>9, <2>10, <2>11
<1>. QED BY <1>2, <1>3

-----------------------------------------------------------------------------
(* How often a process is passed over.  Ahead is the set of the RUNNABLE   *)
(* processes that have waited at least as long as p: only these can be     *)
(* taken before p, and none of them comes back ahead of p.                 *)

Ahead(p, st, wt) == {r \in Procs \ {p} : st[r] = "RUNNABLE" /\ wt[r] >= wt[p]}

Bypass(st, wt) ==
    \A p \in Procs : st[p] = "RUNNABLE" =>
        wt[p] + Cardinality(Ahead(p, st, wt)) < Cardinality(Procs)

\* The sets of the argument are finite.
LEMMA AheadFinite ==
  ASSUME NEW p \in Procs, NEW st, NEW wt
  PROVE  /\ IsFiniteSet(Ahead(p, st, wt))
         /\ Cardinality(Ahead(p, st, wt)) \in Nat
         /\ Cardinality(Procs) \in Nat
         /\ Cardinality(Ahead(p, st, wt)) < Cardinality(Procs)
<1>1. IsFiniteSet(Procs) /\ Cardinality(Procs) \in Nat
  BY ProcsAssumption, FS_CardinalityType
<1>2. /\ IsFiniteSet(Procs \ {p})
      /\ Cardinality(Procs \ {p}) = Cardinality(Procs) - 1
  BY <1>1, FS_RemoveElement
<1>3. Ahead(p, st, wt) \in SUBSET (Procs \ {p})
  BY DEF Ahead
<1>4. /\ IsFiniteSet(Ahead(p, st, wt))
      /\ Cardinality(Ahead(p, st, wt)) <= Cardinality(Procs \ {p})
  BY <1>2, <1>3, FS_Subset
<1>5. Cardinality(Ahead(p, st, wt)) \in Nat
  BY <1>4, FS_CardinalityType
<1>. QED BY <1>1, <1>2, <1>4, <1>5

\* Whatever enters the queue with a wait of zero keeps the bound.
LEMMA BypassEnter ==
  ASSUME NEW st, NEW wt \in [Threads -> Nat], NEW st2, NEW wt2 \in [Threads -> Nat],
         Bypass(st, wt),
         \A p \in Procs : st2[p] = "RUNNABLE" =>
             \/ wt2[p] = 0
             \/ st[p] = "RUNNABLE" /\ wt2[p] = wt[p]
  PROVE  Bypass(st2, wt2)
<1> SUFFICES ASSUME NEW p \in Procs, st2[p] = "RUNNABLE"
             PROVE  wt2[p] + Cardinality(Ahead(p, st2, wt2)) < Cardinality(Procs)
  BY DEF Bypass
<1>1. CASE wt2[p] = 0
  BY <1>1, AheadFinite
<1>2. CASE wt2[p] # 0
  <2>1. st[p] = "RUNNABLE" /\ wt2[p] = wt[p] /\ wt[p] \in Nat \ {0}
    BY <1>2 DEF Threads
  <2>2. Ahead(p, st2, wt2) \in SUBSET Ahead(p, st, wt)
    BY <2>1 DEF Ahead, Threads
  <2>3. Cardinality(Ahead(p, st2, wt2)) <= Cardinality(Ahead(p, st, wt))
    BY <2>2, AheadFinite, FS_Subset
  <2>4. wt[p] + Cardinality(Ahead(p, st, wt)) < Cardinality(Procs)
    BY <2>1 DEF Bypass
  <2>. QED BY <2>1, <2>3, <2>4, AheadFinite
<1>. QED BY <1>1, <1>2

\* Taking a process that has waited longest keeps the bound although every
\* other wait grows: that process was ahead of all the others.
LEMMA BypassPick ==
  ASSUME NEW st, NEW wt \in [Threads -> Nat], NEW st2, NEW wt2 \in [Threads -> Nat],
         Bypass(st, wt),
         NEW next \in Procs, st[next] = "RUNNABLE",
         \A p \in Procs : st[p] = "RUNNABLE" => wt[p] <= wt[next] /\ wt2[p] = wt[p] + 1,
         \A p \in Procs : st2[p] = "RUNNABLE" => st[p] = "RUNNABLE" /\ p # next
  PROVE  Bypass(st2, wt2)
<1> SUFFICES ASSUME NEW p \in Procs, st2[p] = "RUNNABLE"
             PROVE  wt2[p] + Cardinality(Ahead(p, st2, wt2)) < Cardinality(Procs)
  BY DEF Bypass
<1>1. st[p] = "RUNNABLE" /\ wt[p] \in Nat /\ wt2[p] = wt[p] + 1
  BY DEF Threads
<1>2. next \in Ahead(p, st, wt)
  BY <1>1 DEF Ahead, Threads
<1>3. Ahead(p, st2, wt2) \in SUBSET (Ahead(p, st, wt) \ {next})
  <2> SUFFICES ASSUME NEW r \in Ahead(p, st2, wt2)
               PROVE  r \in Ahead(p, st, wt) \ {next}
    OBVIOUS
  <2>1. r \in Procs \ {p} /\ st2[r] = "RUNNABLE" /\ wt2[r] >= wt2[p]
    BY DEF Ahead
  <2>2. st[r] = "RUNNABLE" /\ wt2[r] = wt[r] + 1 /\ wt[r] \in Nat /\ r # next
    BY <2>1 DEF Threads
  <2>. QED BY <1>1, <2>1, <2>2 DEF Ahead
<1>4. /\ IsFiniteSet(Ahead(p, st, wt) \ {next})
      /\ Cardinality(Ahead(p, st, wt) \ {next}) = Cardinality(Ahead(p, st, wt)) - 1
  BY <1>2, AheadFinite, FS_RemoveElement
<1>5. Cardinality(Ahead(p, st2, wt2)) <= Cardinality(Ahead(p, st, wt)) - 1
  BY <1>3, <1>4, FS_Subset
<1>6. wt[p] + Cardinality(Ahead(p, st, wt)) < Cardinality(Procs)
  BY <1>1 DEF Bypass
<1>. QED BY <1>1, <1>5, <1>6, AheadFinite

-----------------------------------------------------------------------------
(* The inductive invariant.                                                *)

OnTarget == {"activate", "alert", "is_unused", "set_killed", "reap"}

\* The lock is held exactly from the choice of the next thread to the release
\* by that thread.
LockInv == \A c \in Cpus : rqlock = c <=> pc[c] \in {"swtch", "unlock"}

\* What a call in progress is about: the idle thread only yields, and a child
\* being collected is a ZOMBIE that one CPU collects.
CallInv ==
    \A c \in Cpus :
        /\ pc[c] = "sched" =>
              /\ new_state[c] \in {"RUNNABLE", "SLEEPING", "DEEPSLEEPING", "ZOMBIE"}
              /\ thisproc[c] = c => new_state[c] = "RUNNABLE"
        /\ pc[c] \in OnTarget => target[c] \in Procs
        /\ pc[c] = "reap" =>
              /\ state[target[c]] = "ZOMBIE"
              /\ \A d \in Cpus : pc[d] = "reap" /\ target[d] = target[c] => d = c

\* The current threads of the CPUs are the RUNNING ones, each on one CPU.
CurrentInv ==
    /\ \A c \in Cpus : /\ thisproc[c] \in Procs \cup {c}
                       /\ state[thisproc[c]] = "RUNNING"
                       /\ state[c] \in Queued
    /\ \A c, d \in Cpus : thisproc[c] = thisproc[d] => c = d
    /\ \A t \in Threads : state[t] = "RUNNING" => \E c \in Cpus : thisproc[c] = t

\* A CPU is on the stack of its current thread, except between the choice of
\* the next thread and swtch; the thread it then leaves is not RUNNING.
StackInv ==
    \A c \in Cpus :
        /\ pc[c] # "swtch" => stack[c] = thisproc[c]
        /\ pc[c] = "swtch" => /\ state[stack[c]] \notin {"RUNNING", "UNUSED"}
                              /\ stack[c] \in Cpus => stack[c] = c

QueueInv == NoDup(rq) /\ Elems(rq) = {p \in Procs : state[p] \in Queued}

SchedInv ==
    /\ TypeOK
    /\ LockInv
    /\ CallInv
    /\ CurrentInv
    /\ StackInv
    /\ QueueInv
    /\ Bypass(state, wait_time)

\* The first state satisfies the invariant.
LEMMA SchedInvInit == init_sched => SchedInv
<1> SUFFICES ASSUME init_sched PROVE SchedInv
  OBVIOUS
<1> USE CpusAssumption, ProcsAssumption
<1>1. TypeOK
  BY DEF init_sched, TypeOK, Threads, procstate, PCs
<1>2. LockInv
  BY DEF init_sched, LockInv
<1>3. CallInv
  BY DEF init_sched, CallInv, OnTarget
<1>4. CurrentInv
  BY DEF init_sched, CurrentInv, Threads, Queued
<1>5. StackInv
  BY DEF init_sched, StackInv
<1>6. QueueInv
  BY DEF init_sched, QueueInv, NoDup, Elems, Threads, Queued
<1>7. Bypass(state, wait_time)
  BY DEF init_sched, Bypass, Threads
<1>. QED BY <1>1, <1>2, <1>3, <1>4, <1>5, <1>6, <1>7 DEF SchedInv

\* What sched() does when it does not return early.
LEMMA DispatchFacts ==
  ASSUME SchedInv, NEW c \in Cpus, Dispatch(c)
  PROVE  LET st == [state EXCEPT ![thisproc[c]] = new_state[c]]
         IN  /\ rq' \in Seq(Procs) /\ NoDup(rq')
             /\ Elems(rq') = {p \in Procs : st[p] \in Queued}
             /\ wait_time' \in [Threads -> Nat]
             /\ Bypass(state', wait_time')
             /\ \E next \in Procs \cup {c} :
                   /\ st[next] = "RUNNABLE"
                   /\ next = c => \A p \in Procs : st[p] # "RUNNABLE"
                   /\ state' = [st EXCEPT ![next] = "RUNNING"]
                   /\ thisproc' = [thisproc EXCEPT ![c] = next]
                   /\ pc' = [pc EXCEPT ![c] =
                               IF next # thisproc[c] THEN "swtch" ELSE "unlock"]
<1> DEFINE this == thisproc[c]
           ns   == new_state[c]
           q    == QueueAfter(c, ns)
           st   == [state EXCEPT ![this] = ns]
           w    == WaitAfter(c, ns)
           wt   == Aged(q, st, w)
           next == pick_next(c, q, st, wt)
<1> USE CpusAssumption, ProcsAssumption
<1>1. /\ TypeOK
      /\ this \in Procs \cup {c} /\ this \in Threads /\ state[this] = "RUNNING"
      /\ ns \in {"RUNNABLE", "SLEEPING", "DEEPSLEEPING", "ZOMBIE"}
      /\ this = c => ns = "RUNNABLE"
      /\ c \notin Procs
  BY DEF SchedInv, CurrentInv, CallInv, Dispatch, TypeOK
<1>2. /\ st[next] = "RUNNABLE" /\ rq' = q /\ wait_time' = wt
      /\ state' = [st EXCEPT ![next] = "RUNNING"]
      /\ thisproc' = [thisproc EXCEPT ![c] = next]
      /\ pc' = [pc EXCEPT ![c] = IF next # this THEN "swtch" ELSE "unlock"]
  BY DEF Dispatch
<1>3. st \in [Threads -> procstate] /\ \A t \in Threads : st[t] = IF t = this THEN ns ELSE state[t]
  BY <1>1 DEF TypeOK, procstate
<1>4. /\ q \in Seq(Procs) /\ NoDup(q)
      /\ Elems(q) = {p \in Procs : st[p] \in Queued}
  <2>1. rq \in Seq(Procs) /\ NoDup(rq) /\ Elems(rq) = {p \in Procs : state[p] \in Queued}
    BY DEF SchedInv, TypeOK, QueueInv
  <2>2. CASE this = c
    <3>1. q = rq
      BY <2>2 DEF QueueAfter
    <3>. QED BY <3>1, <2>1, <2>2, <1>1, <1>3 DEF Threads
  <2>3. CASE this # c
    <3> DEFINE d == _detach_from_list(rq, this)
    <3>1. d \in Seq(Procs) /\ NoDup(d) /\ Elems(d) = Elems(rq) \ {this}
      BY <2>1, DetachFacts
    <3> HIDE DEF d
    <3>2. q = IF ns \in Queued THEN _insert_into_list(d, this) ELSE d
      BY <2>3, <1>1 DEF QueueAfter, Queued, d
    <3>3. CASE ns \in Queued
      <4>1. /\ _insert_into_list(d, this) \in Seq(Procs)
            /\ Elems(_insert_into_list(d, this)) = Elems(d) \cup {this}
            /\ NoDup(_insert_into_list(d, this))
        BY <3>1, <2>3, <1>1, InsertFacts
      <4>. QED BY <4>1, <3>1, <3>2, <3>3, <2>1, <2>3, <1>1, <1>3 DEF Threads
    <3>4. CASE ns \notin Queued
      BY <3>1, <3>2, <3>4, <2>1, <2>3, <1>1, <1>3 DEF Threads
    <3>. QED BY <3>3, <3>4
  <2>. QED BY <2>2, <2>3
<1> HIDE DEF q, st
<1>5. w \in [Threads -> Nat] /\ Bypass(st, w)
  <2>1. w \in [Threads -> Nat]
    BY <1>1 DEF WaitAfter, TypeOK
  <2>2. wait_time \in [Threads -> Nat] /\ Bypass(state, wait_time)
    BY DEF SchedInv, TypeOK
  <2>3. ASSUME NEW p \in Procs, st[p] = "RUNNABLE"
        PROVE  w[p] = 0 \/ (state[p] = "RUNNABLE" /\ w[p] = wait_time[p])
    <3>1. CASE p = this
      BY <3>1, <2>3, <1>1, <1>3, <2>2 DEF WaitAfter, Queued, Threads
    <3>2. CASE p # this
      BY <3>2, <2>3, <1>1, <1>3, <2>2 DEF WaitAfter, Threads
    <3>. QED BY <3>1, <3>2
  <2> HIDE DEF w
  <2>. QED BY <2>1, <2>2, <2>3, BypassEnter
<1> HIDE DEF w
<1>6. \A i \in Ready(q, st) : q[i] \in Procs /\ st[q[i]] = "RUNNABLE"
  BY <1>4 DEF Ready
<1>7. \A p \in Procs : st[p] = "RUNNABLE" => \E i \in Ready(q, st) : q[i] = p
  BY <1>4 DEF Ready, Elems, Queued
<1>8. /\ wt \in [Threads -> Nat]
      /\ \A p \in Procs : st[p] = "RUNNABLE" => wt[p] = w[p] + 1
  BY <1>5, <1>7 DEF Aged, Threads
<1> HIDE DEF wt
<1>9. Cardinality(Procs) \in Nat /\ \A i \in Ready(q, st) : wt[q[i]] <= Cardinality(Procs)
  <2>1. Cardinality(Procs) \in Nat
    BY FS_CardinalityType
  <2>2. ASSUME NEW i \in Ready(q, st) PROVE wt[q[i]] <= Cardinality(Procs)
    <3> DEFINE p == q[i]
    <3>1. p \in Procs /\ st[p] = "RUNNABLE" /\ p \in Threads
      BY <1>6 DEF Threads
    <3> HIDE DEF p
    <3>2. w[p] + Cardinality(Ahead(p, st, w)) < Cardinality(Procs)
      BY <3>1, <1>5 DEF Bypass
    <3>3. Cardinality(Ahead(p, st, w)) \in Nat /\ w[p] \in Nat /\ wt[p] = w[p] + 1
      BY <3>1, <1>5, <1>8, AheadFinite
    <3>. QED BY <2>1, <3>2, <3>3 DEF p
  <2>. QED BY <2>1, <2>2
<1>10. /\ next \in Procs \cup {c}
       /\ next = c => \A p \in Procs : st[p] # "RUNNABLE"
       /\ next \in Procs => \A p \in Procs : st[p] = "RUNNABLE" => wt[p] <= wt[next]
  <2>1. CASE Ready(q, st) = {}
    <3>1. next = c
      BY <2>1, <1>4, <1>8, <1>9, PickFacts
    <3>. QED BY <3>1, <2>1, <1>1, <1>7
  <2>2. CASE Ready(q, st) # {}
    <3>1. PICK i \in Ready(q, st) : next = q[i] /\ \A j \in Ready(q, st) : wt[q[j]] <= wt[q[i]]
      BY <2>2, <1>4, <1>8, <1>9, PickFacts
    <3> HIDE DEF next
    <3>. QED BY <3>1, <1>1, <1>6, <1>7
  <2>. QED BY <2>1, <2>2
<1> HIDE DEF next
<1>11. Bypass(state', wait_time')
  <2>1. CASE next = c
    <3>1. \A p \in Procs : state'[p] # "RUNNABLE"
      BY <2>1, <1>1, <1>2, <1>3, <1>10 DEF Threads
    <3>. QED BY <3>1 DEF Bypass
  <2>2. CASE next \in Procs
    <3>1. \A p \in Procs : state'[p] = "RUNNABLE" => st[p] = "RUNNABLE" /\ p # next
      BY <2>2, <1>2, <1>3 DEF Threads
    <3>2. \A p \in Procs : st[p] = "RUNNABLE" => w[p] <= w[next] /\ wait_time'[p] = w[p] + 1
      BY <2>2, <1>2, <1>5, <1>8, <1>10 DEF Threads
    <3>3. wait_time' \in [Threads -> Nat] /\ st[next] = "RUNNABLE"
      BY <1>2, <1>8
    <3>. QED BY <3>1, <3>2, <3>3, <2>2, <1>5, BypassPick, SMTT(30)
  <2>. QED BY <2>1, <2>2, <1>10
<1>. QED BY <1>2, <1>4, <1>8, <1>10, <1>11 DEF st

\* Every step of every CPU preserves the invariant.
LEMMA SchedInvNext == SchedInv /\ [Next]_vars => SchedInv'
<1> SUFFICES ASSUME SchedInv, [Next]_vars PROVE SchedInv'
  OBVIOUS
<1> USE CpusAssumption, ProcsAssumption
<1>1. CASE UNCHANGED vars
  BY <1>1 DEF vars, SchedInv, TypeOK, LockInv, CallInv, CurrentInv, StackInv, QueueInv
<1>2. ASSUME NEW c \in Cpus, SchedChoose(c) PROVE SchedInv'
  <2> DEFINE st == [state EXCEPT ![thisproc[c]] = new_state[c]]
  <2>1. /\ Dispatch(c) /\ rqlock = None /\ rqlock' = c
        /\ pc[c] = "sched" /\ killed' = killed /\ stack' = stack /\ target' = target
        /\ new_state' = [new_state EXCEPT ![c] = None]
    BY <1>2 DEF SchedChoose, Dispatch
  <2>2. /\ rq' \in Seq(Procs) /\ NoDup(rq')
        /\ Elems(rq') = {p \in Procs : st[p] \in Queued}
        /\ wait_time' \in [Threads -> Nat]
        /\ Bypass(state', wait_time')
    BY <2>1, DispatchFacts
  <2>3. PICK next \in Procs \cup {c} :
          /\ st[next] = "RUNNABLE"
          /\ next = c => \A p \in Procs : st[p] # "RUNNABLE"
          /\ state' = [st EXCEPT ![next] = "RUNNING"]
          /\ thisproc' = [thisproc EXCEPT ![c] = next]
          /\ pc' = [pc EXCEPT ![c] = IF next # thisproc[c] THEN "swtch" ELSE "unlock"]
    BY <2>1, DispatchFacts
  <2>4. /\ TypeOK /\ LockInv /\ CallInv /\ CurrentInv /\ StackInv /\ QueueInv
    BY DEF SchedInv
  <2>5. /\ thisproc[c] \in Procs \cup {c} /\ thisproc[c] \in Threads
        /\ next \in Threads /\ c \in Threads
        /\ new_state[c] \in {"RUNNABLE", "SLEEPING", "DEEPSLEEPING", "ZOMBIE"}
        /\ thisproc[c] = c => new_state[c] = "RUNNABLE"
    BY <2>1, <2>4 DEF CurrentInv, CallInv, Threads, TypeOK
  <2>6. /\ st \in [Threads -> procstate]
        /\ \A t \in Threads : st[t] = IF t = thisproc[c] THEN new_state[c] ELSE state[t]
    BY <2>4, <2>5 DEF TypeOK, procstate
  <2> HIDE DEF st
  <2>7. /\ state' \in [Threads -> procstate]
        /\ \A t \in Threads : state'[t] = IF t = next THEN "RUNNING" ELSE st[t]
    BY <2>3, <2>5, <2>6 DEF procstate
  <2>8. /\ thisproc' \in [Cpus -> Threads]
        /\ \A d \in Cpus : thisproc'[d] = IF d = c THEN next ELSE thisproc[d]
    BY <2>3, <2>4, <2>5 DEF TypeOK
  <2>9. /\ pc' \in [Cpus -> PCs]
        /\ \A d \in Cpus : d # c => pc'[d] = pc[d]
        /\ pc'[c] = IF next # thisproc[c] THEN "swtch" ELSE "unlock"
    BY <2>3, <2>4 DEF TypeOK, PCs
  <2>10. \A d \in Cpus : pc[d] \notin {"swtch", "unlock"}
    BY <2>1, <2>4 DEF LockInv
  <2>11. TypeOK'
    BY <2>1, <2>2, <2>4, <2>7, <2>8, <2>9 DEF TypeOK
  <2>12. LockInv'
    BY <2>1, <2>9, <2>10 DEF LockInv
  <2>13. CallInv'
    <3> SUFFICES ASSUME NEW d \in Cpus, d # c
                 PROVE  /\ pc[d] = "sched" =>
                             /\ new_state[d] \in {"RUNNABLE", "SLEEPING", "DEEPSLEEPING", "ZOMBIE"}
                             /\ thisproc[d] = d => new_state[d] = "RUNNABLE"
                        /\ pc[d] \in OnTarget => target[d] \in Procs
                        /\ pc[d] = "reap" =>
                             /\ state'[target[d]] = "ZOMBIE"
                             /\ \A e \in Cpus : pc'[e] = "reap" /\ target[e] = target[d] => e = d
      BY <2>1, <2>4, <2>8, <2>9 DEF CallInv, TypeOK, OnTarget
    <3>1. CASE pc[d] = "reap"
      <4>1. state[target[d]] = "ZOMBIE" /\ target[d] \in Procs /\ target[d] \in Threads
        BY <3>1, <2>4 DEF CallInv, OnTarget, Threads
      <4>2. target[d] # thisproc[c] /\ target[d] # next
        BY <4>1, <2>3, <2>4, <2>6 DEF CurrentInv
      <4>. QED BY <3>1, <4>1, <4>2, <2>4, <2>6, <2>7, <2>9 DEF CallInv, OnTarget
    <3>2. CASE pc[d] # "reap"
      BY <3>2, <2>4 DEF CallInv
    <3>. QED BY <3>1, <3>2
  <2>14. CurrentInv'
    <3>1. ASSUME NEW d \in Cpus, d # c
          PROVE  /\ thisproc[d] # thisproc[c] /\ thisproc[d] # next
                 /\ thisproc[d] \in Threads /\ state'[thisproc[d]] = "RUNNING"
      BY <3>1, <2>3, <2>4, <2>5, <2>6, <2>7 DEF CurrentInv, TypeOK
    <3>2. ASSUME NEW d \in Cpus
          PROVE  /\ thisproc'[d] \in Procs \cup {d}
                 /\ state'[thisproc'[d]] = "RUNNING"
      BY <3>1, <2>4, <2>5, <2>7, <2>8 DEF CurrentInv
    <3>3. ASSUME NEW d \in Cpus PROVE state'[d] \in Queued
      <4>1. d \in Threads /\ state[d] \in Queued /\ (d = thisproc[c] => d = c)
        BY <2>4, <2>5 DEF CurrentInv, Threads
      <4>. QED BY <4>1, <2>5, <2>6, <2>7 DEF Queued
    <3>4. ASSUME NEW d \in Cpus, NEW e \in Cpus, thisproc'[d] = thisproc'[e]
          PROVE  d = e
      BY <3>1, <3>4, <2>4, <2>8 DEF CurrentInv
    <3>5. ASSUME NEW t \in Threads, state'[t] = "RUNNING"
          PROVE  \E d \in Cpus : thisproc'[d] = t
      <4>1. CASE t = next
        BY <4>1, <2>8
      <4>2. CASE t # next
        <5>1. t # thisproc[c] /\ state[t] = "RUNNING"
          BY <4>2, <3>5, <2>5, <2>6, <2>7
        <5>2. PICK d \in Cpus : thisproc[d] = t
          BY <5>1, <2>4 DEF CurrentInv
        <5>. QED BY <5>1, <5>2, <2>8
      <4>. QED BY <4>1, <4>2
    <3>. QED BY <3>2, <3>3, <3>4, <3>5 DEF CurrentInv
  <2>15. StackInv'
    <3>1. ASSUME NEW d \in Cpus, d # c
          PROVE  pc'[d] # "swtch" /\ stack'[d] = thisproc'[d]
      BY <3>1, <2>1, <2>4, <2>8, <2>9, <2>10 DEF StackInv
    <3>2. stack'[c] = thisproc[c]
      BY <2>1, <2>4 DEF StackInv
    <3>3. CASE next = thisproc[c]
      BY <3>1, <3>2, <3>3, <2>8, <2>9 DEF StackInv
    <3>4. CASE next # thisproc[c]
      <4>1. state'[thisproc[c]] \notin {"RUNNING", "UNUSED"}
        BY <3>4, <2>5, <2>6, <2>7
      <4>. QED BY <3>1, <3>2, <3>4, <4>1, <2>5, <2>8, <2>9 DEF StackInv
    <3>. QED BY <3>3, <3>4
  <2>16. QueueInv'
    <3>1. {p \in Procs : st[p] \in Queued} = {p \in Procs : state'[p] \in Queued}
      BY <2>3, <2>7 DEF Queued, Threads
    <3>. QED BY <2>2, <3>1 DEF QueueInv
  <2>. QED BY <2>2, <2>11, <2>12, <2>13, <2>14, <2>15, <2>16 DEF SchedInv
<1>3. ASSUME rq' = rq, state' = state, wait_time' = wait_time, thisproc' = thisproc
      PROVE  CurrentInv' /\ QueueInv' /\ Bypass(state, wait_time)'
  BY <1>3 DEF SchedInv, CurrentInv, QueueInv
<1>4. ASSUME NEW c \in Cpus, SchedKilled(c) PROVE SchedInv'
  <2>1. TypeOK'
    BY <1>4 DEF SchedKilled, SchedInv, TypeOK, PCs
  <2>2. LockInv' /\ CallInv' /\ StackInv'
    BY <1>4 DEF SchedKilled, SchedInv, TypeOK, LockInv, CallInv, StackInv, OnTarget
  <2>. QED BY <1>3, <1>4, <2>1, <2>2 DEF SchedKilled, SchedInv
<1>5. ASSUME NEW c \in Cpus, swtch(c) PROVE SchedInv'
  <2>1. TypeOK'
    BY <1>5 DEF swtch, SchedInv, TypeOK, PCs
  <2>2. LockInv' /\ CallInv' /\ StackInv'
    BY <1>5 DEF swtch, SchedInv, TypeOK, LockInv, CallInv, StackInv, OnTarget
  <2>. QED BY <1>3, <1>5, <2>1, <2>2 DEF swtch, SchedInv
<1>6. ASSUME NEW c \in Cpus, release_sched_lock(c) PROVE SchedInv'
  <2>1. TypeOK'
    BY <1>6 DEF release_sched_lock, SchedInv, TypeOK, PCs
  <2>2. LockInv' /\ CallInv' /\ StackInv'
    BY <1>6 DEF release_sched_lock, SchedInv, TypeOK, LockInv, CallInv, StackInv, OnTarget
  <2>. QED BY <1>3, <1>6, <2>1, <2>2 DEF release_sched_lock, SchedInv
<1>7. ASSUME NEW c \in Cpus, SetKilled(c) PROVE SchedInv'
  <2>1. TypeOK'
    BY <1>7 DEF SetKilled, SchedInv, TypeOK, PCs
  <2>2. LockInv' /\ StackInv'
    <3>1. \A d \in Cpus : /\ pc'[d] \in {"swtch", "unlock"} <=> pc[d] \in {"swtch", "unlock"}
                          /\ pc'[d] = "swtch" <=> pc[d] = "swtch"
      BY <1>7 DEF SetKilled, SchedInv, TypeOK
    <3>. QED BY <1>7, <3>1 DEF SetKilled, SchedInv, LockInv, StackInv
  <2>3. ASSUME NEW d \in Cpus
        PROVE  /\ pc'[d] = "sched" => pc[d] = "sched"
               /\ pc'[d] \in OnTarget => pc[d] \in OnTarget /\ target'[d] = target[d]
               /\ pc'[d] = "reap" => pc[d] = "reap"
    BY <1>7 DEF SetKilled, SchedInv, TypeOK, OnTarget
  <2>4. CallInv'
    BY <1>7, <2>3 DEF SetKilled, SchedInv, CallInv, OnTarget
  <2>. QED BY <1>3, <1>7, <2>1, <2>2, <2>4 DEF SetKilled, SchedInv
<1>8. ASSUME NEW c \in Cpus, is_unused(c) PROVE SchedInv'
  <2>1. TypeOK'
    BY <1>8 DEF is_unused, SchedInv, TypeOK, PCs
  <2>2. LockInv' /\ StackInv'
    BY <1>8 DEF is_unused, SchedInv, TypeOK, LockInv, StackInv
  <2>3. ASSUME NEW d \in Cpus
        PROVE  /\ pc'[d] = "sched" => pc[d] = "sched"
               /\ pc'[d] \in OnTarget => pc[d] \in OnTarget /\ target'[d] = target[d]
               /\ pc'[d] = "reap" => pc[d] = "reap"
    BY <1>8 DEF is_unused, SchedInv, TypeOK, OnTarget
  <2>4. CallInv'
    BY <1>8, <2>3 DEF is_unused, SchedInv, CallInv, OnTarget
  <2>. QED BY <1>3, <1>8, <2>1, <2>2, <2>4 DEF is_unused, SchedInv
<1>9. ASSUME NEW c \in Cpus,
             NEW ns \in {"RUNNABLE", "SLEEPING", "DEEPSLEEPING", "ZOMBIE"},
             stack[c] \notin Procs => ns = "RUNNABLE",
             CallSched(c, ns)
      PROVE  SchedInv'
  <2>1. TypeOK'
    BY <1>9 DEF CallSched, SchedInv, TypeOK, PCs, procstate
  <2>2. LockInv' /\ StackInv'
    BY <1>9 DEF CallSched, SchedInv, TypeOK, LockInv, StackInv
  <2>3. CallInv'
    <3>1. thisproc[c] = c => ns = "RUNNABLE"
      BY <1>9 DEF CallSched, SchedInv, StackInv
    <3>2. /\ pc'[c] = "sched" /\ new_state'[c] = ns
          /\ \A d \in Cpus \ {c} : pc'[d] = pc[d] /\ new_state'[d] = new_state[d]
      BY <1>9 DEF CallSched, SchedInv, TypeOK
    <3>. QED BY <1>9, <3>1, <3>2 DEF CallSched, SchedInv, CallInv, OnTarget
  <2>. QED BY <1>3, <1>9, <2>1, <2>2, <2>3 DEF CallSched, SchedInv
<1>10. ASSUME NEW c \in Cpus, NEW p \in Procs, NEW step \in OnTarget,
              step = "reap" => /\ state[p] = "ZOMBIE"
                               /\ \A d \in Cpus : ~(pc[d] = "reap" /\ target[d] = p),
              CallOn(c, p, step)
       PROVE  SchedInv'
  <2>1. TypeOK'
    BY <1>10 DEF CallOn, SchedInv, TypeOK, PCs, OnTarget
  <2>2. LockInv' /\ StackInv'
    BY <1>10 DEF CallOn, SchedInv, TypeOK, LockInv, StackInv, OnTarget
  <2>3. CallInv'
    BY <1>10 DEF CallOn, SchedInv, TypeOK, CallInv, OnTarget
  <2>. QED BY <1>3, <1>10, <2>1, <2>2, <2>3 DEF CallOn, SchedInv
<1>11. ASSUME NEW c \in Cpus, _activate_proc(c) PROVE SchedInv'
  <2> DEFINE p == target[c]
  <2>1. /\ TypeOK /\ LockInv /\ CallInv /\ CurrentInv /\ StackInv /\ QueueInv
        /\ Bypass(state, wait_time)
    BY DEF SchedInv
  <2>2. /\ pc[c] \in {"activate", "alert"} /\ rqlock = None
        /\ p \in Procs /\ p \in Threads
        /\ pc' = [pc EXCEPT ![c] = "kern"]
        /\ target' = [target EXCEPT ![c] = None]
        /\ UNCHANGED <<rqlock, killed, thisproc, stack, new_state>>
    BY <1>11, <2>1 DEF _activate_proc, CallInv, OnTarget, Threads
  <2>3. LockInv'
    BY <2>1, <2>2 DEF LockInv, TypeOK
  <2>4. CASE UNCHANGED <<state, wait_time, rq>>
    <3>1. TypeOK'
      BY <2>1, <2>2, <2>4 DEF TypeOK, PCs
    <3>2. CallInv' /\ StackInv'
      BY <2>1, <2>2, <2>4 DEF TypeOK, CallInv, StackInv, OnTarget
    <3>. QED BY <1>3, <2>2, <2>3, <2>4, <3>1, <3>2 DEF SchedInv
  <2>5. CASE /\ state[p] \in {"SLEEPING", "UNUSED", "DEEPSLEEPING"}
             /\ state' = [state EXCEPT ![p] = "RUNNABLE"]
             /\ wait_time' = [wait_time EXCEPT ![p] = 0]
             /\ rq' = _insert_into_list(rq, p)
    <3>1. /\ rq \in Seq(Procs) /\ NoDup(rq) /\ p \notin Elems(rq)
          /\ Elems(rq) = {r \in Procs : state[r] \in Queued}
      BY <2>1, <2>2, <2>5 DEF TypeOK, QueueInv, Queued
    <3>2. /\ rq' \in Seq(Procs) /\ NoDup(rq')
          /\ Elems(rq') = Elems(rq) \cup {p}
      BY <3>1, <2>2, <2>5, InsertFacts
    <3>3. /\ state' \in [Threads -> procstate]
          /\ \A t \in Threads : state'[t] = IF t = p THEN "RUNNABLE" ELSE state[t]
      BY <2>1, <2>2, <2>5 DEF TypeOK, procstate
    <3>4. /\ wait_time' \in [Threads -> Nat]
          /\ \A t \in Threads : wait_time'[t] = IF t = p THEN 0 ELSE wait_time[t]
      BY <2>1, <2>2, <2>5 DEF TypeOK
    <3> HIDE DEF p
    <3>5. TypeOK'
      BY <2>1, <2>2, <3>2, <3>3, <3>4 DEF TypeOK, PCs
    <3>6. CallInv'
      BY <2>1, <2>2, <2>5, <3>3 DEF TypeOK, CallInv, OnTarget, Threads
    <3>7. CurrentInv'
      BY <2>1, <2>2, <2>5, <3>3 DEF TypeOK, CurrentInv, Queued, Threads
    <3>8. StackInv'
      BY <2>1, <2>2, <3>3 DEF TypeOK, StackInv, LockInv
    <3>9. QueueInv'
      BY <2>2, <3>1, <3>2, <3>3 DEF QueueInv, Queued, Threads
    <3>10. Bypass(state', wait_time')
      <4>1. \A r \in Procs : state'[r] = "RUNNABLE" =>
               wait_time'[r] = 0 \/ (state[r] = "RUNNABLE" /\ wait_time'[r] = wait_time[r])
        BY <3>3, <3>4 DEF Threads
      <4>2. wait_time \in [Threads -> Nat]
        BY <2>1 DEF TypeOK
      <4>. QED BY <4>1, <4>2, <3>4, <2>1, BypassEnter
    <3>. QED BY <2>3, <3>5, <3>6, <3>7, <3>8, <3>9, <3>10 DEF SchedInv
  <2>. QED BY <1>11, <2>4, <2>5 DEF _activate_proc, Activatable
<1>12. ASSUME NEW c \in Cpus, Reap(c) PROVE SchedInv'
  <2> DEFINE p == target[c]
  <2>1. /\ TypeOK /\ LockInv /\ CallInv /\ CurrentInv /\ StackInv /\ QueueInv
        /\ Bypass(state, wait_time)
    BY DEF SchedInv
  <2>2. /\ pc[c] = "reap" /\ rqlock = None
        /\ p \in Procs /\ p \in Threads /\ state[p] = "ZOMBIE"
        /\ \A d \in Cpus : pc[d] = "reap" /\ target[d] = p => d = c
        /\ rq' = _detach_from_list(rq, p)
        /\ state' = [state EXCEPT ![p] = "UNUSED"]
        /\ killed' = [killed EXCEPT ![p] = FALSE]
        /\ pc' = [pc EXCEPT ![c] = "kern"]
        /\ target' = [target EXCEPT ![c] = None]
        /\ UNCHANGED <<rqlock, wait_time, thisproc, stack, new_state>>
    BY <1>12, <2>1 DEF Reap, FreeChild, CallInv, OnTarget, Threads
  <2> HIDE DEF p
  <2>3. /\ rq' \in Seq(Procs) /\ NoDup(rq')
        /\ Elems(rq') = Elems(rq) \ {p}
    BY <2>1, <2>2, DetachFacts DEF TypeOK, QueueInv
  <2>4. /\ state' \in [Threads -> procstate]
        /\ \A t \in Threads : state'[t] = IF t = p THEN "UNUSED" ELSE state[t]
    BY <2>1, <2>2 DEF TypeOK, procstate
  <2>5. TypeOK'
    BY <2>1, <2>2, <2>3, <2>4 DEF TypeOK, PCs
  <2>6. LockInv'
    BY <2>1, <2>2 DEF LockInv, TypeOK
  <2>7. CallInv'
    BY <2>1, <2>2, <2>4 DEF TypeOK, CallInv, OnTarget, Threads
  <2>8. CurrentInv'
    BY <2>1, <2>2, <2>4 DEF TypeOK, CurrentInv, Queued, Threads
  <2>9. StackInv'
    BY <2>1, <2>2, <2>4 DEF TypeOK, StackInv, LockInv
  <2>10. QueueInv'
    BY <2>1, <2>2, <2>3, <2>4 DEF QueueInv, Queued, Threads
  <2>11. Bypass(state', wait_time')
    <3>1. \A r \in Procs : state'[r] = "RUNNABLE" =>
             wait_time'[r] = 0 \/ (state[r] = "RUNNABLE" /\ wait_time'[r] = wait_time[r])
      BY <2>2, <2>4 DEF Threads
    <3>2. wait_time \in [Threads -> Nat] /\ wait_time' = wait_time
      BY <2>1, <2>2 DEF TypeOK
    <3>. QED BY <3>1, <3>2, <2>1, BypassEnter
  <2>. QED BY <2>5, <2>6, <2>7, <2>8, <2>9, <2>10, <2>11 DEF SchedInv
<1>13. ASSUME NEW c \in Cpus, Call(c) PROVE SchedInv'
  <2>1. CASE yield(c)
    BY <2>1, <1>9 DEF yield
  <2>2. CASE Sleep(c)
    BY <2>2, <1>9 DEF Sleep
  <2>3. CASE exit(c)
    BY <2>3, <1>9 DEF exit
  <2>4. ASSUME NEW p \in Procs, activate_proc(c, p) \/ kill(c, p) \/ FoundZombie(c, p)
        PROVE  SchedInv'
    BY <2>4, <1>10 DEF activate_proc, kill, FoundZombie, OnTarget
  <2>. QED BY <1>13, <2>1, <2>2, <2>3, <2>4 DEF Call
<1>. QED BY <1>1, <1>2, <1>4, <1>5, <1>6, <1>7, <1>8, <1>11, <1>12, <1>13 DEF Next, LockStep

-----------------------------------------------------------------------------
(* The theorems.                                                           *)

\* The invariant holds in every state the scheduler reaches.
THEOREM SchedInvariant == Spec => []SchedInv
<1>. QED BY SchedInvInit, SchedInvNext, PTL DEF Spec

\* Type correctness of the scheduler's state, for any number of CPUs and slots.
THEOREM SchedTypeCorrect == Spec => []TypeOK
<1>1. SchedInv => TypeOK
  BY DEF SchedInv
<1>. QED BY <1>1, SchedInvariant, PTL

\* No two CPUs are ever on the same kernel stack: rqlock is handed over across
\* swtch.
THEOREM SchedOneCpuPerStack == Spec => []OneCpuPerStack
<1>1. SchedInv => OneCpuPerStack
  BY CpusAssumption DEF SchedInv, OneCpuPerStack, StackInv, CurrentInv, LockInv
<1>. QED BY <1>1, SchedInvariant, PTL

\* The assertions in sched() never fail.
THEOREM SchedAssertsHold == Spec => []SchedAsserts
<1>1. SchedInv => SchedAsserts
  <2> SUFFICES ASSUME SchedInv, NEW c \in Cpus
               PROVE  /\ state[thisproc[c]] = "RUNNING"
                      /\ thisproc[c] # c => state[c] = "RUNNABLE"
    BY DEF SchedAsserts
  <2>1. ASSUME state[c] = "RUNNING" PROVE thisproc[c] = c
    <3>1. PICK d \in Cpus : thisproc[d] = c
      BY <2>1 DEF SchedInv, CurrentInv, Threads
    <3>. QED BY <3>1, ProcsAssumption DEF SchedInv, CurrentInv
  <2>. QED BY <2>1 DEF SchedInv, CurrentInv, Queued
<1>. QED BY <1>1, SchedInvariant, PTL

\* The run queue holds every RUNNABLE or RUNNING process once, and no other.
THEOREM SchedRqExact == Spec => []RqExact
<1>1. SchedInv => RqExact
  BY DEF SchedInv, QueueInv, NoDup, Elems, RqExact
<1>. QED BY <1>1, SchedInvariant, PTL

\* wait() never frees a kernel stack that a CPU executes on.
THEOREM SchedKstackLive == Spec => []KstackLive
<1>1. SchedInv => KstackLive
  BY DEF SchedInv, KstackLive, StackInv, CurrentInv
<1>. QED BY <1>1, SchedInvariant, PTL

\* A RUNNABLE process is passed over fewer times than there are process slots.
THEOREM SchedBoundedBypass == Spec => []BoundedBypass
<1>1. SchedInv => BoundedBypass
  <2> SUFFICES ASSUME SchedInv, NEW p \in Procs, state[p] = "RUNNABLE"
               PROVE  wait_time[p] < Cardinality(Procs)
    BY DEF BoundedBypass
  <2>1. wait_time[p] + Cardinality(Ahead(p, state, wait_time)) < Cardinality(Procs)
    BY DEF SchedInv, Bypass
  <2>2. wait_time[p] \in Nat
    BY DEF SchedInv, TypeOK, Threads
  <2>. QED BY <2>1, <2>2, AheadFinite
<1>. QED BY <1>1, SchedInvariant, PTL

\* A killed user process is not left SLEEPING without an alert on its way.
THEOREM SchedKilledNotAsleep == Spec => []KilledNotAsleep
<1>1. init_sched => KilledNotAsleep
  BY ProcsAssumption DEF init_sched, KilledNotAsleep, Threads
<1>2. SchedInv /\ KilledNotAsleep /\ [Next]_vars => KilledNotAsleep'
  <2> SUFFICES ASSUME SchedInv, KilledNotAsleep, [Next]_vars,
                      NEW p \in UserProcs, killed'[p], state'[p] = "SLEEPING"
               PROVE  \E c \in Cpus : pc'[c] = "alert" /\ target'[c] = p
    BY DEF KilledNotAsleep
  <2> USE ProcsAssumption
  <2>0. /\ p \in Procs /\ p \in Threads /\ TypeOK
        /\ killed[p] /\ state[p] = "SLEEPING" =>
             \E c \in Cpus : pc[c] = "alert" /\ target[c] = p
    BY DEF SchedInv, Threads, KilledNotAsleep
  <2>1. ASSUME killed[p], state[p] = "SLEEPING",
               \A c \in Cpus : pc[c] = "alert" => pc'[c] = pc[c] /\ target'[c] = target[c]
        PROVE  \E c \in Cpus : pc'[c] = "alert" /\ target'[c] = p
    BY <2>0, <2>1
  <2>2. CASE UNCHANGED vars
    BY <2>2, <2>0 DEF vars
  <2>3. ASSUME NEW c \in Cpus, SchedChoose(c)
        PROVE  \E d \in Cpus : pc'[d] = "alert" /\ target'[d] = p
    <3>1. /\ Dispatch(c) /\ pc[c] = "sched" /\ ~StaysOnCpu(c) /\ killed' = killed
          /\ target' = target
      BY <2>3 DEF SchedChoose, Dispatch
    <3> DEFINE st == [state EXCEPT ![thisproc[c]] = new_state[c]]
    <3>2. PICK next \in Procs \cup {c} :
            /\ state' = [st EXCEPT ![next] = "RUNNING"]
            /\ pc' = [pc EXCEPT ![c] = IF next # thisproc[c] THEN "swtch" ELSE "unlock"]
      BY <3>1, DispatchFacts
    <3>3. thisproc[c] \in Threads /\ next \in Threads
      BY <2>0 DEF TypeOK, Threads
    <3>4. st[p] = "SLEEPING"
      BY <3>2, <3>3, <2>0 DEF TypeOK
    <3>5. p # thisproc[c]
      BY <3>1, <3>4, <2>0 DEF StaysOnCpu, TypeOK
    <3>6. state[p] = "SLEEPING" /\ killed[p]
      BY <3>1, <3>4, <3>5, <2>0 DEF TypeOK
    <3>7. \A d \in Cpus : pc[d] = "alert" => pc'[d] = pc[d] /\ target'[d] = target[d]
      BY <3>1, <3>2, <2>0 DEF TypeOK
    <3>. QED BY <3>6, <3>7, <2>1
  <2>4. ASSUME NEW c \in Cpus, SchedKilled(c) \/ swtch(c) \/ release_sched_lock(c) \/ is_unused(c)
        PROVE  \E d \in Cpus : pc'[d] = "alert" /\ target'[d] = p
    <3>1. killed[p] /\ state[p] = "SLEEPING"
      BY <2>4 DEF SchedKilled, swtch, release_sched_lock, is_unused
    <3>2. \A d \in Cpus : pc[d] = "alert" => pc'[d] = pc[d] /\ target'[d] = target[d]
      BY <2>4, <2>0 DEF SchedKilled, swtch, release_sched_lock, is_unused, TypeOK
    <3>. QED BY <3>1, <3>2, <2>1
  <2>5. ASSUME NEW c \in Cpus, SetKilled(c)
        PROVE  \E d \in Cpus : pc'[d] = "alert" /\ target'[d] = p
    <3>1. CASE target[c] = p
      BY <2>5, <3>1, <2>0 DEF SetKilled, TypeOK
    <3>2. CASE target[c] # p
      <4>1. killed[p] /\ state[p] = "SLEEPING"
        BY <2>5, <3>2, <2>0 DEF SetKilled, TypeOK
      <4>2. \A d \in Cpus : pc[d] = "alert" => pc'[d] = pc[d] /\ target'[d] = target[d]
        BY <2>5, <2>0 DEF SetKilled, TypeOK
      <4>. QED BY <4>1, <4>2, <2>1
    <3>. QED BY <3>1, <3>2
  <2>6. ASSUME NEW c \in Cpus, _activate_proc(c)
        PROVE  \E d \in Cpus : pc'[d] = "alert" /\ target'[d] = p
    <3>1. target[c] \in Procs
      BY <2>6 DEF _activate_proc, SchedInv, CallInv, OnTarget
    <3>2. killed[p] /\ state[p] = "SLEEPING"
      BY <2>6, <3>1, <2>0 DEF _activate_proc, TypeOK, Threads
    <3>3. target[c] # p
      BY <2>6, <3>2, <2>0 DEF _activate_proc, Activatable, TypeOK
    <3>4. PICK d \in Cpus : pc[d] = "alert" /\ target[d] = p
      BY <3>2, <2>0
    <3>5. d # c
      BY <3>3, <3>4
    <3>6. pc'[d] = "alert" /\ target'[d] = p
      BY <2>6, <3>4, <3>5, <2>0 DEF _activate_proc, TypeOK
    <3>. QED BY <3>6
  <2>7. ASSUME NEW c \in Cpus, Reap(c)
        PROVE  \E d \in Cpus : pc'[d] = "alert" /\ target'[d] = p
    <3>1. killed[p] /\ state[p] = "SLEEPING"
      BY <2>7, <2>0 DEF Reap, FreeChild, TypeOK
    <3>2. \A d \in Cpus : pc[d] = "alert" => pc'[d] = pc[d] /\ target'[d] = target[d]
      BY <2>7, <2>0 DEF Reap, FreeChild, TypeOK
    <3>. QED BY <3>1, <3>2, <2>1
  <2>8. ASSUME NEW c \in Cpus, Call(c)
        PROVE  \E d \in Cpus : pc'[d] = "alert" /\ target'[d] = p
    <3>1. killed' = killed /\ state' = state /\ pc[c] = "kern"
      BY <2>8 DEF Call, yield, Sleep, exit, CallSched, activate_proc, kill, FoundZombie, CallOn
    <3>2. \A d \in Cpus : d # c => pc'[d] = pc[d] /\ target'[d] = target[d]
      BY <2>8, <2>0 DEF Call, yield, Sleep, exit, CallSched, activate_proc, kill,
                        FoundZombie, CallOn, TypeOK
    <3>. QED BY <3>1, <3>2, <2>1
  <2>. QED BY <2>2, <2>3, <2>4, <2>5, <2>6, <2>7, <2>8 DEF Next, LockStep
<1>. QED BY <1>1, <1>2, SchedInvariant, PTL DEF Spec

\* The scheduler implements the abstract one: a context switch under rqlock is
\* one abstract switch, and a CPU takes its idle thread only when no process is
\* RUNNABLE.
THEOREM SchedRefinement == Spec => ImplementsAbstractSched
<1>1. init_sched => Abs!Init
  BY DEF init_sched, Abs!Init, Threads, Abs!Threads
<1>2. SchedInv /\ [Next]_vars => [Abs!Next]_(Abs!vars)
  <2> SUFFICES ASSUME SchedInv, [Next]_vars
               PROVE  Abs!Next \/ (thisproc' = thisproc /\ state' = state)
    BY DEF Abs!vars
  <2> USE ProcsAssumption
  <2>0. TypeOK
    BY DEF SchedInv
  <2>1. CASE UNCHANGED vars
    BY <2>1 DEF vars
  <2>2. ASSUME NEW c \in Cpus, SchedChoose(c) PROVE Abs!Next
    <3> DEFINE ns == new_state[c]
               st == [state EXCEPT ![thisproc[c]] = ns]
    <3>1. Dispatch(c) /\ pc[c] = "sched"
      BY <2>2 DEF SchedChoose, Dispatch
    <3>2. PICK next \in Procs \cup {c} :
            /\ st[next] = "RUNNABLE"
            /\ next = c => \A p \in Procs : st[p] # "RUNNABLE"
            /\ state' = [st EXCEPT ![next] = "RUNNING"]
            /\ thisproc' = [thisproc EXCEPT ![c] = next]
      BY <3>1, DispatchFacts
    <3>3. /\ ns \in Abs!Asleep \cup {"RUNNABLE", "ZOMBIE"}
          /\ Abs!MayBecome(c, ns)
      BY <3>1 DEF SchedInv, CallInv, CurrentInv, Abs!Asleep, Abs!MayBecome
    <3> HIDE DEF ns, st
    <3>4. next \in Abs!Choices(c, st)
      BY <3>2 DEF Abs!Choices
    <3>5. Abs!Switch(c, ns)
      BY <3>2, <3>3, <3>4 DEF Abs!Switch, st
    <3>. QED BY <3>3, <3>5 DEF Abs!Next
  <2>3. ASSUME NEW c \in Cpus, _activate_proc(c)
        PROVE  Abs!Next \/ (thisproc' = thisproc /\ state' = state)
    <3>1. target[c] \in Procs
      BY <2>3 DEF _activate_proc, SchedInv, CallInv, OnTarget
    <3>. QED BY <2>3, <3>1 DEF _activate_proc, Activatable, Abs!Next, Abs!Wake, Abs!Asleep
  <2>4. ASSUME NEW c \in Cpus, Reap(c) PROVE Abs!Next
    <3>1. target[c] \in Procs /\ state[target[c]] = "ZOMBIE"
      BY <2>4 DEF Reap, FreeChild, SchedInv, CallInv, OnTarget
    <3>. QED BY <2>4, <3>1 DEF Reap, FreeChild, Abs!Next, Abs!Reap
  <2>5. ASSUME NEW c \in Cpus,
               \/ SchedKilled(c) \/ swtch(c) \/ release_sched_lock(c)
               \/ is_unused(c) \/ SetKilled(c) \/ Call(c)
        PROVE  thisproc' = thisproc /\ state' = state
    BY <2>5 DEF SchedKilled, swtch, release_sched_lock, is_unused, SetKilled, Call, yield,
                Sleep, exit, CallSched, activate_proc, kill, FoundZombie, CallOn
  <2>. QED BY <2>1, <2>2, <2>3, <2>4, <2>5 DEF Next, LockStep
<1>. QED BY <1>1, <1>2, SchedInvariant, PTL DEF Spec, ImplementsAbstractSched, Abs!Spec
=============================================================================
