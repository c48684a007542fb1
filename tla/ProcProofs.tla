----------------------------- MODULE ProcProofs -----------------------------
(***************************************************************************)
(* Proofs about the processes of module Proc, for any number of them: the  *)
(* family tree survives every race of fork, exit and wait, a parent's      *)
(* tokens match its exited children, and only three places can deadlock.   *)
(***************************************************************************)
EXTENDS Proc, ListProofs, FiniteSetTheorems, TLAPS

\* Where a process holds its own plock, elock.
PlockPcs == {"scan", "reparent", "adopt", "adopted", "files", "unmap", "post", "posted"}
ElockPcs == {"exit", "reparent", "adopt", "adopted", "files", "close", "post", "posted"}

\* Where root_proc can be.
RootPcs == {"run", "start", "wait", "token", "scan", "free", "kill", "alert"}

\* A structure's state says where its process can be; root_proc never exits.
StateInv ==
    /\ \A p \in Procs :
        /\ state[p] = "FREE" => pc[p] \in {"run", "dead"}
        /\ state[p] = "UNUSED" => pc[p] = "run"
        /\ state[p] = "LIVE" => pc[p] # "dead"
        /\ state[p] = "ZOMBIE" => pc[p] = "dead"
    /\ state[Root] = "LIVE"
    /\ pc[Root] \in RootPcs

\* A process holds a lock exactly between its acquire and its release, and no
\* process takes the plock of another and keeps it.
LockInv ==
    /\ \A p \in Procs : plock[p] = IF pc[p] \in PlockPcs THEN p ELSE None
    /\ \A p \in Procs : elock = p <=> pc[p] \in ElockPcs
    /\ \A p \in Procs : rqlock = p <=> pc[p] = "sched"

\* A process that fork has linked and not started is the forker's alone.
StartInv ==
    /\ \A p \in Procs : pc[p] = "start" => cur[p] \in Procs /\ state[cur[p]] = "UNUSED"
    /\ \A p, q \in Procs : pc[p] = "start" /\ pc[q] = "start" /\ cur[p] = cur[q] => p = q

\* A process in hand is in no list, and in the hands of one process.
HandPcs == {"adopt", "free"}
HandInv ==
    /\ \A p \in Procs : pc[p] \in HandPcs =>
        /\ cur[p] \in Procs \ {Root} /\ state[cur[p]] # "FREE"
        /\ \A q \in Procs : cur[p] \notin Elems(children[q])
    /\ \A p, q \in Procs : pc[p] \in HandPcs /\ pc[q] \in HandPcs /\ cur[p] = cur[q] => p = q
    /\ \A p \in Procs : pc[p] = "adopt" => parent[cur[p]] = Root
    /\ \A p \in Procs : pc[p] = "free" => state[cur[p]] = "ZOMBIE" /\ parent[cur[p]] = p

\* An orphan that an exit has handed over may be reaped by now.
OrphanInv ==
    \A p \in Procs : pc[p] = "adopted" =>
        cur[p] \in Procs /\ (state[cur[p]] = "FREE" => pc[cur[p]] = "dead")

\* No list has a process twice, root_proc is in none, and a scan goes through the
\* list it began with.
ListInv ==
    \A p \in Procs :
        /\ NoDup(children[p])
        /\ Root \notin Elems(children[p])
        /\ pc[p] = "scan" => Elems(rest[p]) \subseteq Elems(children[p])

\* Nobody is its own ancestor: depths can be given to the processes.
Ranked(rank) ==
    /\ rank[Root] = 0
    /\ \A x \in Procs \ {Root} : state[x] # "FREE" => rank[parent[x]] < rank[x]
DepthInv == \E rank \in [Procs -> Nat] : Ranked(rank)

\* TokenPerExit, with the processes that are not started yet.
Gone == Leaving \cup {"reparent", "adopt", "adopted"}
Present(p) == state[p] \in {"UNUSED", "LIVE"} /\ pc[p] \notin Gone
TokensMatch(p) == TokensOf(p) <= Unreaped(p) /\ (p # Root => TokensOf(p) = Unreaped(p))
TokenInv == \A p \in Procs : Present(p) => TokensMatch(p)

ProcInv ==
    /\ TypeOK /\ StateInv /\ LockInv /\ StartInv /\ HandInv /\ OrphanInv
    /\ FamilyTree /\ ListInv /\ DepthInv /\ TokenInv

-----------------------------------------------------------------------------
(* The steps.                                                              *)

\* The steps that leave the states and the tree alone.
Quiet(p) ==
    \/ WaitCheck(p) \/ WaitToken(p) \/ WaitKilled(p) \/ ScanStart(p) \/ ScanSkip(p) \/ ScanNone(p)
    \/ ExitLock(p) \/ ExitPlock(p) \/ ReparentPost(p) \/ ReparentEnd(p) \/ ExitClose(p)
    \/ ExitClosed(p) \/ ExitUnlock(p) \/ ExitRelock(p) \/ ExitPost(p) \/ ExitSched(p) \/ Kill(p)

\* Every step is one of these.
LEMMA Steps ==
  ASSUME Next
  PROVE  \E p \in Procs :
            \/ Quiet(p) \/ (\E q \in Procs : ForkLink(p, q)) \/ ForkStart(p) \/ ScanFound(p)
            \/ WaitFree(p) \/ reparent(p) \/ ReparentInsert(p) \/ ExitZombie(p)
BY DEF Next, Fork, wait, exit, Quiet

\* What a quiet step does.
LEMMA QuietFacts ==
  ASSUME TypeOK, NEW p \in Procs, Quiet(p)
  PROVE  /\ UNCHANGED <<state, parent, children>> /\ state[p] = "LIVE"
         /\ \A q \in Procs \ {p} : pc'[q] = pc[q] /\ cur'[q] = cur[q] /\ rest'[q] = rest[q]
         /\ pc[p] \notin {"start", "adopt", "free", "dead"}
         /\ pc'[p] \notin {"start", "adopt", "free", "adopted", "dead"}
         /\ pc'[p] \in Leaving => pc[p] \in Leaving \/ (pc[p] = "reparent" /\ children[p] = <<>>)
         /\ pc'[p] = "scan" => \/ pc[p] = "token" /\ rest'[p] = children[p]
                               \/ pc[p] = "scan" /\ rest[p] # <<>> /\ rest'[p] = Tail(rest[p])
         /\ p = Root /\ pc[p] \in RootPcs => pc'[p] \in RootPcs
<1>0. /\ pc \in [Procs -> Pcs] /\ cur \in [Procs -> Procs \cup {None}]
      /\ rest \in [Procs -> Seq(Procs)]
  BY DEF TypeOK
<1>1. CASE WaitCheck(p) \/ WaitToken(p) \/ WaitKilled(p)
  BY <1>0, <1>1 DEF WaitCheck, WaitToken, WaitKilled, At, Goto, tree, Leaving, RootPcs
<1>2. CASE ScanStart(p) \/ ScanSkip(p) \/ ScanNone(p)
  BY <1>0, <1>2 DEF ScanStart, ScanSkip, ScanNone, At, Goto, tree, Leaving, RootPcs
<1>3. CASE ExitLock(p) \/ ExitPlock(p) \/ ReparentPost(p) \/ ReparentEnd(p) \/ ExitClose(p)
  BY <1>0, <1>3 DEF ExitLock, ExitPlock, ReparentPost, ReparentEnd, ExitClose, At, Goto, tree,
                    Leaving, RootPcs
<1>4. CASE ExitClosed(p) \/ ExitUnlock(p) \/ ExitRelock(p) \/ ExitPost(p) \/ ExitSched(p)
  BY <1>0, <1>4 DEF ExitClosed, ExitUnlock, ExitRelock, ExitPost, ExitSched, At, Goto, tree,
                    Leaving, RootPcs
<1>5. CASE Kill(p)
  BY <1>0, <1>5 DEF Kill, kill, KillFound, KillNone, KillReturn, At, Goto, tree, Leaving, RootPcs
<1>. QED BY <1>1, <1>2, <1>3, <1>4, <1>5 DEF Quiet

-----------------------------------------------------------------------------
(* Types, states and locks.                                                *)

\* The invariant holds when root_proc is alone.
LEMMA ProcInvInit == init_kproc => ProcInv
<1> SUFFICES ASSUME init_kproc PROVE ProcInv
  OBVIOUS
<1> USE ProcAssumption
<1>1. TypeOK
  BY DEF init_kproc, TypeOK, Pcs
<1>2. StateInv /\ StartInv /\ HandInv /\ OrphanInv
  BY DEF init_kproc, StateInv, StartInv, HandInv, OrphanInv, HandPcs, RootPcs
<1>3. LockInv
  BY DEF init_kproc, LockInv, PlockPcs, ElockPcs
<1>4. \A p \in Procs : Elems(children[p]) = {}
  BY DEF init_kproc, Elems
<1>5. FamilyTree /\ ListInv
  BY <1>4 DEF init_kproc, FamilyTree, ListInv, NoDup
<1>6. DepthInv
  <2>1. [x \in Procs |-> 0] \in [Procs -> Nat] /\ Ranked([x \in Procs |-> 0])
    BY DEF init_kproc, Ranked
  <2>. QED BY <2>1 DEF DepthInv
<1>7. TokenInv
  <2>1. \A p \in Procs : Unreaped(p) = 0
    BY <1>4, FS_EmptySet DEF Unreaped
  <2>2. {q \in Procs : pc[q] = "adopted" /\ Exited(cur[q])} = {}
    BY DEF init_kproc
  <2>3. \A p \in Procs : TokensOf(p) = 0
    <3>1. Cardinality({q \in Procs : pc[q] = "adopted" /\ Exited(cur[q])}) = 0
      BY <2>2, FS_EmptySet
    <3>. QED BY <3>1 DEF init_kproc, TokensOf
  <2>. QED BY <2>1, <2>3 DEF TokenInv, TokensMatch
<1>. QED BY <1>1, <1>2, <1>3, <1>5, <1>6, <1>7 DEF ProcInv

\* The places a process can be at.
LEMMA PcsFacts ==
  /\ "run" \in Pcs /\ "start" \in Pcs /\ "wait" \in Pcs /\ "token" \in Pcs /\ "scan" \in Pcs
  /\ "free" \in Pcs /\ "exit" \in Pcs /\ "reparent" \in Pcs /\ "adopt" \in Pcs
  /\ "adopted" \in Pcs /\ "files" \in Pcs /\ "close" \in Pcs /\ "unmap" \in Pcs
  /\ "post" \in Pcs /\ "posted" \in Pcs /\ "sched" \in Pcs /\ "dead" \in Pcs
  /\ "kill" \in Pcs /\ "alert" \in Pcs
BY DEF Pcs

\* A counter of a process goes up, or down from above zero.
LEMMA CountFacts ==
  ASSUME NEW f \in [Procs -> Nat], NEW p \in Procs
  PROVE  /\ [f EXCEPT ![p] = @ + 1] \in [Procs -> Nat]
         /\ f[p] > 0 => [f EXCEPT ![p] = @ - 1] \in [Procs -> Nat]
OBVIOUS

\* Every step keeps the types.
LEMMA TypeNext ==
  ASSUME ProcInv, [Next]_vars
  PROVE  TypeOK'
<1> USE ProcAssumption, PcsFacts
<1>0. TypeOK
  BY DEF ProcInv
<1>1. CASE UNCHANGED vars
  BY <1>0, <1>1 DEF vars, tree, locks, TypeOK
<1>2. ASSUME NEW p \in Procs, NEW q \in Procs, ForkLink(p, q) PROVE TypeOK'
  <2>1. _insert_into_list(children[p], q) \in Seq(Procs)
    BY <1>0, InsertFacts DEF TypeOK
  <2>2. children' \in [Procs -> Seq(Procs)]
    <3>1. children' = [children EXCEPT ![p] = _insert_into_list(@, q), ![q] = <<>>]
      BY <1>2 DEF ForkLink, set_parent_to_this
    <3>2. children \in [Procs -> Seq(Procs)] /\ <<>> \in Seq(Procs)
      BY <1>0 DEF TypeOK
    <3>3. [children EXCEPT ![p] = _insert_into_list(@, q)] \in [Procs -> Seq(Procs)]
      BY <2>1, <3>2
    <3>. QED BY <3>1, <3>2, <3>3
  <2>3. state' \in [Procs -> {"FREE", "UNUSED", "LIVE", "ZOMBIE"}] /\ pc' \in [Procs -> Pcs]
    BY <1>0, <1>2 DEF ForkLink, init_proc, TypeOK
  <2>. QED BY <1>0, <1>2, <2>2, <2>3 DEF ForkLink, init_proc, set_parent_to_this, TypeOK, locks
<1>3. ASSUME NEW p \in Procs, ForkStart(p) PROVE TypeOK'
  BY <1>0, <1>3 DEF ForkStart, TypeOK, Goto, tree, locks
<1>4. ASSUME NEW p \in Procs, WaitFree(p) PROVE TypeOK'
  BY <1>0, <1>4 DEF WaitFree, TypeOK, Goto, tree, locks
<1>5. ASSUME NEW p \in Procs, ExitZombie(p) PROVE TypeOK'
  BY <1>0, <1>5 DEF ExitZombie, TypeOK, Goto, tree
<1>6. ASSUME NEW p \in Procs, ScanFound(p) PROVE TypeOK'
  <2>1. rest[p] # <<>> /\ Head(rest[p]) \in Procs
    BY <1>0, <1>6 DEF ScanFound, TypeOK
  <2>2. _detach_from_list(children[p], Head(rest[p])) \in Seq(Procs)
    BY <1>0, DetachFacts DEF ProcInv, ListInv, TypeOK
  <2>3. children' \in [Procs -> Seq(Procs)] /\ rest' \in [Procs -> Seq(Procs)]
    <3>1. <<>> \in Seq(Procs)
      OBVIOUS
    <3>. QED BY <1>0, <1>6, <2>2, <3>1 DEF ScanFound, TypeOK
  <2>. QED BY <1>0, <1>6, <2>1, <2>3 DEF ScanFound, TypeOK, Goto
<1>7. ASSUME NEW p \in Procs, reparent(p) PROVE TypeOK'
  <2>1. children[p] # <<>> /\ Head(children[p]) \in Procs
    BY <1>0, <1>7 DEF reparent, TypeOK
  <2>2. _detach_from_list(children[p], Head(children[p])) \in Seq(Procs)
    BY <1>0, DetachFacts DEF ProcInv, ListInv, TypeOK
  <2>. QED BY <1>0, <1>7, <2>1, <2>2 DEF reparent, TypeOK, Goto, locks
<1>8. ASSUME NEW p \in Procs, ReparentInsert(p) PROVE TypeOK'
  <2>1. cur[p] \in Procs
    BY <1>8 DEF ReparentInsert, ProcInv, HandInv, HandPcs, At
  <2>2. _insert_into_list(children[Root], cur[p]) \in Seq(Procs)
    BY <1>0, <2>1, InsertFacts DEF TypeOK
  <2>. QED BY <1>0, <1>8, <2>2 DEF ReparentInsert, TypeOK, Goto, locks
<1>9. ASSUME NEW p \in Procs, WaitCheck(p) PROVE TypeOK'
  BY <1>0, <1>9 DEF WaitCheck, TypeOK, Goto, tree, locks
<1>10. ASSUME NEW p \in Procs, WaitKilled(p) PROVE TypeOK'
  BY <1>0, <1>10 DEF WaitKilled, TypeOK, Goto, tree, locks
<1>11. ASSUME NEW p \in Procs, ScanStart(p) PROVE TypeOK'
  BY <1>0, <1>11 DEF ScanStart, TypeOK, Goto, tree
<1>12. ASSUME NEW p \in Procs, ExitLock(p) PROVE TypeOK'
  BY <1>0, <1>12 DEF ExitLock, TypeOK, Goto, tree
<1>13. ASSUME NEW p \in Procs, ExitPlock(p) PROVE TypeOK'
  BY <1>0, <1>13 DEF ExitPlock, TypeOK, Goto, tree
<1>14. ASSUME NEW p \in Procs, ReparentEnd(p) PROVE TypeOK'
  BY <1>0, <1>14 DEF ReparentEnd, TypeOK, Goto, tree, locks
<1>15. ASSUME NEW p \in Procs, ExitClose(p) PROVE TypeOK'
  BY <1>0, <1>15 DEF ExitClose, TypeOK, Goto, tree
<1>16. ASSUME NEW p \in Procs, ExitClosed(p) PROVE TypeOK'
  BY <1>0, <1>16 DEF ExitClosed, TypeOK, Goto, tree
<1>17. ASSUME NEW p \in Procs, ExitUnlock(p) PROVE TypeOK'
  BY <1>0, <1>17 DEF ExitUnlock, TypeOK, Goto, tree
<1>18. ASSUME NEW p \in Procs, ExitRelock(p) PROVE TypeOK'
  BY <1>0, <1>18 DEF ExitRelock, TypeOK, Goto, tree
<1>19. ASSUME NEW p \in Procs, ExitSched(p) PROVE TypeOK'
  BY <1>0, <1>19 DEF ExitSched, TypeOK, Goto, tree
<1>20. ASSUME NEW p \in Procs, kill(p) PROVE TypeOK'
  BY <1>0, <1>20 DEF kill, TypeOK, Goto, tree, locks
<1>21. ASSUME NEW p \in Procs, KillNone(p) PROVE TypeOK'
  BY <1>0, <1>21 DEF KillNone, TypeOK, Goto, tree, locks
<1>22. ASSUME NEW p \in Procs, KillReturn(p) PROVE TypeOK'
  BY <1>0, <1>22 DEF KillReturn, TypeOK, Goto, tree, locks
<1>23. ASSUME NEW p \in Procs, NEW t \in Procs, KillFound(p, t) PROVE TypeOK'
  BY <1>0, <1>23 DEF KillFound, TypeOK, Goto, tree
<1>24. ASSUME NEW p \in Procs, WaitToken(p) PROVE TypeOK'
  <2>1. childexit' \in [Procs -> Nat]
    BY <1>0, <1>24, CountFacts DEF WaitToken, TypeOK
  <2>. QED BY <1>0, <1>24, <2>1 DEF WaitToken, TypeOK, Goto, tree, locks
<1>25. ASSUME NEW p \in Procs, ScanSkip(p) PROVE TypeOK'
  <2>1. Tail(rest[p]) \in Seq(Procs)
    BY <1>0, <1>25 DEF ScanSkip, TypeOK
  <2>. QED BY <1>0, <1>25, <2>1 DEF ScanSkip, TypeOK, tree, locks
<1>26. ASSUME NEW p \in Procs, ScanNone(p) PROVE TypeOK'
  <2>1. lost' \in [Procs -> Nat]
    BY <1>0, <1>26, CountFacts DEF ScanNone, TypeOK
  <2>. QED BY <1>0, <1>26, <2>1 DEF ScanNone, TypeOK, Goto, tree
<1>27. ASSUME NEW p \in Procs, ReparentPost(p) PROVE TypeOK'
  <2>1. childexit' \in [Procs -> Nat]
    <3>1. childexit \in [Procs -> Nat]
      BY <1>0 DEF TypeOK
    <3>2. childexit' = childexit \/ childexit' = Tokens(Root)
      BY <1>27 DEF ReparentPost
    <3>. QED BY <3>1, <3>2, CountFacts DEF Tokens
  <2>. QED BY <1>0, <1>27, <2>1 DEF ReparentPost, TypeOK, Goto, tree, locks
<1>28. ASSUME NEW p \in Procs, ExitPost(p) PROVE TypeOK'
  <2>1. childexit' \in [Procs -> Nat]
    <3>1. parent[p] \in Procs /\ childexit \in [Procs -> Nat]
      BY <1>0 DEF TypeOK
    <3>. QED BY <1>28, <3>1, CountFacts DEF ExitPost, Tokens
  <2>. QED BY <1>0, <1>28, <2>1 DEF ExitPost, TypeOK, Goto, tree, locks
<1>. QED BY <1>1, <1>2, <1>3, <1>4, <1>5, <1>6, <1>7, <1>8, <1>9, <1>10, <1>11, <1>12, <1>13,
         <1>14, <1>15, <1>16, <1>17, <1>18, <1>19, <1>20, <1>21, <1>22, <1>23, <1>24, <1>25,
         <1>26, <1>27, <1>28, Steps DEF Quiet, Kill

\* Every step keeps the states in line with the places.
LEMMA StateNext ==
  ASSUME ProcInv, [Next]_vars
  PROVE  StateInv'
<1> USE ProcAssumption
<1>0. /\ pc \in [Procs -> Pcs] /\ state \in [Procs -> {"FREE", "UNUSED", "LIVE", "ZOMBIE"}]
      /\ TypeOK /\ StateInv
  BY DEF ProcInv, TypeOK
<1>1. CASE UNCHANGED vars
  BY <1>0, <1>1 DEF vars, StateInv
<1>2. ASSUME NEW p \in Procs, Quiet(p) PROVE StateInv'
  BY <1>0, <1>2, QuietFacts DEF StateInv
<1>3. ASSUME NEW p \in Procs, NEW q \in Procs, ForkLink(p, q) PROVE StateInv'
  BY <1>0, <1>3 DEF ForkLink, init_proc, At, StateInv, RootPcs
<1>4. ASSUME NEW p \in Procs, ForkStart(p) PROVE StateInv'
  <2>1. state[cur[p]] = "UNUSED" /\ cur[p] \in Procs
    BY <1>4 DEF ForkStart, ProcInv, StartInv, At
  <2>. QED BY <1>0, <1>4, <2>1 DEF ForkStart, At, Goto, StateInv, RootPcs
<1>5. ASSUME NEW p \in Procs, WaitFree(p) PROVE StateInv'
  <2>1. state[cur[p]] = "ZOMBIE" /\ cur[p] \in Procs \ {Root}
    BY <1>5 DEF WaitFree, ProcInv, HandInv, HandPcs, At
  <2>. QED BY <1>0, <1>5, <2>1 DEF WaitFree, At, Goto, StateInv, RootPcs
<1>6. ASSUME NEW p \in Procs, ExitZombie(p) PROVE StateInv'
  BY <1>0, <1>6 DEF ExitZombie, At, Goto, StateInv, RootPcs
<1>7. ASSUME NEW p \in Procs, ScanFound(p) \/ reparent(p) \/ ReparentInsert(p) PROVE StateInv'
  BY <1>0, <1>7 DEF ScanFound, reparent, ReparentInsert, At, Goto, StateInv, RootPcs
<1>. QED BY <1>1, <1>2, <1>3, <1>4, <1>5, <1>6, <1>7, Steps

\* Every step keeps the locks with the processes that hold them.
LEMMA LockNext ==
  ASSUME ProcInv, [Next]_vars
  PROVE  LockInv'
<1> USE ProcAssumption DEF PlockPcs, ElockPcs
<1>0. /\ pc \in [Procs -> Pcs] /\ plock \in [Procs -> Procs \cup {None}] /\ LockInv
      /\ \A p \in Procs : state[p] = "FREE" => pc[p] \in {"run", "dead"}
  BY DEF ProcInv, TypeOK, StateInv
<1>1. CASE UNCHANGED vars
  BY <1>0, <1>1 DEF vars, locks, LockInv
<1>2. ASSUME NEW p \in Procs, NEW q \in Procs, ForkLink(p, q) PROVE LockInv'
  BY <1>0, <1>2 DEF ForkLink, init_proc, At, locks, LockInv
<1>3. ASSUME NEW p \in Procs, ForkStart(p) \/ WaitFree(p) \/ reparent(p) \/ ReparentInsert(p)
      PROVE  LockInv'
  BY <1>0, <1>3 DEF ForkStart, WaitFree, reparent, ReparentInsert, At, Goto, locks, LockInv
<1>4. ASSUME NEW p \in Procs, ScanFound(p) \/ ScanStart(p) \/ ScanSkip(p) \/ ScanNone(p)
      PROVE  LockInv'
  BY <1>0, <1>4 DEF ScanFound, ScanStart, ScanSkip, ScanNone, At, Goto, locks, LockInv
<1>5. ASSUME NEW p \in Procs, WaitCheck(p) \/ WaitToken(p) \/ WaitKilled(p) \/ Kill(p)
      PROVE  LockInv'
  BY <1>0, <1>5 DEF WaitCheck, WaitToken, WaitKilled, Kill, kill, KillFound, KillNone, KillReturn,
                    At, Goto, locks, LockInv
<1>6. ASSUME NEW p \in Procs, ExitLock(p) \/ ExitPlock(p) \/ ExitClose(p) \/ ExitClosed(p)
      PROVE  LockInv'
  BY <1>0, <1>6 DEF ExitLock, ExitPlock, ExitClose, ExitClosed, At, Goto, LockInv
<1>7. ASSUME NEW p \in Procs, ReparentPost(p) \/ ReparentEnd(p) \/ ExitPost(p) PROVE LockInv'
  BY <1>0, <1>7 DEF ReparentPost, ReparentEnd, ExitPost, At, Goto, locks, LockInv
<1>8. ASSUME NEW p \in Procs, ExitUnlock(p) \/ ExitRelock(p) PROVE LockInv'
  BY <1>0, <1>8 DEF ExitUnlock, ExitRelock, At, Goto, LockInv
<1>9. ASSUME NEW p \in Procs, ExitSched(p) \/ ExitZombie(p) PROVE LockInv'
  BY <1>0, <1>9 DEF ExitSched, ExitZombie, At, Goto, LockInv
<1>. QED BY <1>1, <1>2, <1>3, <1>4, <1>5, <1>6, <1>7, <1>8, <1>9, Steps DEF Quiet

\* Every step keeps a process that is not started with its forker.
LEMMA StartNext ==
  ASSUME ProcInv, [Next]_vars
  PROVE  StartInv'
<1> USE ProcAssumption
<1>0. /\ pc \in [Procs -> Pcs] /\ state \in [Procs -> {"FREE", "UNUSED", "LIVE", "ZOMBIE"}]
      /\ cur \in [Procs -> Procs \cup {None}] /\ TypeOK /\ StateInv /\ StartInv
  BY DEF ProcInv, TypeOK
<1>1. CASE UNCHANGED vars
  BY <1>0, <1>1 DEF vars, StartInv
<1>2. ASSUME NEW p \in Procs, Quiet(p) PROVE StartInv'
  BY <1>0, <1>2, QuietFacts DEF StartInv
<1>3. ASSUME NEW p \in Procs, NEW q \in Procs, ForkLink(p, q) PROVE StartInv'
  BY <1>0, <1>3 DEF ForkLink, init_proc, At, StartInv
<1>4. ASSUME NEW p \in Procs, ForkStart(p) PROVE StartInv'
  BY <1>0, <1>4 DEF ForkStart, At, Goto, StartInv
<1>5. ASSUME NEW p \in Procs, WaitFree(p) PROVE StartInv'
  <2>1. state[cur[p]] = "ZOMBIE"
    BY <1>5 DEF WaitFree, ProcInv, HandInv, At
  <2>. QED BY <1>0, <1>5, <2>1 DEF WaitFree, At, Goto, StartInv
<1>6. ASSUME NEW p \in Procs, ExitZombie(p) PROVE StartInv'
  BY <1>0, <1>6 DEF ExitZombie, At, Goto, StartInv
<1>7. ASSUME NEW p \in Procs, ScanFound(p) \/ reparent(p) \/ ReparentInsert(p) PROVE StartInv'
  BY <1>0, <1>7 DEF ScanFound, reparent, ReparentInsert, At, Goto, StartInv
<1>. QED BY <1>1, <1>2, <1>3, <1>4, <1>5, <1>6, <1>7, Steps

\* Every step keeps the orphans that are handed over.
LEMMA OrphanNext ==
  ASSUME ProcInv, [Next]_vars
  PROVE  OrphanInv'
<1> USE ProcAssumption
<1>0. /\ pc \in [Procs -> Pcs] /\ state \in [Procs -> {"FREE", "UNUSED", "LIVE", "ZOMBIE"}]
      /\ cur \in [Procs -> Procs \cup {None}] /\ TypeOK /\ StateInv /\ OrphanInv
  BY DEF ProcInv, TypeOK
<1>1. CASE UNCHANGED vars
  BY <1>0, <1>1 DEF vars, OrphanInv
<1>2. ASSUME NEW p \in Procs, Quiet(p) PROVE OrphanInv'
  BY <1>0, <1>2, QuietFacts DEF OrphanInv
<1>3. ASSUME NEW p \in Procs, NEW q \in Procs, ForkLink(p, q) PROVE OrphanInv'
  BY <1>0, <1>3 DEF ForkLink, init_proc, At, OrphanInv
<1>4. ASSUME NEW p \in Procs, ForkStart(p) PROVE OrphanInv'
  <2>1. state[cur[p]] = "UNUSED" /\ cur[p] \in Procs
    BY <1>4 DEF ForkStart, ProcInv, StartInv, At
  <2>. QED BY <1>0, <1>4, <2>1 DEF ForkStart, At, Goto, OrphanInv
<1>5. ASSUME NEW p \in Procs, WaitFree(p) PROVE OrphanInv'
  <2>1. state[cur[p]] = "ZOMBIE" /\ cur[p] \in Procs
    BY <1>5 DEF WaitFree, ProcInv, HandInv, HandPcs, At
  <2>2. pc[cur[p]] = "dead" /\ cur[p] # p
    BY <1>0, <1>5, <2>1 DEF StateInv, WaitFree, At
  <2>. QED BY <1>0, <1>5, <2>1, <2>2 DEF WaitFree, At, Goto, OrphanInv
<1>6. ASSUME NEW p \in Procs, ExitZombie(p) PROVE OrphanInv'
  BY <1>0, <1>6 DEF ExitZombie, At, Goto, OrphanInv
<1>7. ASSUME NEW p \in Procs, ScanFound(p) \/ reparent(p) PROVE OrphanInv'
  BY <1>0, <1>7 DEF ScanFound, reparent, At, Goto, OrphanInv
<1>8. ASSUME NEW p \in Procs, ReparentInsert(p) PROVE OrphanInv'
  <2>1. cur[p] \in Procs /\ state[cur[p]] # "FREE"
    BY <1>8 DEF ReparentInsert, ProcInv, HandInv, HandPcs, At
  <2>. QED BY <1>0, <1>8, <2>1 DEF ReparentInsert, At, Goto, OrphanInv
<1>. QED BY <1>1, <1>2, <1>3, <1>4, <1>5, <1>6, <1>7, <1>8, Steps

-----------------------------------------------------------------------------
(* The lists of children.                                                  *)

\* A fork puts the new process into its parent's list.
LEMMA ForkFacts ==
  ASSUME ProcInv, NEW p \in Procs, NEW q \in Procs, ForkLink(p, q)
  PROVE  /\ p # q /\ q # Root /\ state[p] = "LIVE" /\ state[q] = "FREE" /\ state'[q] = "UNUSED"
         /\ pc[p] = "run" /\ pc'[p] = "start" /\ pc'[q] = "run" /\ cur'[p] = q
         /\ parent'[q] = p
         /\ Elems(children'[p]) = Elems(children[p]) \cup {q} /\ Elems(children'[q]) = {}
         /\ NoDup(children'[p]) /\ NoDup(children'[q])
         /\ \A r \in Procs \ {q} : state'[r] = state[r] /\ parent'[r] = parent[r]
         /\ \A r \in Procs \ {p} : cur'[r] = cur[r]
         /\ \A r \in Procs \ {p, q} : children'[r] = children[r] /\ pc'[r] = pc[r]
         /\ rest' = rest
<1>0. TypeOK /\ StateInv /\ FamilyTree /\ ListInv
  BY DEF ProcInv
<1>1. /\ state \in [Procs -> {"FREE", "UNUSED", "LIVE", "ZOMBIE"}] /\ pc \in [Procs -> Pcs]
      /\ cur \in [Procs -> Procs \cup {None}] /\ parent \in [Procs -> Procs]
      /\ children \in [Procs -> Seq(Procs)]
  BY <1>0 DEF TypeOK
<1>2. p # q /\ q # Root /\ state[q] = "FREE" /\ q \notin Elems(children[p])
  BY <1>0 DEF ForkLink, init_proc, At, StateInv, FamilyTree
<1>3. children' = [children EXCEPT ![p] = _insert_into_list(@, q), ![q] = <<>>]
  BY DEF ForkLink, set_parent_to_this
<1>4. /\ children'[p] = _insert_into_list(children[p], q) /\ children'[q] = <<>>
      /\ \A r \in Procs \ {p, q} : children'[r] = children[r]
  BY <1>1, <1>2, <1>3
<1>5. Elems(children'[p]) = Elems(children[p]) \cup {q} /\ NoDup(children'[p])
  BY <1>0, <1>1, <1>2, <1>4, InsertFacts DEF ListInv
<1>6. Elems(children'[q]) = {} /\ NoDup(children'[q])
  BY <1>4 DEF Elems, NoDup
<1>. QED BY <1>1, <1>2, <1>4, <1>5, <1>6 DEF ForkLink, init_proc, set_parent_to_this, At

\* A wait takes a zombie out of the caller's list.
LEMMA FoundFacts ==
  ASSUME ProcInv, NEW p \in Procs, ScanFound(p)
  PROVE  /\ cur'[p] \in Elems(children[p]) /\ state[cur'[p]] = "ZOMBIE" /\ state[p] = "LIVE"
         /\ pc[p] = "scan" /\ pc'[p] = "free" /\ UNCHANGED <<state, parent, childexit, lost>>
         /\ Elems(children'[p]) = Elems(children[p]) \ {cur'[p]} /\ NoDup(children'[p])
         /\ \A r \in Procs \ {p} : /\ children'[r] = children[r] /\ pc'[r] = pc[r]
                                   /\ cur'[r] = cur[r] /\ rest'[r] = rest[r]
<1>0. TypeOK /\ ListInv
  BY DEF ProcInv
<1>1. /\ pc \in [Procs -> Pcs] /\ cur \in [Procs -> Procs \cup {None}]
      /\ children \in [Procs -> Seq(Procs)] /\ rest \in [Procs -> Seq(Procs)]
  BY <1>0 DEF TypeOK
<1>2. Head(rest[p]) \in Elems(rest[p])
  BY <1>1, HeadTailFacts DEF ScanFound
<1>3. Head(rest[p]) \in Elems(children[p]) /\ NoDup(children[p])
  BY <1>0, <1>2 DEF ScanFound, At, ListInv
<1>4. cur'[p] = Head(rest[p]) /\ children'[p] = _detach_from_list(children[p], cur'[p])
  BY <1>1 DEF ScanFound
<1>5. Elems(children'[p]) = Elems(children[p]) \ {cur'[p]} /\ NoDup(children'[p])
  BY <1>1, <1>3, <1>4, DetachFacts
<1>. QED BY <1>1, <1>3, <1>4, <1>5 DEF ScanFound, At, Goto

\* An exit takes a child out of its list, for root_proc.
LEMMA ReparentFacts ==
  ASSUME ProcInv, NEW p \in Procs, reparent(p)
  PROVE  /\ cur'[p] \in Elems(children[p]) /\ cur'[p] \in Procs /\ parent'[cur'[p]] = Root
         /\ state[p] = "LIVE" /\ pc[p] = "reparent" /\ pc'[p] = "adopt"
         /\ UNCHANGED <<state, childexit, lost, rest>>
         /\ Elems(children'[p]) = Elems(children[p]) \ {cur'[p]} /\ NoDup(children'[p])
         /\ \A r \in Procs \ {p} : /\ children'[r] = children[r] /\ pc'[r] = pc[r]
                                   /\ cur'[r] = cur[r]
         /\ \A r \in Procs \ {cur'[p]} : parent'[r] = parent[r]
<1>0. TypeOK /\ ListInv
  BY DEF ProcInv
<1>1. /\ pc \in [Procs -> Pcs] /\ cur \in [Procs -> Procs \cup {None}]
      /\ children \in [Procs -> Seq(Procs)] /\ parent \in [Procs -> Procs]
  BY <1>0 DEF TypeOK
<1>2. Head(children[p]) \in Elems(children[p]) /\ Head(children[p]) \in Procs
  BY <1>1, HeadTailFacts DEF reparent
<1>3. NoDup(children[p])
  BY <1>0 DEF ListInv
<1>4. cur'[p] = Head(children[p]) /\ children'[p] = _detach_from_list(children[p], cur'[p])
  BY <1>1 DEF reparent
<1>5. Elems(children'[p]) = Elems(children[p]) \ {cur'[p]} /\ NoDup(children'[p])
  BY <1>1, <1>3, <1>4, DetachFacts
<1>. QED BY <1>1, <1>2, <1>4, <1>5 DEF reparent, At, Goto

\* ... and puts it into root_proc's.
LEMMA AdoptFacts ==
  ASSUME ProcInv, NEW p \in Procs, ReparentInsert(p)
  PROVE  /\ p # Root /\ state[p] = "LIVE" /\ pc[p] = "adopt" /\ pc'[p] = "adopted"
         /\ cur[p] \in Procs \ {Root} /\ state[cur[p]] # "FREE" /\ parent[cur[p]] = Root
         /\ cur[p] \notin Elems(children[Root])
         /\ UNCHANGED <<state, parent, childexit, lost, rest, cur>> /\ plock[Root] = None
         /\ Elems(children'[Root]) = Elems(children[Root]) \cup {cur[p]} /\ NoDup(children'[Root])
         /\ \A r \in Procs \ {Root} : children'[r] = children[r]
         /\ \A r \in Procs \ {p} : pc'[r] = pc[r]
<1>0. TypeOK /\ ListInv /\ HandInv /\ StateInv
  BY DEF ProcInv
<1>1. /\ pc \in [Procs -> Pcs] /\ children \in [Procs -> Seq(Procs)] /\ Root \in Procs
  BY <1>0, ProcAssumption DEF TypeOK
<1>2. /\ cur[p] \in Procs \ {Root} /\ state[cur[p]] # "FREE" /\ parent[cur[p]] = Root
      /\ cur[p] \notin Elems(children[Root]) /\ p # Root
  BY <1>0, <1>1 DEF ReparentInsert, At, HandInv, HandPcs, StateInv, RootPcs
<1>3. children'[Root] = _insert_into_list(children[Root], cur[p]) /\ NoDup(children[Root])
  BY <1>0, <1>1 DEF ReparentInsert, ListInv
<1>4. Elems(children'[Root]) = Elems(children[Root]) \cup {cur[p]} /\ NoDup(children'[Root])
  <2>1. children[Root] \in Seq(Procs) /\ cur[p] \in Procs
    BY <1>1, <1>2
  <2>2. \A q \in Seq(Procs), x \in Procs :
          /\ Elems(_insert_into_list(q, x)) = Elems(q) \cup {x}
          /\ NoDup(q) /\ x \notin Elems(q) => NoDup(_insert_into_list(q, x))
    BY InsertFacts
  <2>. QED BY <1>2, <1>3, <2>1, <2>2
<1>. QED BY <1>1, <1>2, <1>4 DEF ReparentInsert, At, Goto

\* The steps that change states and not the tree.
LEMMA StateFacts ==
  ASSUME ProcInv, NEW p \in Procs, ForkStart(p) \/ WaitFree(p) \/ ExitZombie(p)
  PROVE  /\ UNCHANGED <<parent, children, rest, childexit, lost>>
         /\ \A r \in Procs \ {p} : pc'[r] = pc[r] /\ cur'[r] = cur[r]
         /\ state[p] = "LIVE"
         /\ \/ /\ pc[p] = "start" /\ pc'[p] = "run" /\ cur[p] \in Procs
               /\ state[cur[p]] = "UNUSED" /\ state' = [state EXCEPT ![cur[p]] = "LIVE"]
            \/ /\ pc[p] = "free" /\ pc'[p] = "run" /\ cur[p] \in Procs \ {Root}
               /\ state[cur[p]] = "ZOMBIE" /\ state' = [state EXCEPT ![cur[p]] = "FREE"]
            \/ /\ pc[p] = "sched" /\ pc'[p] = "dead" /\ p # Root
               /\ state' = [state EXCEPT ![p] = "ZOMBIE"]
<1>1. /\ pc \in [Procs -> Pcs] /\ cur \in [Procs -> Procs \cup {None}] /\ StateInv
  BY DEF ProcInv, TypeOK
<1>2. CASE ForkStart(p)
  <2>1. cur[p] \in Procs /\ state[cur[p]] = "UNUSED"
    BY <1>2 DEF ForkStart, At, ProcInv, StartInv
  <2>. QED BY <1>1, <1>2, <2>1 DEF ForkStart, At, Goto, tree
<1>3. CASE WaitFree(p)
  <2>1. cur[p] \in Procs \ {Root} /\ state[cur[p]] = "ZOMBIE"
    BY <1>3 DEF WaitFree, At, ProcInv, HandInv, HandPcs
  <2>. QED BY <1>1, <1>3, <2>1 DEF WaitFree, At, Goto, tree
<1>4. CASE ExitZombie(p)
  BY <1>1, <1>4 DEF ExitZombie, At, Goto, tree, StateInv, RootPcs
<1>. QED BY <1>2, <1>3, <1>4

\* Every step keeps the lists without duplicates, and the scans in them.
LEMMA ListNext ==
  ASSUME ProcInv, [Next]_vars
  PROVE  ListInv'
<1> USE ProcAssumption
<1>0. TypeOK /\ ListInv /\ LockInv
  BY DEF ProcInv
<1>1. CASE UNCHANGED vars
  BY <1>0, <1>1 DEF vars, tree, ListInv
<1>2. ASSUME NEW p \in Procs, Quiet(p) PROVE ListInv'
  <2>1. pc'[p] = "scan" => Elems(rest'[p]) \subseteq Elems(children'[p])
    <3>1. CASE pc[p] = "token" /\ rest'[p] = children[p]
      BY <1>0, <1>2, <3>1, QuietFacts
    <3>2. CASE pc[p] = "scan" /\ rest[p] # <<>> /\ rest'[p] = Tail(rest[p])
      <4>1. Elems(rest'[p]) \subseteq Elems(rest[p])
        BY <1>0, <3>2, HeadTailFacts DEF TypeOK
      <4>. QED BY <1>0, <1>2, <3>2, <4>1, QuietFacts DEF ListInv
    <3>. QED BY <1>0, <1>2, <3>1, <3>2, QuietFacts
  <2>. QED BY <1>0, <1>2, <2>1, QuietFacts DEF ListInv
<1>3. ASSUME NEW p \in Procs, NEW q \in Procs, ForkLink(p, q) PROVE ListInv'
  BY <1>0, <1>3, ForkFacts DEF ListInv
<1>4. ASSUME NEW p \in Procs, ForkStart(p) \/ WaitFree(p) \/ ExitZombie(p) PROVE ListInv'
  BY <1>0, <1>4, StateFacts DEF ListInv
<1>5. ASSUME NEW p \in Procs, ScanFound(p) PROVE ListInv'
  BY <1>0, <1>5, FoundFacts DEF ListInv
<1>6. ASSUME NEW p \in Procs, reparent(p) PROVE ListInv'
  BY <1>0, <1>6, ReparentFacts DEF ListInv
<1>7. ASSUME NEW p \in Procs, ReparentInsert(p) PROVE ListInv'
  <2>1. pc'[Root] # "scan"
    BY <1>0, <1>7, AdoptFacts DEF LockInv, PlockPcs
  <2>. QED BY <1>0, <1>7, <2>1, AdoptFacts DEF ListInv
<1>. QED BY <1>1, <1>2, <1>3, <1>4, <1>5, <1>6, <1>7, Steps

-----------------------------------------------------------------------------
(* The family tree.                                                        *)

\* A process in a list is in one only and is not in hand.
LEMMA ListedFacts ==
  ASSUME ProcInv, NEW p \in Procs, NEW x \in Elems(children[p])
  PROVE  /\ x \in Procs \ {Root} /\ state[x] # "FREE" /\ parent[x] = p
         /\ state[p] = "LIVE" /\ pc[p] \notin Leaving
         /\ \A q \in Procs : pc[q] \in HandPcs => cur[q] # x
         /\ \A q \in Procs : x \in Elems(children[q]) <=> q = p
<1>1. x \in Procs \ {Root}
  BY DEF ProcInv, ListInv, TypeOK, Elems
<1>2. ASSUME NEW q \in Procs, pc[q] \in HandPcs PROVE cur[q] # x
  BY <1>2 DEF ProcInv, HandInv
<1>3. state[x] # "FREE" /\ ~InHand(x)
  BY <1>1, <1>2 DEF ProcInv, FamilyTree, InHand, HandPcs
<1>. QED BY <1>1, <1>2, <1>3 DEF ProcInv, FamilyTree

\* Every step keeps the processes in hand out of the lists.
LEMMA HandNext ==
  ASSUME ProcInv, [Next]_vars
  PROVE  HandInv'
<1> USE ProcAssumption
<1>0. TypeOK /\ StateInv /\ HandInv /\ StartInv
  BY DEF ProcInv
<1>1. CASE UNCHANGED vars
  BY <1>0, <1>1 DEF vars, tree, HandInv
<1>2. ASSUME NEW p \in Procs, Quiet(p) PROVE HandInv'
  BY <1>0, <1>2, QuietFacts DEF HandInv, HandPcs
<1>3. ASSUME NEW p \in Procs, NEW q \in Procs, ForkLink(p, q) PROVE HandInv'
  <2>1. \A r \in Procs : pc'[r] \in HandPcs => /\ r \notin {p, q} /\ pc[r] = pc'[r]
                                               /\ cur'[r] = cur[r] /\ cur[r] # q
    BY <1>0, <1>3, ForkFacts DEF HandInv, HandPcs
  <2>2. \A r, s \in Procs : pc'[r] \in HandPcs => cur'[r] \notin Elems(children'[s])
    BY <1>0, <1>3, <2>1, ForkFacts DEF HandInv
  <2>3. \A r \in Procs : pc'[r] \in HandPcs =>
            /\ cur'[r] \in Procs \ {Root}
            /\ state'[cur'[r]] = state[cur[r]] /\ parent'[cur'[r]] = parent[cur[r]]
    BY <1>0, <1>3, <2>1, ForkFacts DEF HandInv
  <2>. QED BY <1>0, <2>1, <2>2, <2>3 DEF HandInv, HandPcs
<1>4. ASSUME NEW p \in Procs, ForkStart(p) \/ WaitFree(p) \/ ExitZombie(p) PROVE HandInv'
  <2>1. \A r \in Procs : pc'[r] \in HandPcs => /\ r # p /\ pc[r] = pc'[r] /\ cur'[r] = cur[r]
    BY <1>0, <1>4, StateFacts DEF HandPcs
  <2>2. ASSUME NEW r \in Procs, pc'[r] \in HandPcs
        PROVE  /\ state'[cur[r]] # "FREE"
               /\ state[cur[r]] = "ZOMBIE" => state'[cur[r]] = "ZOMBIE"
    <3>1. /\ r # p /\ pc[r] \in HandPcs /\ state[cur[r]] # "FREE" /\ cur[r] \in Procs
          /\ pc[p] = "free" => cur[r] # cur[p]
      BY <1>0, <2>1, <2>2 DEF HandInv, HandPcs
    <3>2. state \in [Procs -> {"FREE", "UNUSED", "LIVE", "ZOMBIE"}]
      BY <1>0 DEF TypeOK
    <3>. QED BY <1>4, <3>1, <3>2, StateFacts
  <2>. QED BY <1>0, <1>4, <2>1, <2>2, StateFacts DEF HandInv, HandPcs
<1>5. ASSUME NEW p \in Procs, ScanFound(p) PROVE HandInv'
  <2> DEFINE x == cur'[p]
  <2>1. /\ x \in Procs \ {Root} /\ state[x] # "FREE" /\ parent[x] = p
        /\ \A q \in Procs : pc[q] \in HandPcs => cur[q] # x
        /\ \A q \in Procs : x \in Elems(children[q]) <=> q = p
    BY <1>5, FoundFacts, ListedFacts
  <2>2. \A r \in Procs : /\ Elems(children'[r]) \subseteq Elems(children[r])
                         /\ x \notin Elems(children'[r])
    BY <1>5, <2>1, FoundFacts
  <2>. QED BY <1>0, <1>5, <2>1, <2>2, FoundFacts DEF HandInv, HandPcs
<1>6. ASSUME NEW p \in Procs, reparent(p) PROVE HandInv'
  <2> DEFINE x == cur'[p]
  <2>1. /\ x \in Procs \ {Root} /\ state[x] # "FREE"
        /\ \A q \in Procs : pc[q] \in HandPcs => cur[q] # x
        /\ \A q \in Procs : x \in Elems(children[q]) <=> q = p
    BY <1>6, ReparentFacts, ListedFacts
  <2>2. \A r \in Procs : /\ Elems(children'[r]) \subseteq Elems(children[r])
                         /\ x \notin Elems(children'[r])
    BY <1>6, <2>1, ReparentFacts
  <2>. QED BY <1>0, <1>6, <2>1, <2>2, ReparentFacts DEF HandInv, HandPcs
<1>7. ASSUME NEW p \in Procs, ReparentInsert(p) PROVE HandInv'
  <2>1. \A r \in Procs : pc'[r] \in HandPcs => /\ r # p /\ pc[r] = pc'[r] /\ cur[r] # cur[p]
    BY <1>0, <1>7, AdoptFacts DEF HandInv, HandPcs
  <2>. QED BY <1>0, <1>7, <2>1, AdoptFacts DEF HandInv
<1>. QED BY <1>1, <1>2, <1>3, <1>4, <1>5, <1>6, <1>7, Steps

\* Every step keeps the family tree.
LEMMA TreeNext ==
  ASSUME ProcInv, [Next]_vars
  PROVE  FamilyTree'
<1> USE ProcAssumption
<1>0. TypeOK /\ StateInv /\ HandInv /\ StartInv /\ FamilyTree
  BY DEF ProcInv
<1>t. /\ state \in [Procs -> {"FREE", "UNUSED", "LIVE", "ZOMBIE"}] /\ parent \in [Procs -> Procs]
  BY <1>0 DEF TypeOK
<1>1. CASE UNCHANGED vars
  BY <1>0, <1>1 DEF vars, tree, FamilyTree, InHand
<1>2. ASSUME NEW p \in Procs, Quiet(p) PROVE FamilyTree'
  <2>1. \A x \in Procs : InHand(x)' <=> InHand(x)
    BY <1>0, <1>2, QuietFacts DEF InHand
  <2>2. pc'[p] \in Leaving /\ pc[p] \notin Leaving => Elems(children[p]) = {}
    BY <1>0, <1>2, QuietFacts DEF Elems
  <2>3. ASSUME NEW x \in Procs \ {Root}, state[x] # "FREE", ~InHand(x)
        PROVE  pc'[parent[x]] \notin Leaving
    <3>1. x \in Elems(children[parent[x]]) /\ pc[parent[x]] \notin Leaving /\ parent[x] \in Procs
      BY <1>0, <1>t, <2>3 DEF FamilyTree
    <3>. QED BY <1>0, <1>2, <2>2, <3>1, QuietFacts
  <2>. QED BY <1>0, <1>2, <2>1, <2>3, QuietFacts DEF FamilyTree
<1>3. ASSUME NEW p \in Procs, NEW q \in Procs, ForkLink(p, q) PROVE FamilyTree'
  <2>1. \A x \in Procs : InHand(x)' <=> InHand(x)
    BY <1>0, <1>3, ForkFacts DEF InHand, StateInv
  <2>2. ~InHand(q) /\ \A r \in Procs : q \notin Elems(children[r])
    BY <1>0, <1>3, ForkFacts DEF InHand, HandInv, HandPcs, FamilyTree
  <2>3. ASSUME NEW x \in Procs \ {Root}
        PROVE  /\ state'[x] = "FREE" => \A r \in Procs : x \notin Elems(children'[r])
               /\ state'[x] # "FREE" /\ ~InHand(x)' =>
                   /\ \A r \in Procs : x \in Elems(children'[r]) <=> r = parent'[x]
                   /\ state'[parent'[x]] = "LIVE" /\ pc'[parent'[x]] \notin Leaving
    <3>1. CASE x = q
      BY <1>3, <2>2, <3>1, ForkFacts DEF Leaving
    <3>2. CASE x # q
      <4>1. state'[x] = state[x] /\ parent'[x] = parent[x] /\ parent[x] \in Procs
        BY <1>3, <1>t, <3>2, ForkFacts
      <4>2. \A r \in Procs : x \in Elems(children'[r]) <=> r # q /\ x \in Elems(children[r])
        BY <1>3, <3>2, ForkFacts
      <4>3. CASE state[x] = "FREE"
        BY <1>0, <4>1, <4>2, <4>3 DEF FamilyTree
      <4>4. CASE state[x] # "FREE" /\ ~InHand(x)
        <5>1. parent[x] # q /\ state[parent[x]] = "LIVE" /\ pc[parent[x]] \notin Leaving
          BY <1>0, <1>3, <4>4, ForkFacts DEF FamilyTree
        <5>2. state'[parent[x]] = "LIVE" /\ pc'[parent[x]] \notin Leaving
          BY <1>3, <4>1, <5>1, ForkFacts DEF Leaving
        <5>. QED BY <1>0, <4>1, <4>2, <4>4, <5>1, <5>2 DEF FamilyTree
      <4>. QED BY <2>1, <4>1, <4>3, <4>4
    <3>. QED BY <3>1, <3>2
  <2>. QED BY <2>3 DEF FamilyTree
<1>4. ASSUME NEW p \in Procs, ForkStart(p) \/ WaitFree(p) \/ ExitZombie(p) PROVE FamilyTree'
  <2>1. \A x \in Procs : InHand(x) => InHand(x)' \/ (pc[p] = "free" /\ x = cur[p])
    BY <1>0, <1>4, StateFacts DEF InHand
  <2>2. pc[p] = "free" => /\ \A r \in Procs : cur[p] \notin Elems(children[r])
                          /\ cur[p] \in Procs \ {Root} /\ state'[cur[p]] = "FREE"
    BY <1>0, <1>t, <1>4, StateFacts DEF HandInv, HandPcs
  <2>3. ASSUME NEW x \in Procs \ {Root}
        PROVE  /\ state'[x] = "FREE" => \A r \in Procs : x \notin Elems(children'[r])
               /\ state'[x] # "FREE" /\ ~InHand(x)' =>
                   /\ \A r \in Procs : x \in Elems(children'[r]) <=> r = parent'[x]
                   /\ state'[parent'[x]] = "LIVE" /\ pc'[parent'[x]] \notin Leaving
    <3>1. children' = children /\ parent' = parent /\ parent[x] \in Procs
      BY <1>t, <1>4, StateFacts
    <3>2. state'[x] = "FREE" => state[x] = "FREE" \/ (pc[p] = "free" /\ x = cur[p])
      BY <1>t, <1>4, StateFacts
    <3>3. ASSUME state'[x] # "FREE", ~InHand(x)'
          PROVE  state[x] # "FREE" /\ ~InHand(x)
      BY <1>t, <1>4, <2>1, <2>2, <3>3, StateFacts
    <3>4. ASSUME state[parent[x]] = "LIVE", pc[parent[x]] \notin Leaving
          PROVE  state'[parent[x]] = "LIVE" /\ pc'[parent[x]] \notin Leaving
      BY <1>t, <1>4, <3>1, <3>4, StateFacts DEF Leaving
    <3>. QED BY <1>0, <2>2, <3>1, <3>2, <3>3, <3>4 DEF FamilyTree
  <2>. QED BY <2>3 DEF FamilyTree
<1>5. ASSUME NEW p \in Procs, ScanFound(p) PROVE FamilyTree'
  <2>0. PICK x \in Elems(children[p]) : x = cur'[p] /\ pc'[p] \in {"adopt", "free"}
    BY <1>5, FoundFacts
  <2>1. x \in Procs \ {Root} /\ state[x] # "FREE" /\ InHand(x)'
    BY <2>0, ListedFacts DEF InHand
  <2>2. \A y \in Procs \ {x} : InHand(y)' <=> InHand(y)
    BY <1>5, <2>0, FoundFacts DEF InHand
  <2>3. \A y \in Procs \ {x}, r \in Procs : y \in Elems(children'[r]) <=> y \in Elems(children[r])
    BY <1>5, <2>0, FoundFacts
  <2>4. \A r \in Procs : pc[r] \notin Leaving => pc'[r] \notin Leaving
    BY <1>5, <2>0, FoundFacts DEF Leaving
  <2>5. UNCHANGED <<state, parent>>
    BY <1>5, <2>0, FoundFacts
  <2>6. ASSUME NEW y \in Procs \ {Root}
        PROVE  /\ state'[y] = "FREE" => \A r \in Procs : y \notin Elems(children'[r])
               /\ state'[y] # "FREE" /\ ~InHand(y)' =>
                   /\ \A r \in Procs : y \in Elems(children'[r]) <=> r = parent'[y]
                   /\ state'[parent'[y]] = "LIVE" /\ pc'[parent'[y]] \notin Leaving
    <3>1. CASE y = x
      BY <2>1, <2>5, <3>1
    <3>2. CASE y # x
      BY <1>0, <1>t, <2>2, <2>3, <2>4, <2>5, <3>2 DEF FamilyTree
    <3>. QED BY <3>1, <3>2
  <2>. QED BY <2>6 DEF FamilyTree
<1>6. ASSUME NEW p \in Procs, reparent(p) PROVE FamilyTree'
  <2>0. PICK x \in Elems(children[p]) : x = cur'[p] /\ pc'[p] \in {"adopt", "free"}
    BY <1>6, ReparentFacts
  <2>1. x \in Procs \ {Root} /\ state[x] # "FREE" /\ InHand(x)'
    BY <2>0, ListedFacts DEF InHand
  <2>2. \A y \in Procs \ {x} : InHand(y)' <=> InHand(y)
    BY <1>6, <2>0, ReparentFacts DEF InHand
  <2>3. \A y \in Procs \ {x}, r \in Procs : y \in Elems(children'[r]) <=> y \in Elems(children[r])
    BY <1>6, <2>0, ReparentFacts
  <2>4. \A r \in Procs : pc[r] \notin Leaving => pc'[r] \notin Leaving
    BY <1>6, <2>0, ReparentFacts DEF Leaving
  <2>5. state' = state /\ \A y \in Procs \ {x} : parent'[y] = parent[y]
    BY <1>6, <2>0, ReparentFacts
  <2>6. ASSUME NEW y \in Procs \ {Root}
        PROVE  /\ state'[y] = "FREE" => \A r \in Procs : y \notin Elems(children'[r])
               /\ state'[y] # "FREE" /\ ~InHand(y)' =>
                   /\ \A r \in Procs : y \in Elems(children'[r]) <=> r = parent'[y]
                   /\ state'[parent'[y]] = "LIVE" /\ pc'[parent'[y]] \notin Leaving
    <3>1. CASE y = x
      BY <2>1, <2>5, <3>1
    <3>2. CASE y # x
      BY <1>0, <1>t, <2>2, <2>3, <2>4, <2>5, <3>2 DEF FamilyTree
    <3>. QED BY <3>1, <3>2
  <2>. QED BY <2>6 DEF FamilyTree
<1>7. ASSUME NEW p \in Procs, ReparentInsert(p) PROVE FamilyTree'
  <2> DEFINE x == cur[p]
  <2>1. /\ x \in Procs \ {Root} /\ state[x] # "FREE" /\ parent[x] = Root
        /\ \A r \in Procs : x \in Elems(children'[r]) <=> r = Root
    BY <1>0, <1>7, AdoptFacts DEF HandInv, HandPcs
  <2>2. \A y \in Procs \ {x} : InHand(y)' <=> InHand(y)
    BY <1>7, AdoptFacts DEF InHand
  <2>3. \A y \in Procs \ {x}, r \in Procs : y \in Elems(children'[r]) <=> y \in Elems(children[r])
    BY <1>7, AdoptFacts
  <2>4. \A r \in Procs : pc[r] \notin Leaving => pc'[r] \notin Leaving
    BY <1>7, AdoptFacts DEF Leaving
  <2>5. UNCHANGED <<state, parent>>
    BY <1>7, AdoptFacts
  <2>6. state[Root] = "LIVE" /\ pc[Root] \notin Leaving
    BY <1>0 DEF StateInv, RootPcs, Leaving
  <2> HIDE DEF x
  <2>. QED BY <1>0, <1>t, <2>1, <2>2, <2>3, <2>4, <2>5, <2>6 DEF FamilyTree
<1>. QED BY <1>1, <1>2, <1>3, <1>4, <1>5, <1>6, <1>7, Steps

\* Every step keeps the tree without cycles.
LEMMA DepthNext ==
  ASSUME ProcInv, [Next]_vars
  PROVE  DepthInv'
<1> USE ProcAssumption
<1>0. TypeOK /\ StateInv /\ HandInv /\ FamilyTree
  BY DEF ProcInv
<1>t. /\ state \in [Procs -> {"FREE", "UNUSED", "LIVE", "ZOMBIE"}] /\ parent \in [Procs -> Procs]
  BY <1>0 DEF TypeOK
<1>1. PICK rank \in [Procs -> Nat] : Ranked(rank)
  BY DEF ProcInv, DepthInv
<1>2. ASSUME UNCHANGED <<state, parent>> PROVE DepthInv'
  BY <1>1, <1>2 DEF DepthInv, Ranked
<1>3. ASSUME NEW p \in Procs, NEW q \in Procs, ForkLink(p, q) PROVE DepthInv'
  <2> DEFINE new == [rank EXCEPT ![q] = rank[p] + 1]
  <2>1. new \in [Procs -> Nat] /\ new[q] = rank[p] + 1 /\ \A r \in Procs \ {q} : new[r] = rank[r]
    OBVIOUS
  <2>2. ASSUME NEW x \in Procs \ {Root}, state'[x] # "FREE" PROVE new[parent'[x]] < new[x]
    <3>1. CASE x = q
      BY <1>3, <2>1, <3>1, ForkFacts
    <3>2. CASE x # q
      <4>1. state[x] # "FREE" /\ parent'[x] = parent[x] /\ parent[x] \in Procs
        BY <1>t, <1>3, <2>2, <3>2, ForkFacts
      <4>2. parent[x] # q
        <5>1. CASE InHand(x)
          BY <1>0, <1>3, <5>1, ForkFacts DEF InHand, HandInv, StateInv
        <5>2. CASE ~InHand(x)
          BY <1>0, <1>3, <4>1, <5>2, ForkFacts DEF FamilyTree
        <5>. QED BY <5>1, <5>2
      <4>. QED BY <1>1, <2>1, <3>2, <4>1, <4>2 DEF Ranked
    <3>. QED BY <3>1, <3>2
  <2>3. new[Root] = 0
    BY <1>1, <1>3, <2>1, ForkFacts DEF Ranked
  <2> HIDE DEF new
  <2>. QED BY <2>1, <2>2, <2>3 DEF DepthInv, Ranked
<1>4. ASSUME NEW p \in Procs, ForkStart(p) \/ WaitFree(p) \/ ExitZombie(p) PROVE DepthInv'
  <2>1. parent' = parent /\ \A x \in Procs \ {Root} : state'[x] # "FREE" => state[x] # "FREE"
    BY <1>0, <1>t, <1>4, StateFacts
  <2>. QED BY <1>1, <2>1 DEF DepthInv, Ranked
<1>5. ASSUME NEW p \in Procs, reparent(p) PROVE DepthInv'
  <2>1. cur'[p] \in Procs \ {Root} /\ state[cur'[p]] # "FREE"
    BY <1>5, ReparentFacts, ListedFacts
  <2>2. ASSUME NEW x \in Procs \ {Root}, state'[x] # "FREE" PROVE rank[parent'[x]] < rank[x]
    <3>1. state[x] # "FREE" /\ parent[x] \in Procs /\ rank[parent[x]] < rank[x] /\ rank[Root] = 0
      BY <1>t, <1>1, <1>5, <2>2, ReparentFacts DEF Ranked
    <3>2. parent'[x] = parent[x] \/ parent'[x] = Root
      BY <1>5, ReparentFacts
    <3>. QED BY <3>1, <3>2
  <2>. QED BY <1>1, <2>2 DEF DepthInv, Ranked
<1>6. ASSUME NEW p \in Procs, Quiet(p) \/ ScanFound(p) \/ ReparentInsert(p)
      PROVE  UNCHANGED <<state, parent>>
  BY <1>0, <1>6, QuietFacts, FoundFacts, AdoptFacts
<1>7. ASSUME UNCHANGED vars PROVE UNCHANGED <<state, parent>>
  BY <1>7 DEF vars, tree
<1>. QED BY <1>2, <1>3, <1>4, <1>5, <1>6, <1>7, Steps

-----------------------------------------------------------------------------
(* Tokens.                                                                 *)

\* The parts of TokensOf and Unreaped.
Held(p) == IF pc[p] \in {"token", "scan"} THEN 1 ELSE 0
Handed == {q \in Procs : pc[q] = "adopted" /\ Exited(cur[q])}
Reapable(p) == {x \in Elems(children[p]) : Exited(x)}

\* Children are processes.
LEMMA ChildrenTyped ==
  ASSUME TypeOK, NEW p \in Procs
  PROVE  Elems(children[p]) \subseteq Procs
<1>1. children[p] \in Seq(Procs)
  BY DEF TypeOK
<1>. QED BY <1>1 DEF Elems

\* Their types, in this state and in the next.
LEMMA TokenParts ==
  ASSUME TypeOK, NEW p \in Procs
  PROVE  /\ TokensOf(p) = childexit[p] + lost[p] + Held(p)
                          + (IF p # Root THEN 0 ELSE Cardinality(Handed))
         /\ Unreaped(p) = Cardinality(Reapable(p))
         /\ childexit[p] \in Nat /\ lost[p] \in Nat /\ Held(p) \in Nat
         /\ IsFiniteSet(Handed) /\ Cardinality(Handed) \in Nat
         /\ IsFiniteSet(Reapable(p)) /\ Cardinality(Reapable(p)) \in Nat
<1>1. Handed \subseteq Procs /\ Reapable(p) \subseteq Procs
  BY ChildrenTyped DEF Handed, Reapable
<1>2. /\ IsFiniteSet(Handed) /\ Cardinality(Handed) \in Nat
      /\ IsFiniteSet(Reapable(p)) /\ Cardinality(Reapable(p)) \in Nat
  BY <1>1, ProcAssumption, FS_Subset, FS_CardinalityType
<1>. QED BY <1>2 DEF TokensOf, Unreaped, Held, Handed, Reapable, TypeOK

\* The same parts after a step.
LEMMA TokenPartsNext ==
  ASSUME TypeOK', NEW p \in Procs
  PROVE  /\ TokensOf(p)' = childexit'[p] + lost'[p] + Held(p)'
                           + (IF p # Root THEN 0 ELSE Cardinality(Handed'))
         /\ Unreaped(p)' = Cardinality(Reapable(p)')
         /\ childexit'[p] \in Nat /\ lost'[p] \in Nat /\ Held(p)' \in Nat
         /\ IsFiniteSet(Handed') /\ Cardinality(Handed') \in Nat
         /\ IsFiniteSet(Reapable(p)') /\ Cardinality(Reapable(p)') \in Nat
<1>1. Handed' \subseteq Procs /\ Reapable(p)' \subseteq Procs
  <2>1. children'[p] \in Seq(Procs)
    BY DEF TypeOK
  <2>2. Elems(children'[p]) \subseteq Procs
    BY <2>1 DEF Elems
  <2>. QED BY <2>2 DEF Handed, Reapable
<1>2. /\ IsFiniteSet(Handed') /\ Cardinality(Handed') \in Nat
      /\ IsFiniteSet(Reapable(p)') /\ Cardinality(Reapable(p)') \in Nat
  BY <1>1, ProcAssumption, FS_Subset, FS_CardinalityType
<1>. QED BY <1>2 DEF TokensOf, Unreaped, Held, Handed, Reapable, TypeOK

\* What a step that changes none of p's tokens and children keeps.
LEMMA TokensKept ==
  ASSUME ProcInv, TypeOK', NEW p \in Procs, Present(p),
         childexit'[p] + lost'[p] + Held(p)' = childexit[p] + lost[p] + Held(p),
         p = Root => Handed' \subseteq Handed, Reapable(p)' = Reapable(p)
  PROVE  TokensMatch(p)'
<1>1. TypeOK /\ TokensMatch(p)
  BY DEF ProcInv, TokenInv
<1>2. p = Root => Cardinality(Handed') <= Cardinality(Handed)
  BY <1>1, TokenParts, FS_Subset
<1>3. p # Root => TokensOf(p)' = TokensOf(p)
  BY <1>1, TokenParts, TokenPartsNext
<1>4. p = Root => TokensOf(p)' <= TokensOf(p)
  BY <1>1, <1>2, TokenParts, TokenPartsNext
<1>5. Unreaped(p)' = Unreaped(p) /\ Unreaped(p) \in Nat
  BY <1>1, TokenParts, TokenPartsNext
<1>6. TokensOf(p) \in Nat /\ TokensOf(p)' \in Nat
  BY <1>1, TokenParts, TokenPartsNext
<1>. QED BY <1>1, <1>3, <1>4, <1>5, <1>6 DEF TokensMatch

\* elock lets one process at a time through these places.
LEMMA OneExits ==
  ASSUME LockInv, NEW p \in Procs, NEW q \in Procs, pc[p] \in ElockPcs, pc[q] \in ElockPcs
  PROVE  p = q
BY DEF LockInv

\* The steps of wait that take a token, and those that take it for nothing.
LEMMA TokenWait ==
  ASSUME ProcInv, TypeOK', NEW p \in Procs, WaitToken(p) \/ ScanNone(p)
  PROVE  TokenInv'
<1>0. TypeOK /\ childexit \in [Procs -> Nat] /\ lost \in [Procs -> Nat] /\ pc \in [Procs -> Pcs]
  BY DEF ProcInv, TypeOK
<1>1. UNCHANGED <<state, children, cur>>
  BY DEF WaitToken, ScanNone, tree
<1>2. /\ \A r \in Procs \ {p} : pc'[r] = pc[r]
      /\ pc[p] \in {"wait", "scan"} /\ pc'[p] \in {"token", "run"}
  BY <1>0 DEF WaitToken, ScanNone, At, Goto
<1>3. \A x \in Procs : Exited(x)' <=> Exited(x)
  BY <1>2 DEF Exited
<1>4. Handed' = Handed
  BY <1>1, <1>2, <1>3 DEF Handed, ProcInv, OrphanInv
<1>5. \A r \in Procs : Reapable(r)' = Reapable(r)
  BY <1>0, <1>1, <1>3, ChildrenTyped DEF Reapable
<1>6. \A r \in Procs : childexit'[r] + lost'[r] + Held(r)' = childexit[r] + lost[r] + Held(r)
  <2>1. CASE WaitToken(p)
    BY <1>0, <2>1 DEF WaitToken, At, Goto, Held
  <2>2. CASE ScanNone(p)
    BY <1>0, <2>2 DEF ScanNone, At, Goto, Held
  <2>. QED BY <2>1, <2>2
<1>7. \A r \in Procs : Present(r)' => Present(r)
  BY <1>1, <1>2 DEF Present, Gone, Leaving
<1>. QED BY <1>4, <1>5, <1>6, <1>7, TokensKept DEF TokenInv

\* The steps that touch no token and no exited child.
TokenFree(p) ==
    \/ WaitCheck(p) \/ WaitKilled(p) \/ ScanStart(p) \/ ScanSkip(p) \/ ExitLock(p) \/ ExitPlock(p)
    \/ ReparentEnd(p) \/ ExitClose(p) \/ ExitClosed(p) \/ ExitUnlock(p) \/ ExitRelock(p)
    \/ ExitSched(p) \/ Kill(p) \/ ForkStart(p) \/ WaitFree(p) \/ ExitZombie(p)

\* What they do.
LEMMA TokenFreeFacts ==
  ASSUME ProcInv, NEW p \in Procs, TokenFree(p)
  PROVE  /\ UNCHANGED <<children, childexit, lost>>
         /\ \A r \in Procs \ {p} : pc'[r] = pc[r] /\ cur'[r] = cur[r]
         /\ pc[p] # "adopted" /\ pc'[p] # "adopted"
         /\ Exited(p)' <=> Exited(p)
         /\ Held(p)' = Held(p)
         /\ pc'[p] \notin Gone => pc[p] \notin Gone
         /\ \A r \in Procs : state'[r] \in {"UNUSED", "LIVE"} => state[r] \in {"UNUSED", "LIVE"}
<1>0. /\ pc \in [Procs -> Pcs] /\ cur \in [Procs -> Procs \cup {None}] /\ TypeOK
      /\ state \in [Procs -> {"FREE", "UNUSED", "LIVE", "ZOMBIE"}]
  BY DEF ProcInv, TypeOK
<1>1. CASE ForkStart(p) \/ WaitFree(p) \/ ExitZombie(p)
  BY <1>0, <1>1, StateFacts DEF Exited, Held, Gone, Leaving
<1>2. CASE WaitCheck(p) \/ WaitKilled(p) \/ ScanStart(p) \/ ScanSkip(p)
  BY <1>0, <1>2 DEF WaitCheck, WaitKilled, ScanStart, ScanSkip, At, Goto, tree, Exited, Held, Gone,
                    Leaving
<1>3. CASE ExitLock(p) \/ ExitPlock(p) \/ ReparentEnd(p) \/ ExitClose(p) \/ ExitClosed(p)
  BY <1>0, <1>3 DEF ExitLock, ExitPlock, ReparentEnd, ExitClose, ExitClosed, At, Goto, tree,
                    Exited, Held, Gone, Leaving
<1>4. CASE ExitUnlock(p) \/ ExitRelock(p) \/ ExitSched(p)
  BY <1>0, <1>4 DEF ExitUnlock, ExitRelock, ExitSched, At, Goto, tree, Exited, Held, Gone, Leaving
<1>5. CASE Kill(p)
  BY <1>0, <1>5 DEF Kill, kill, KillFound, KillNone, KillReturn, At, Goto, tree, Exited, Held, Gone,
                    Leaving
<1>. QED BY <1>1, <1>2, <1>3, <1>4, <1>5 DEF TokenFree

\* They keep the tokens in line with the exits.
LEMMA TokenOthers ==
  ASSUME ProcInv, TypeOK', NEW p \in Procs, TokenFree(p)
  PROVE  TokenInv'
<1>1. \A x \in Procs : Exited(x)' <=> Exited(x)
  BY TokenFreeFacts DEF Exited
<1>2. Handed' = Handed
  BY <1>1, TokenFreeFacts DEF Handed, ProcInv, OrphanInv
<1>3. \A r \in Procs : Reapable(r)' = Reapable(r)
  BY <1>1, TokenFreeFacts, ChildrenTyped DEF Reapable, ProcInv
<1>4. \A r \in Procs : Held(r)' = Held(r)
  BY TokenFreeFacts DEF Held
<1>5. \A r \in Procs : Present(r)' => Present(r)
  BY TokenFreeFacts DEF Present
<1>6. UNCHANGED <<childexit, lost>>
  BY TokenFreeFacts
<1>. QED BY <1>2, <1>3, <1>4, <1>5, <1>6, TokensKept DEF TokenInv

\* A new process begins without children and tokens.
LEMMA TokenFork ==
  ASSUME ProcInv, TypeOK', NEW p \in Procs, NEW q \in Procs, ForkLink(p, q)
  PROVE  TokenInv'
<1>0. TypeOK /\ StateInv /\ FamilyTree /\ OrphanInv
  BY DEF ProcInv
<1>1. childexit'[q] = 0 /\ lost'[q] = 0 /\ Held(q)' = 0
  BY <1>0, ForkFacts DEF ForkLink, init_proc, TypeOK, Held
<1>2. ASSUME NEW r \in Procs \ {q}
      PROVE  childexit'[r] = childexit[r] /\ lost'[r] = lost[r] /\ Held(r)' = Held(r)
  <2>1. childexit'[r] = childexit[r] /\ lost'[r] = lost[r]
    BY <1>0 DEF ForkLink, init_proc, TypeOK
  <2>. QED BY <2>1, ForkFacts DEF Held
<1>3. ~Exited(q)' /\ \A x \in Procs \ {q} : Exited(x)' <=> Exited(x)
  BY ForkFacts DEF Exited
<1>4. Handed' \subseteq Handed
  BY <1>0, <1>3, ForkFacts DEF Handed, OrphanInv
<1>5. Reapable(q)' = {} /\ q # Root
  BY ForkFacts DEF Reapable
<1>6. ASSUME NEW r \in Procs \ {q} PROVE Reapable(r)' = Reapable(r)
  <2>1. q \notin Elems(children[r]) /\ Elems(children[r]) \subseteq Procs
    BY <1>0, ForkFacts, ChildrenTyped DEF FamilyTree
  <2>2. \/ Elems(children'[r]) = Elems(children[r])
        \/ Elems(children'[r]) = Elems(children[r]) \cup {q}
    BY ForkFacts
  <2>. QED BY <1>3, <2>1, <2>2 DEF Reapable
<1>7. \A r \in Procs \ {q} : Present(r)' => Present(r)
  BY ForkFacts DEF Present, Gone, Leaving
<1>8. TokensMatch(q)'
  <2>1. TokensOf(q)' = 0
    BY <1>1, <1>5, TokenPartsNext
  <2>2. Unreaped(q)' = 0
    BY <1>5, TokenPartsNext, FS_EmptySet
  <2>. QED BY <2>1, <2>2 DEF TokensMatch
<1>. QED BY <1>2, <1>4, <1>6, <1>7, <1>8, TokensKept DEF TokenInv

\* A wait that reaps a child has taken one token.
LEMMA TokenFound ==
  ASSUME ProcInv, TypeOK', NEW p \in Procs, ScanFound(p)
  PROVE  TokenInv'
<1>0. TypeOK /\ StateInv /\ OrphanInv
  BY DEF ProcInv
<1>1. \A x \in Procs : Exited(x)' <=> Exited(x)
  BY FoundFacts DEF Exited
<1>2. Handed' = Handed
  BY <1>0, <1>1, FoundFacts DEF Handed, OrphanInv
<1>3. \A r \in Procs \ {p} : Reapable(r)' = Reapable(r) /\ Held(r)' = Held(r)
  BY <1>0, <1>1, FoundFacts, ChildrenTyped DEF Reapable, Held
<1>4. \A r \in Procs : Present(r)' => Present(r)
  BY FoundFacts DEF Present, Gone, Leaving
<1>5. UNCHANGED <<childexit, lost>>
  BY FoundFacts
<1>6. ASSUME Present(p) PROVE TokensMatch(p)'
  <2>1. TokensMatch(p)
    BY <1>6 DEF ProcInv, TokenInv
  <2>2. PICK x \in Elems(children[p]) : x = cur'[p]
    BY FoundFacts
  <2>3. x \in Procs /\ Exited(x)
    BY <1>0, <2>2, FoundFacts, ListedFacts DEF StateInv, Exited
  <2>4. x \in Reapable(p) /\ Reapable(p)' = Reapable(p) \ {x}
    BY <1>0, <1>1, <2>2, <2>3, FoundFacts, ChildrenTyped DEF Reapable
  <2>5. Cardinality(Reapable(p)') = Cardinality(Reapable(p)) - 1
    BY <1>0, <2>4, TokenParts, FS_RemoveElement
  <2>6. Held(p) = 1 /\ Held(p)' = 0
    BY FoundFacts DEF Held
  <2>7. TokensOf(p)' = TokensOf(p) - 1 /\ TokensOf(p) \in Nat
    BY <1>0, <1>2, <1>5, <2>6, TokenParts, TokenPartsNext
  <2>8. Unreaped(p)' = Unreaped(p) - 1 /\ Unreaped(p) \in Nat
    BY <1>0, <2>5, TokenParts, TokenPartsNext
  <2>. QED BY <2>1, <2>7, <2>8 DEF TokensMatch
<1>7. ASSUME NEW r \in Procs \ {p}, Present(r) PROVE TokensMatch(r)'
  BY <1>2, <1>3, <1>5, <1>7, TokensKept
<1>. QED BY <1>4, <1>6, <1>7 DEF TokenInv

\* A process that exits no longer counts its tokens.
LEMMA TokenReparent ==
  ASSUME ProcInv, TypeOK', NEW p \in Procs, reparent(p)
  PROVE  TokenInv'
<1>0. TypeOK /\ OrphanInv
  BY DEF ProcInv
<1>1. \A x \in Procs : Exited(x)' <=> Exited(x)
  BY ReparentFacts DEF Exited
<1>2. Handed' = Handed
  BY <1>0, <1>1, ReparentFacts DEF Handed, OrphanInv
<1>3. \A r \in Procs \ {p} : Reapable(r)' = Reapable(r) /\ Held(r)' = Held(r)
  BY <1>0, <1>1, ReparentFacts, ChildrenTyped DEF Reapable, Held
<1>4. ~Present(p)' /\ \A r \in Procs : Present(r)' => Present(r)
  BY ReparentFacts DEF Present, Gone, Leaving
<1>5. UNCHANGED <<childexit, lost>>
  BY ReparentFacts
<1>. QED BY <1>2, <1>3, <1>4, <1>5, TokensKept DEF TokenInv

\* An exited orphan brings root_proc a child and the token that is to be posted.
LEMMA TokenAdopt ==
  ASSUME ProcInv, TypeOK', NEW p \in Procs, ReparentInsert(p)
  PROVE  TokenInv'
<1>0. TypeOK /\ OrphanInv /\ StateInv
  BY DEF ProcInv
<1>1. \A x \in Procs : Exited(x)' <=> Exited(x)
  BY AdoptFacts DEF Exited
<1>2. \A r \in Procs : Held(r)' = Held(r)
  BY AdoptFacts DEF Held
<1>3. \A r \in Procs \ {Root} : Reapable(r)' = Reapable(r)
  BY <1>0, <1>1, AdoptFacts, ChildrenTyped DEF Reapable
<1>4. \A r \in Procs : Present(r)' => Present(r)
  BY AdoptFacts DEF Present, Gone, Leaving
<1>5. UNCHANGED <<childexit, lost>>
  BY AdoptFacts
<1>6. TokensMatch(Root)'
  <2> DEFINE x == cur[p]
  <2>0. Root \in Procs /\ x \in Procs /\ x \notin Elems(children[Root]) /\ cur' = cur
    BY ProcAssumption, AdoptFacts
  <2>1. TokensMatch(Root)
    BY <1>0, <2>0 DEF ProcInv, TokenInv, Present, Gone, StateInv, RootPcs, Leaving
  <2>2. /\ Elems(children[Root]) \subseteq Procs
        /\ Elems(children'[Root]) = Elems(children[Root]) \cup {x}
    BY <1>0, <2>0, ChildrenTyped, AdoptFacts
  <2>3. CASE Exited(x)
    <3>1. Reapable(Root)' = Reapable(Root) \cup {x} /\ x \notin Reapable(Root)
      BY <1>1, <2>0, <2>2, <2>3 DEF Reapable
    <3>2. Handed' = Handed \cup {p} /\ p \notin Handed
      BY <1>0, <1>1, <2>0, <2>3, AdoptFacts DEF Handed, OrphanInv
    <3>3. /\ Cardinality(Reapable(Root)') = Cardinality(Reapable(Root)) + 1
          /\ Cardinality(Handed') = Cardinality(Handed) + 1
      BY <1>0, <2>0, <3>1, <3>2, TokenParts, FS_AddElement
    <3>4. TokensOf(Root)' = TokensOf(Root) + 1 /\ TokensOf(Root) \in Nat
      BY <1>0, <1>2, <1>5, <2>0, <3>3, TokenParts, TokenPartsNext
    <3>5. Unreaped(Root)' = Unreaped(Root) + 1 /\ Unreaped(Root) \in Nat
      BY <1>0, <2>0, <3>3, TokenParts, TokenPartsNext
    <3>. QED BY <2>1, <3>4, <3>5 DEF TokensMatch
  <2>4. CASE ~Exited(x)
    <3>1. Reapable(Root)' = Reapable(Root)
      BY <1>1, <2>0, <2>2, <2>4 DEF Reapable
    <3>2. Handed' = Handed
      BY <1>0, <1>1, <2>0, <2>4, AdoptFacts DEF Handed, OrphanInv
    <3>3. Present(Root)
      BY <1>0 DEF StateInv, Present, RootPcs, Gone, Leaving
    <3>. QED BY <1>2, <1>5, <2>0, <3>1, <3>2, <3>3, TokensKept
  <2>. QED BY <2>3, <2>4
<1>7. ASSUME NEW r \in Procs \ {Root}, Present(r) PROVE TokensMatch(r)'
  BY <1>2, <1>3, <1>5, <1>7, TokensKept
<1>. QED BY <1>4, <1>6, <1>7 DEF TokenInv

\* The token is posted for an orphan that is a zombie, or was one and is freed.
LEMMA TokenOrphan ==
  ASSUME ProcInv, TypeOK', NEW p \in Procs, ReparentPost(p)
  PROVE  TokenInv'
<1> USE ProcAssumption
<1>0. /\ TypeOK /\ OrphanInv /\ StateInv /\ pc \in [Procs -> Pcs]
      /\ cur \in [Procs -> Procs \cup {None}] /\ childexit \in [Procs -> Nat]
  BY DEF ProcInv, TypeOK
<1>1. /\ UNCHANGED <<state, children, lost>> /\ pc[p] = "adopted" /\ pc'[p] = "reparent"
      /\ \A r \in Procs \ {p} : pc'[r] = pc[r] /\ cur'[r] = cur[r]
  BY <1>0 DEF ReparentPost, At, Goto, tree
<1>2. \A x \in Procs : Exited(x)' <=> Exited(x)
  BY <1>1 DEF Exited
<1>3. /\ \A r \in Procs : Held(r)' = Held(r) /\ Reapable(r)' = Reapable(r)
      /\ \A r \in Procs : Present(r)' => Present(r)
  BY <1>0, <1>1, <1>2, ChildrenTyped DEF Held, Reapable, Present, Gone
<1>4. \A r \in Procs \ {Root} : childexit'[r] = childexit[r]
  BY <1>0 DEF ReparentPost, Tokens
<1>5. Handed' = Handed \ {p}
  BY <1>0, <1>1, <1>2 DEF Handed, OrphanInv
<1>6. Present(Root)
  BY <1>0 DEF StateInv, Present, RootPcs, Gone, Leaving
<1>7. TokensMatch(Root)'
  <2>1. CASE childexit' = childexit
    BY <1>1, <1>3, <1>5, <1>6, <2>1, TokensKept
  <2>2. CASE childexit' # childexit
    <3>1. childexit'[Root] = childexit[Root] + 1 /\ state[cur[p]] \in {"ZOMBIE", "FREE"}
      BY <1>0, <2>2 DEF ReparentPost, Tokens
    <3>2. p \in Handed
      BY <1>0, <1>1, <3>1 DEF OrphanInv, StateInv, Handed, Exited
    <3>3. Cardinality(Handed') = Cardinality(Handed) - 1
      BY <1>0, <1>5, <3>2, TokenParts, FS_RemoveElement
    <3>4. TokensOf(Root)' = TokensOf(Root)
      <4>1. TokensOf(Root) = childexit[Root] + lost[Root] + Held(Root) + Cardinality(Handed)
        BY <1>0, TokenParts
      <4>2. TokensOf(Root)' = childexit'[Root] + lost'[Root] + Held(Root)' + Cardinality(Handed')
        BY TokenPartsNext
      <4>3. /\ childexit[Root] \in Nat /\ lost[Root] \in Nat /\ Held(Root) \in Nat
            /\ Cardinality(Handed) \in Nat
        BY <1>0, TokenParts
      <4>4. lost'[Root] = lost[Root] /\ Held(Root)' = Held(Root)
        BY <1>1, <1>3
      <4>5. TokensOf(Root)' =
                childexit[Root] + 1 + lost[Root] + Held(Root) + (Cardinality(Handed) - 1)
        BY <3>1, <3>3, <4>2, <4>4, Zenon
      <4>. QED BY <4>1, <4>3, <4>5
    <3>5. Unreaped(Root)' = Unreaped(Root)
      BY <1>0, <1>3, TokenParts, TokenPartsNext
    <3>6. TokensMatch(Root)
      BY <1>6 DEF ProcInv, TokenInv
    <3>. QED BY <3>4, <3>5, <3>6 DEF TokensMatch
  <2>. QED BY <2>1, <2>2
<1>8. ASSUME NEW r \in Procs \ {Root}, Present(r) PROVE TokensMatch(r)'
  BY <1>1, <1>3, <1>4, <1>8, TokensKept
<1>. QED BY <1>3, <1>7, <1>8 DEF TokenInv

\* An exit posts to a parent that is there to wait, and has the process in its list.
LEMMA ExitPostFacts ==
  ASSUME ProcInv, NEW p \in Procs, ExitPost(p)
  PROVE  /\ parent[p] \in Procs /\ Present(parent[p]) /\ parent[p] # p
         /\ \A r \in Procs : p \in Elems(children[r]) <=> r = parent[p]
         /\ \A r \in Procs : pc[r] # "adopted"
<1>0. TypeOK /\ StateInv /\ LockInv /\ HandInv /\ FamilyTree
  BY DEF ProcInv
<1>1. pc[p] = "post" /\ state[p] = "LIVE" /\ p # Root /\ parent[p] \in Procs
  BY <1>0 DEF ExitPost, At, StateInv, RootPcs, TypeOK
<1>2. ASSUME NEW r \in Procs PROVE pc[r] \notin {"reparent", "adopt", "adopted"}
  BY <1>0, <1>1, OneExits DEF ElockPcs
<1>3. ~InHand(p)
  BY <1>0, <1>1, <1>2 DEF InHand, HandInv
<1>4. /\ \A r \in Procs : p \in Elems(children[r]) <=> r = parent[p]
      /\ state[parent[p]] = "LIVE" /\ pc[parent[p]] \notin Leaving
  BY <1>0, <1>1, <1>3 DEF FamilyTree
<1>5. parent[p] # p
  BY <1>1, <1>4 DEF Leaving
<1>. QED BY <1>1, <1>2, <1>4, <1>5 DEF Present, Gone

\* The exit of a child is one token and one child to reap.
LEMMA TokenExit ==
  ASSUME ProcInv, TypeOK', NEW p \in Procs, ExitPost(p)
  PROVE  TokenInv'
<1>0. /\ TypeOK /\ pc \in [Procs -> Pcs] /\ childexit \in [Procs -> Nat]
  BY DEF ProcInv, TypeOK
<1>1. PICK f \in Procs : f = parent[p]
  BY ExitPostFacts
<1>2. /\ UNCHANGED <<state, children, lost, cur>> /\ pc[p] = "post" /\ pc'[p] = "posted"
      /\ \A r \in Procs \ {p} : pc'[r] = pc[r]
      /\ childexit'[f] = childexit[f] + 1 /\ \A r \in Procs \ {f} : childexit'[r] = childexit[r]
  BY <1>0, <1>1 DEF ExitPost, Tokens, At, Goto, tree
<1>3. Exited(p)' /\ ~Exited(p) /\ \A x \in Procs \ {p} : Exited(x)' <=> Exited(x)
  BY <1>2 DEF Exited
<1>4. Handed' = Handed
  BY <1>2, ExitPostFacts DEF Handed
<1>5. \A r \in Procs : Held(r)' = Held(r) /\ (Present(r)' => Present(r))
  BY <1>2 DEF Held, Present, Gone, Leaving
<1>6. \A r \in Procs \ {f} : Reapable(r)' = Reapable(r)
  BY <1>0, <1>1, <1>2, <1>3, ExitPostFacts, ChildrenTyped DEF Reapable
<1>7. TokensMatch(f)'
  <2>1. Reapable(f)' = Reapable(f) \cup {p} /\ p \notin Reapable(f)
    BY <1>0, <1>1, <1>2, <1>3, ExitPostFacts, ChildrenTyped DEF Reapable
  <2>2. Cardinality(Reapable(f)') = Cardinality(Reapable(f)) + 1
    BY <1>0, <2>1, TokenParts, FS_AddElement
  <2>3. TokensOf(f)' = TokensOf(f) + 1 /\ TokensOf(f) \in Nat
    BY <1>0, <1>2, <1>4, <1>5, TokenParts, TokenPartsNext
  <2>4. Unreaped(f)' = Unreaped(f) + 1 /\ Unreaped(f) \in Nat
    BY <1>0, <2>2, TokenParts, TokenPartsNext
  <2>5. TokensMatch(f)
    BY <1>1, ExitPostFacts DEF ProcInv, TokenInv
  <2>. QED BY <2>3, <2>4, <2>5 DEF TokensMatch
<1>8. ASSUME NEW r \in Procs \ {f}, Present(r) PROVE TokensMatch(r)'
  BY <1>2, <1>4, <1>5, <1>6, <1>8, TokensKept
<1>. QED BY <1>5, <1>7, <1>8 DEF TokenInv

\* Every step keeps the tokens in line with the exits.
LEMMA TokenNext ==
  ASSUME ProcInv, TypeOK', [Next]_vars
  PROVE  TokenInv'
<1>1. CASE UNCHANGED vars
  <2>1. UNCHANGED <<state, children, childexit, pc, cur, lost>>
    BY <1>1 DEF vars, tree
  <2>. QED BY <2>1 DEF ProcInv, TokenInv, Present, TokensMatch, TokensOf, Unreaped, Exited
<1>2. ASSUME NEW p \in Procs, Quiet(p) PROVE TokenInv'
  BY <1>2, TokenWait, TokenOthers, TokenOrphan, TokenExit DEF Quiet, TokenFree
<1>. QED BY <1>1, <1>2, TokenOthers, TokenFork, TokenFound, TokenReparent, TokenAdopt, Steps
         DEF TokenFree

-----------------------------------------------------------------------------
(* Deadlocks.                                                              *)

\* A process that spins for another's lock, outside the three places, spins for the
\* plock of a child that holds it.
LEMMA SpinFacts ==
  ASSUME ProcInv, NEW p \in Procs, SpinsFor(p) \in Procs, pc[p] \notin {"unmap", "adopt", "kill"}
  PROVE  \/ SpinsFor(p) \in Elems(children[p])
         \/ pc[SpinsFor(p)] = "sched"
<1> USE ProcAssumption
<1>0. TypeOK /\ LockInv /\ ListInv
  BY DEF ProcInv
<1>1. CASE At(p, "reparent") /\ children[p] # <<>>
  <2>1. Head(children[p]) \in Elems(children[p]) /\ Head(children[p]) \in Procs
    <3>1. children[p] \in Seq(Procs)
      BY <1>0 DEF TypeOK
    <3>. QED BY <1>1, <3>1, HeadTailFacts
  <2>2. SpinsFor(p) = plock[Head(children[p])]
    BY <1>1 DEF SpinsFor, At
  <2>. QED BY <1>0, <2>1, <2>2 DEF LockInv
<1>2. CASE At(p, "scan") /\ rest[p] # <<>>
  <2>1. Head(rest[p]) \in Elems(rest[p]) /\ Head(rest[p]) \in Procs
    <3>1. rest[p] \in Seq(Procs)
      BY <1>0 DEF TypeOK
    <3>. QED BY <1>2, <3>1, HeadTailFacts
  <2>2. Head(rest[p]) \in Elems(children[p])
    BY <1>0, <1>2, <2>1 DEF ListInv, At
  <2>3. SpinsFor(p) = plock[Head(rest[p])]
    BY <1>2 DEF SpinsFor, At
  <2>. QED BY <1>0, <2>1, <2>2, <2>3 DEF LockInv
<1>3. CASE \E at \in {"token", "exit", "close"} : At(p, at)
  <2>1. SpinsFor(p) = plock[p]
    BY <1>3 DEF SpinsFor, At
  <2>. QED BY <1>0, <1>3, <2>1 DEF LockInv, PlockPcs, At
<1>4. CASE \E at \in {"start", "free", "adopted", "posted", "alert"} : At(p, at)
  <2>1. SpinsFor(p) = rqlock
    BY <1>4 DEF SpinsFor, At
  <2>. QED BY <1>0, <2>1 DEF LockInv
<1>5. CASE /\ ~(At(p, "reparent") /\ children[p] # <<>>) /\ ~(At(p, "scan") /\ rest[p] # <<>>)
           /\ ~\E at \in {"token", "exit", "close"} : At(p, at)
           /\ ~\E at \in {"start", "free", "adopted", "posted", "alert"} : At(p, at)
  <2>1. SpinsFor(p) = None
    BY <1>5 DEF SpinsFor, At
  <2>. QED BY <2>1
<1>. QED BY <1>1, <1>2, <1>3, <1>4, <1>5

\* Processes that spin for each other would each wait for a child among them, and
\* one of them is the least deep.
LEMMA DeadlockFacts ==
  ASSUME ProcInv, NEW ps \in SUBSET Procs, Deadlocked(ps)
  PROVE  \E p \in ps : pc[p] \in {"unmap", "adopt", "kill"}
<1> SUFFICES ASSUME \A p \in ps : pc[p] \notin {"unmap", "adopt", "kill"} PROVE FALSE
  OBVIOUS
<1>0. ps # {} /\ IsFiniteSet(ps) /\ \A p \in ps : SpinsFor(p) \in ps
  BY ProcAssumption, FS_Subset DEF Deadlocked
<1>1. ASSUME NEW p \in ps PROVE pc[p] # "sched"
  <2>1. SpinsFor(p) \in Procs
    BY <1>0
  <2>2. ASSUME pc[p] = "sched" PROVE SpinsFor(p) = None
    BY <2>2 DEF SpinsFor, At
  <2>. QED BY <2>1, <2>2, ProcAssumption
<1>2. ASSUME NEW p \in ps PROVE SpinsFor(p) \in Elems(children[p])
  BY <1>0, <1>1, SpinFacts
<1>3. ASSUME NEW p \in ps
      PROVE  /\ SpinsFor(p) \in Procs \ {Root} /\ parent[SpinsFor(p)] = p
             /\ state[SpinsFor(p)] # "FREE"
  BY <1>2, ListedFacts
<1> DEFINE f == [p \in ps |-> SpinsFor(p)]
           im == {SpinsFor(p) : p \in ps}
<1>4. f \in Bijection(ps, im)
  <2>1. f \in Surjection(ps, im)
    BY DEF Surjection
  <2>2. f \in Injection(ps, im)
    BY <1>3 DEF Injection, IsInjective
  <2>. QED BY <2>1, <2>2 DEF Bijection
<1>5. Cardinality(im) = Cardinality(ps) /\ IsFiniteSet(im)
  BY <1>0, <1>4, FS_Bijection DEF ExistsBijection
<1>6. im \subseteq ps
  BY <1>0
<1>7. im = ps
  BY <1>0, <1>5, <1>6, FS_Subset
<1>8. PICK rank \in [Procs -> Nat] : Ranked(rank)
  BY DEF ProcInv, DepthInv
<1>9. PICK p \in ps : \A q \in ps : rank[p] <= rank[q]
  <2> DEFINE ranks == {rank[q] : q \in ps}
  <2>1. ranks \in SUBSET Nat /\ ranks # {}
    BY <1>0
  <2>2. PICK n \in ranks : \A m \in ranks : n <= m
    BY <2>1, NatMin
  <2>. QED BY <2>2
<1>10. PICK q \in ps : p = SpinsFor(q)
  BY <1>7
<1>11. rank[q] < rank[p]
  BY <1>3, <1>8, <1>10 DEF Ranked
<1>. QED BY <1>9, <1>11

-----------------------------------------------------------------------------
(* The theorems.                                                           *)

\* The inductive invariant of processes holds in every reachable state.
THEOREM ProcInvariant == Spec => []ProcInv
<1>1. ProcInv /\ [Next]_vars => ProcInv'
  <2> SUFFICES ASSUME ProcInv, [Next]_vars PROVE ProcInv'
    OBVIOUS
  <2>1. TypeOK'
    BY TypeNext
  <2>. QED BY <2>1, StateNext, LockNext, StartNext, HandNext, OrphanNext, TreeNext, ListNext,
              DepthNext, TokenNext DEF ProcInv
<1>. QED BY <1>1, ProcInvInit, PTL DEF Spec

\* Type correctness of fork, exit, wait and kill, for any number of processes.
THEOREM ProcTypeCorrect == Spec => []TypeOK
<1>1. ProcInv => TypeOK
  BY DEF ProcInv
<1>. QED BY <1>1, ProcInvariant, PTL

\* The processes form a tree through every race of fork, exit and wait: exit never
\* posts to a freed parent, and no child is left behind by a parent that exits.
THEOREM ProcFamilyTree == Spec => []FamilyTree
<1>1. ProcInv => FamilyTree
  BY DEF ProcInv
<1>. QED BY <1>1, ProcInvariant, PTL

\* A parent has a token for every exited child that it has not reaped; root_proc
\* has no token without such a child.
THEOREM ProcTokenPerExit == Spec => []TokenPerExit
<1>1. ProcInv => TokenPerExit
  BY DEF ProcInv, TokenInv, Present, TokensMatch, Gone, TokenPerExit
<1>. QED BY <1>1, ProcInvariant, PTL

\* Processes that all spin for each other's locks include one that takes elock again
\* with its plock held, one that takes root_proc's plock with its own held, or one
\* that waits for the klock that kill keeps.
THEOREM ProcDeadlocksKnown == Spec => []DeadlocksKnown
<1>1. ProcInv => DeadlocksKnown
  BY DeadlockFacts DEF DeadlocksKnown
<1>. QED BY <1>1, ProcInvariant, PTL
=============================================================================
