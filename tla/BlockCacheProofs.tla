-------------------------- MODULE BlockCacheProofs --------------------------
(***************************************************************************)
(* Proofs about the block cache of module BlockCache, for any number of    *)
(* processes and blocks and any threshold: a Block freed while a process   *)
(* uses it had two claims at once, a Block has one holder, and a holder    *)
(* sees what was written last.                                             *)
(*                                                                         *)
(* After them the proofs about the driver beneath it, module Virtio, for   *)
(* any size of the queue: every descriptor has one owner.  The two share   *)
(* no variable.                                                            *)
(***************************************************************************)
EXTENDS BlockCache, Virtio, ListProofs, FiniteSetTheorems, TLAPS

\* Where a process has the sleep lock of its Block, if it has one.
LockedPcs == {"idle", "move", "read", "sync", "unpin"}

\* Process p fills Block o.
Reads(p, o) == pc[p] = "read" /\ cur[p] = o

\* The list has no Block twice and none that was freed; every other Block is being
\* read, by the one process that knows of it.
ListInv ==
    /\ NoDup(list)
    /\ \A o \in Elems(list) : Allocated(o)
    /\ \A o \in Objs : Allocated(o) => o \in Elems(list) \/ \E p \in Procs : Reads(p, o)
    /\ \A p \in Procs : pc[p] = "read" =>
        /\ Allocated(cur[p]) /\ ~blk[cur[p]].pinned
        /\ cur[p] \notin Elems(list) /\ Claims(cur[p]) = {p}

\* A process that is not idle is at a Block.
AtInv == \A p \in Procs : pc[p] # "idle" => cur[p] # None

\* The sleep lock: who is past it is its holder, and the waiters wait.
HolderInv ==
    \A o \in Objs : Allocated(o) =>
        /\ \A p \in Claims(o) : pc[p] \in LockedPcs => blk[o].holder = p
        /\ \A q \in Elems(blk[o].waiters) : pc[q] = "wait" /\ cur[q] = o
        /\ NoDup(blk[o].waiters)

\* Until two processes have claimed a Block at once, its acquired flag says whether
\* a process has; a freed Block that somebody still uses had two claims.
ShareInv ==
    \A o \in Objs :
        /\ Allocated(o) /\ ~blk[o].shared =>
            /\ \A p, q \in Claims(o) : p = q
            /\ blk[o].acquired <=> Claims(o) # {}
        /\ ~Allocated(o) /\ Claims(o) # {} => blk[o].shared

\* A block that is not spoiled: one copy, which everyone uses; the last value is in
\* the copy once it was read, and on disk unless the copy is pinned or being
\* written.
DataInv ==
    \A b \in Blocks \ spoiled :
        /\ \A o, x \in Objs : No(o) = b /\ No(x) = b /\ Allocated(o) /\ Allocated(x) => o = x
        /\ \A p \in Procs : cur[p] # None /\ No(cur[p]) = b => Allocated(cur[p])
        /\ (\A o \in Objs : No(o) = b => ~Allocated(o)) => disk[b]
        /\ \A o \in Objs : No(o) = b /\ Allocated(o) =>
            /\ blk[o].val \/ \E p \in Procs : Reads(p, o)
            /\ \/ disk[b] \/ blk[o].pinned
               \/ \E p \in Procs : pc[p] = "sync" /\ cur[p] = o

CacheInv == TypeOK /\ ListInv /\ AtInv /\ HolderInv /\ ShareInv /\ DataInv

-----------------------------------------------------------------------------
(* The least and the greatest of the numbers the code looks for. *)

\* Min of a set of natural numbers is one of them.
LEMMA MinFacts == ASSUME NEW T \in SUBSET Nat, T # {} PROVE Min(T) \in T
  BY NatMin DEF Min

\* The last of some positions of a list.
LEMMA MaxFacts == ASSUME NEW n \in Nat, NEW T \in SUBSET (1..n), T # {} PROVE Max(T) \in T
<1> DEFINE R == {n - x : x \in T}
<1>1. R \in SUBSET Nat /\ R # {}
  <2>1. \A x \in T : x \in Nat /\ n - x \in Nat
    OBVIOUS
  <2>. QED BY <2>1
<1>2. PICK r \in R : \A y \in R : r <= y
  BY <1>1, NatMin
<1>3. PICK x \in T : r = n - x
  OBVIOUS
<1>4. \A y \in T : x >= y
  <2> TAKE y \in T
  <2>1. n - y \in R /\ n - x <= n - y
    BY <1>2, <1>3
  <2>2. x \in Nat /\ y \in Nat
    OBVIOUS
  <2>. QED BY <2>1, <2>2
<1>. QED BY <1>4 DEF Max

\* Appending to a queue.
LEMMA AppendFacts ==
  ASSUME NEW S, NEW q \in Seq(S), NEW p \in S
  PROVE  /\ Append(q, p) \in Seq(S)
         /\ Elems(Append(q, p)) = Elems(q) \cup {p}
         /\ NoDup(q) /\ p \notin Elems(q) => NoDup(Append(q, p))
<1> DEFINE r == Append(q, p)
<1>1. r \in Seq(S) /\ Len(q) \in Nat /\ Len(r) = Len(q) + 1 /\ r[Len(q) + 1] = p
  OBVIOUS
<1>2. \A i \in 1..Len(q) : r[i] = q[i] /\ i \in 1..Len(r)
  OBVIOUS
<1>3. \A i \in 1..Len(r) : i # Len(q) + 1 => i \in 1..Len(q) /\ r[i] = q[i]
  BY <1>1, <1>2
<1> HIDE DEF r
<1>4. Elems(r) = Elems(q) \cup {p}
  <2>1. \A x \in Elems(r) : x \in Elems(q) \cup {p}
    BY <1>1, <1>3 DEF Elems
  <2>2. \A x \in Elems(q) \cup {p} : x \in Elems(r)
    <3>1. Len(q) + 1 \in 1..Len(r)
      BY <1>1
    <3>. QED BY <1>1, <1>2, <3>1 DEF Elems
  <2>. QED BY <2>1, <2>2
<1>5. ASSUME NoDup(q), p \notin Elems(q) PROVE NoDup(r)
  <2> SUFFICES ASSUME NEW i \in 1..Len(r), NEW j \in 1..Len(r), r[i] = r[j] PROVE i = j
    BY DEF NoDup
  <2>1. \A k \in 1..Len(q) : q[k] # p
    BY <1>5 DEF Elems
  <2>. QED BY <1>1, <1>3, <1>5, <2>1 DEF NoDup
<1>. QED BY <1>1, <1>4, <1>5 DEF r

\* A miss finds a struct that is not allocated and that nobody refers to: every
\* copy of a block that is not in the list is being read, so that it is referred
\* to, and the process that misses refers to none.
LEMMA UnusedFacts ==
  ASSUME CacheInv, NEW p \in Procs, NEW b \in Blocks, cur[p] = None, Cached(b) = {}
  PROVE  LET new == <<b, Min(Unused(b))>>
         IN  new \in Objs /\ ~Allocated(new) /\ Claims(new) = {}
<1> DEFINE n == Cardinality(Procs)
           Q == Procs \ {p}
           f == [q \in Q |-> IF cur[q] = None THEN 1 ELSE cur[q][2]]
<1>1. IsFiniteSet(Procs) /\ n \in Nat /\ IsFiniteSet(Q) /\ Cardinality(Q) = n - 1
  BY CacheAssumption, FS_CardinalityType, FS_RemoveElement
<1>2. Unused(b) \in SUBSET (1..n)
  BY DEF Unused
<1>3. Unused(b) # {}
  <2> SUFFICES ASSUME Unused(b) = {} PROVE FALSE
    OBVIOUS
  <2>1. ASSUME NEW i \in 1..n PROVE \E q \in Q : cur[q] = <<b, i>>
    <3>1. <<b, i>> \in Objs /\ No(<<b, i>>) = b /\ None # <<b, i>>
      BY CacheAssumption DEF Objs, No
    <3>2. <<b, i>> \notin Elems(list)
      BY <3>1 DEF Cached, Elems
    <3>3. Allocated(<<b, i>>) \/ Claims(<<b, i>>) # {}
      BY DEF Unused
    <3>4. \E q \in Procs : cur[q] = <<b, i>>
      BY <3>1, <3>2, <3>3 DEF CacheInv, ListInv, Reads, Claims
    <3>. QED BY <3>1, <3>4
  <2>2. f \in [Q -> 1..n]
    <3>1. ASSUME NEW q \in Q PROVE f[q] \in 1..n
      <4>1. cur[q] \in Objs \cup {None}
        BY DEF CacheInv, TypeOK
      <4>2. n >= 1
        <5>1. n # 0
          BY <1>1, FS_EmptySet
        <5>. QED BY <1>1, <5>1
      <4>. QED BY <1>1, <4>1, <4>2 DEF Objs
    <3>. QED BY <3>1
  <2>3. \A i \in 1..n : \E q \in Q : f[q] = i
    <3> TAKE i \in 1..n
    <3>1. PICK q \in Q : cur[q] = <<b, i>>
      BY <2>1
    <3>2. None # <<b, i>>
      BY CacheAssumption DEF Objs
    <3>. QED BY <3>1, <3>2
  <2>4. f \in Surjection(Q, 1..n)
    BY <2>2, <2>3 DEF Surjection
  <2>5. Cardinality(1..n) <= n - 1
    BY <1>1, <2>4, FS_Surjection
  <2>. QED BY <1>1, <2>5, FS_Interval
<1>4. Min(Unused(b)) \in Unused(b)
  BY <1>1, <1>2, <1>3, MinFacts
<1>. QED BY <1>2, <1>4 DEF Unused, Objs

\* The Block a hit finds is in the list.
LEMMA HitFacts ==
  ASSUME CacheInv, NEW b \in Blocks, Cached(b) # {}
  PROVE  LET o == list[Min(Cached(b))]
         IN  o \in Objs /\ o \in Elems(list) /\ No(o) = b /\ Allocated(o)
<1>1. list \in Seq(Objs) /\ Cached(b) \in SUBSET Nat
  BY DEF CacheInv, TypeOK, Cached
<1>2. Min(Cached(b)) \in Cached(b)
  BY <1>1, MinFacts
<1>3. list[Min(Cached(b))] \in Elems(list) /\ No(list[Min(Cached(b))]) = b
  BY <1>1, <1>2 DEF Cached, Elems
<1>4. Elems(list) \subseteq Objs
  BY <1>1 DEF Elems
<1>. QED BY <1>3, <1>4 DEF CacheInv, ListInv

\* The Block a miss evicts is in the list, and nobody has acquired or pinned it.
LEMMA VictimFacts ==
  ASSUME CacheInv, Evicts
  PROVE  /\ Victim \in Objs /\ Victim \in Elems(list) /\ Allocated(Victim)
         /\ ~blk[Victim].acquired /\ ~blk[Victim].pinned
<1>1. list \in Seq(Objs) /\ Len(list) \in Nat /\ Evictable \in SUBSET (1..Len(list))
  BY DEF CacheInv, TypeOK, Evictable
<1>2. Max(Evictable) \in Evictable
  BY <1>1, MaxFacts DEF Evicts
<1>3. Victim \in Elems(list) /\ ~blk[Victim].acquired /\ ~blk[Victim].pinned
  BY <1>1, <1>2 DEF Victim, Evictable, Elems
<1>4. Elems(list) \subseteq Objs
  BY <1>1 DEF Elems
<1>. QED BY <1>3, <1>4 DEF CacheInv, ListInv

-----------------------------------------------------------------------------
(* What every action does, field by field. *)

\* A new Block and a freed one have all their fields.
LEMMA FreshFacts ==
  /\ NoBlock \in Block
  /\ \A p \in Procs : [NoBlock EXCEPT !.allocated = TRUE, !.acquired = TRUE, !.holder = p] \in Block
  /\ \A o \in Objs : Freed(o) \in Block
<1>1. NoBlock \in Block
  BY DEF NoBlock, Block
<1>2. ASSUME NEW p \in Procs
      PROVE  [NoBlock EXCEPT !.allocated = TRUE, !.acquired = TRUE, !.holder = p] \in Block
  BY <1>1 DEF Block
<1>3. ASSUME NEW o \in Objs PROVE Freed(o) \in Block
  <2>1. ASSUME NEW v \in BOOLEAN PROVE [NoBlock EXCEPT !.shared = v] \in Block
    BY <1>1 DEF Block
  <2>2. (blk[o].shared /\ Claims(o) # {}) \in BOOLEAN
    OBVIOUS
  <2>. QED BY <2>1, <2>2 DEF Freed
<1>. QED BY <1>1, <1>2, <1>3

\* Only p's claim changes.
LEMMA ClaimFacts ==
  ASSUME TypeOK, NEW p \in Procs, NEW o \in Objs \cup {None}, cur' = [cur EXCEPT ![p] = o],
         NEW x \in Objs
  PROVE  Claims(x)' = IF x = o THEN Claims(x) \cup {p} ELSE Claims(x) \ {p}
  BY DEF TypeOK, Claims

\* A hit claims a Block of the list.
LEMMA HitStep ==
  ASSUME CacheInv, NEW p \in Procs, NEW b \in Blocks, AcquireHit(p, b)
  PROVE  \E o \in Objs :
           /\ o \in Elems(list) /\ Allocated(o) /\ cur[p] = None /\ pc[p] = "idle"
           /\ blk' \in [Objs -> Block]
           /\ \A x \in Objs : x # o => blk'[x] = blk[x]
           /\ blk'[o].allocated /\ blk'[o].acquired
           /\ blk'[o].shared <=> blk[o].shared \/ blk[o].acquired
           /\ blk'[o].pinned = blk[o].pinned /\ blk'[o].holder = blk[o].holder
           /\ blk'[o].waiters = blk[o].waiters /\ blk'[o].val = blk[o].val
           /\ cur' = [cur EXCEPT ![p] = o] /\ pc' = [pc EXCEPT ![p] = "lock"]
           /\ UNCHANGED <<list, count, disk, wild, kills, spoiled>>
<1> DEFINE o == list[Min(Cached(b))]
<1>1. o \in Objs /\ o \in Elems(list) /\ Allocated(o)
  BY HitFacts DEF AcquireHit
<1>2. /\ cur[p] = None /\ pc[p] = "idle"
      /\ blk' = [blk EXCEPT ![o].acquired = TRUE, ![o].shared = @ \/ blk[o].acquired]
      /\ cur' = [cur EXCEPT ![p] = o] /\ pc' = [pc EXCEPT ![p] = "lock"]
      /\ UNCHANGED <<list, count, disk, wild, kills, spoiled>>
  BY DEF AcquireHit, At, Goto
<1>3. blk \in [Objs -> Block]
  BY DEF CacheInv, TypeOK
<1> HIDE DEF o
<1>4. blk' \in [Objs -> Block] /\ \A x \in Objs : x # o => blk'[x] = blk[x]
  <2> DEFINE v == blk[o].shared \/ blk[o].acquired
             r == [blk[o] EXCEPT !.acquired = TRUE, !.shared = v]
  <2>0. blk[o] \in Block /\ v \in BOOLEAN
    BY <1>1, <1>3
  <2>1. blk' \in [Objs -> Block]
    <3>1. blk' = [blk EXCEPT ![o] = r]
      BY <1>1, <1>2, <1>3
    <3> HIDE DEF v
    <3>2. r \in Block
      BY <2>0 DEF Block
    <3>. QED BY <1>1, <1>3, <3>1, <3>2
  <2>2. \A x \in Objs : x # o => blk'[x] = blk[x]
    BY <1>1, <1>2, <1>3
  <2>. QED BY <2>1, <2>2
<1>5. /\ blk'[o].allocated /\ blk'[o].acquired
      /\ blk'[o].shared <=> blk[o].shared \/ blk[o].acquired
      /\ blk'[o].pinned = blk[o].pinned /\ blk'[o].holder = blk[o].holder
      /\ blk'[o].waiters = blk[o].waiters /\ blk'[o].val = blk[o].val
  BY <1>1, <1>2, <1>3 DEF Block, Allocated
<1>. QED BY <1>1, <1>2, <1>4, <1>5

\* A miss of block b by p: Block new is allocated, and a victim freed.
Missed(p, b, new) ==
    /\ No(new) = b /\ ~Allocated(new) /\ Claims(new) = {}
    /\ cur[p] = None /\ pc[p] = "idle"
    /\ \A x \in Elems(list) : No(x) # b
    /\ Victims \subseteq Elems(list)
    /\ \A v \in Victims : ~blk[v].acquired /\ ~blk[v].pinned
    /\ blk' \in [Objs -> Block]
    /\ blk'[new].allocated /\ blk'[new].acquired /\ ~blk'[new].pinned
    /\ blk'[new].holder = p /\ blk'[new].waiters = <<>> /\ ~blk'[new].shared
    /\ \A v \in Victims :
         /\ ~blk'[v].allocated
         /\ blk'[v].shared <=> blk[v].shared /\ Claims(v) # {}
    /\ \A x \in Objs : x # new /\ x \notin Victims => blk'[x] = blk[x]
    /\ list' \in Seq(Objs) /\ NoDup(list') /\ Elems(list') = Elems(list) \ Victims
    /\ count' \in Nat /\ spoiled \subseteq spoiled' /\ spoiled' \subseteq Blocks
    /\ \A x \in Objs : No(x) = b /\ Allocated(x) => b \in spoiled'
    /\ \A v \in Victims : Claims(v) # {} => No(v) \in spoiled'
    /\ cur' = [cur EXCEPT ![p] = new] /\ pc' = [pc EXCEPT ![p] = "read"]
    /\ UNCHANGED <<disk, wild, kills>>

\* What AcquireMiss does is such a miss.
LEMMA MissStep ==
  ASSUME CacheInv, NEW p \in Procs, NEW b \in Blocks, AcquireMiss(p, b)
  PROVE  \E new \in Objs : Missed(p, b, new)
<1> DEFINE new == <<b, Min(Unused(b))>>
           fresh == [NoBlock EXCEPT !.allocated = TRUE, !.acquired = TRUE, !.holder = p]
<1>1. cur[p] = None /\ pc[p] = "idle" /\ Cached(b) = {}
  BY DEF AcquireMiss, At
<1>2. new \in Objs /\ ~Allocated(new) /\ Claims(new) = {} /\ No(new) = b
  BY <1>1, UnusedFacts DEF No
<1>3. \A x \in Elems(list) : No(x) # b
  BY <1>1 DEF Cached, Elems
<1>4. /\ Victims \subseteq Elems(list) /\ Victims \subseteq Objs
      /\ \A v \in Victims : Allocated(v) /\ ~blk[v].acquired /\ ~blk[v].pinned
  BY VictimFacts DEF Victims
<1>5. /\ blk' = [o \in Objs |-> IF o = new THEN fresh
                              ELSE IF o \in Victims THEN Freed(o) ELSE blk[o]]
      /\ cur' = [cur EXCEPT ![p] = new] /\ pc' = [pc EXCEPT ![p] = "read"]
      /\ UNCHANGED <<disk, wild, kills>>
  BY DEF AcquireMiss, Goto
<1>6. fresh \in Block /\ \A o \in Objs : Freed(o) \in Block
  BY FreshFacts
<1>7. blk \in [Objs -> Block]
  BY DEF CacheInv, TypeOK
<1>8. /\ fresh.allocated /\ fresh.acquired /\ ~fresh.pinned /\ fresh.holder = p
      /\ fresh.waiters = <<>> /\ ~fresh.shared
  BY DEF NoBlock
<1>9. ASSUME NEW v \in Victims
      PROVE  ~Freed(v).allocated /\ (Freed(v).shared <=> blk[v].shared /\ Claims(v) # {})
  BY DEF NoBlock, Freed
<1>10. list' \in Seq(Objs) /\ NoDup(list') /\ Elems(list') = Elems(list) \ Victims
  <2>1. list \in Seq(Objs) /\ NoDup(list)
    BY DEF CacheInv, TypeOK, ListInv
  <2>2. CASE Evicts
    BY <2>1, <2>2, DetachFacts DEF AcquireMiss, Victims
  <2>3. CASE ~Evicts
    BY <2>1, <2>3 DEF AcquireMiss, Victims
  <2>. QED BY <2>2, <2>3
<1>11. count' \in Nat
  BY DEF AcquireMiss, CacheInv, TypeOK
<1>12. /\ spoiled \subseteq spoiled' /\ spoiled' \subseteq Blocks
       /\ \A x \in Objs : No(x) = b /\ Allocated(x) => b \in spoiled'
       /\ \A v \in Victims : Claims(v) # {} => No(v) \in spoiled'
  <2> DEFINE S == {x \in Objs : \/ No(x) = b /\ Allocated(x)
                                \/ x \in Victims /\ Claims(x) # {}}
  <2>1. spoiled' = spoiled \cup {No(o) : o \in S} /\ spoiled \subseteq Blocks
    BY DEF AcquireMiss, CacheInv, TypeOK
  <2>2. \A x \in Objs : No(x) \in Blocks
    BY DEF Objs, No
  <2>3. /\ \A x \in Objs : No(x) = b /\ Allocated(x) => x \in S
        /\ \A v \in Victims : Claims(v) # {} => v \in S
    BY <1>4
  <2>. QED BY <2>1, <2>2, <2>3
<1> HIDE DEF new, fresh
<1>13. blk' \in [Objs -> Block]
  BY <1>5, <1>6, <1>7
<1>14. /\ blk'[new] = fresh
       /\ \A v \in Victims : blk'[v] = Freed(v)
       /\ \A x \in Objs : x # new /\ x \notin Victims => blk'[x] = blk[x]
  BY <1>2, <1>4, <1>5
<1>15. /\ blk'[new].allocated /\ blk'[new].acquired /\ ~blk'[new].pinned
       /\ blk'[new].holder = p /\ blk'[new].waiters = <<>> /\ ~blk'[new].shared
  BY <1>8, <1>14
<1>16. \A v \in Victims :
         /\ ~blk'[v].allocated
         /\ blk'[v].shared <=> blk[v].shared /\ Claims(v) # {}
  BY <1>9, <1>14
<1>. QED
  BY <1>1, <1>2, <1>3, <1>4, <1>5, <1>10, <1>11, <1>12, <1>13, <1>14, <1>15, <1>16 DEF Missed

\* The sleep lock is taken, or the process queued for it.
LEMMA LockStep ==
  ASSUME CacheInv, NEW p \in Procs, AcquireLock(p), ~UseFreed
  PROVE  LET o == cur[p]
         IN  /\ o \in Objs /\ Allocated(o) /\ pc[p] = "lock"
             /\ blk' \in [Objs -> Block]
             /\ \A x \in Objs : x # o => blk'[x] = blk[x]
             /\ blk'[o].allocated /\ blk'[o].acquired = blk[o].acquired
             /\ blk'[o].pinned = blk[o].pinned /\ blk'[o].shared = blk[o].shared
             /\ blk'[o].val = blk[o].val
             /\ \/ /\ blk[o].holder = None /\ blk'[o].holder = p
                   /\ blk'[o].waiters = blk[o].waiters /\ pc' = [pc EXCEPT ![p] = "move"]
                \/ /\ blk'[o].holder = blk[o].holder
                   /\ blk'[o].waiters = Append(blk[o].waiters, p)
                   /\ pc' = [pc EXCEPT ![p] = "wait"]
             /\ UNCHANGED <<list, count, cur, disk, wild, kills, spoiled>>
<1> DEFINE o == cur[p]
<1>1. o \in Objs /\ pc[p] = "lock" /\ blk \in [Objs -> Block]
  BY DEF AcquireLock, At, CacheInv, TypeOK, AtInv
<1>2. Allocated(o) /\ UNCHANGED <<list, count, cur, disk, wild, kills, spoiled>>
  BY DEF AcquireLock
<1>3. CASE blk[o].holder = None
  <2>1. blk' = [blk EXCEPT ![o].holder = p] /\ pc' = [pc EXCEPT ![p] = "move"]
    BY <1>2, <1>3 DEF AcquireLock, Goto
  <2> HIDE DEF o
  <2>2. blk' \in [Objs -> Block] /\ \A x \in Objs : x # o => blk'[x] = blk[x]
    BY <1>1, <2>1 DEF Block
  <2>3. /\ blk'[o].allocated /\ blk'[o].acquired = blk[o].acquired
        /\ blk'[o].pinned = blk[o].pinned /\ blk'[o].shared = blk[o].shared
        /\ blk'[o].val = blk[o].val /\ blk'[o].waiters = blk[o].waiters /\ blk'[o].holder = p
    BY <1>1, <1>2, <2>1 DEF Block, Allocated
  <2>. QED BY <1>1, <1>2, <1>3, <2>1, <2>2, <2>3 DEF o
<1>4. CASE blk[o].holder # None
  <2>1. blk' = [blk EXCEPT ![o].waiters = Append(@, p)] /\ pc' = [pc EXCEPT ![p] = "wait"]
    BY <1>2, <1>4 DEF AcquireLock, Goto
  <2> HIDE DEF o
  <2>2. blk' \in [Objs -> Block] /\ \A x \in Objs : x # o => blk'[x] = blk[x]
    <3>1. \A w \in Seq(Procs) : Append(w, p) \in Seq(Procs)
      OBVIOUS
    <3>2. blk' \in [Objs -> Block]
      BY <1>1, <2>1, <3>1 DEF Block
    <3>. QED BY <1>1, <2>1, <3>2
  <2>3. /\ blk'[o].allocated /\ blk'[o].acquired = blk[o].acquired
        /\ blk'[o].pinned = blk[o].pinned /\ blk'[o].shared = blk[o].shared
        /\ blk'[o].val = blk[o].val /\ blk'[o].holder = blk[o].holder
        /\ blk'[o].waiters = Append(blk[o].waiters, p)
    BY <1>1, <1>2, <2>1 DEF Block, Allocated
  <2>. QED BY <1>1, <1>2, <2>1, <2>2, <2>3 DEF o
<1>. QED BY <1>3, <1>4

\* The Block is at the head of the list afterwards, once.
LEMMA MoveStep ==
  ASSUME CacheInv, NEW p \in Procs, AcquireMove(p), ~UseFreed
  PROVE  /\ cur[p] \in Objs /\ Allocated(cur[p]) /\ pc[p] = "move"
         /\ list' \in Seq(Objs) /\ NoDup(list') /\ Elems(list') = Elems(list) \cup {cur[p]}
         /\ pc' = [pc EXCEPT ![p] = "idle"]
         /\ UNCHANGED <<blk, count, cur, disk, wild, kills, spoiled>>
<1> DEFINE d == _detach_from_list(list, cur[p])
<1>1. cur[p] \in Objs /\ pc[p] = "move" /\ list \in Seq(Objs) /\ NoDup(list)
  BY DEF AcquireMove, At, CacheInv, TypeOK, AtInv, ListInv
<1>2. /\ Allocated(cur[p]) /\ list' = _insert_into_list(d, cur[p])
      /\ pc' = [pc EXCEPT ![p] = "idle"]
      /\ UNCHANGED <<blk, count, cur, disk, wild, kills, spoiled>>
  BY DEF AcquireMove, insert_to_head, Goto
<1>3. d \in Seq(Objs) /\ NoDup(d) /\ Elems(d) = Elems(list) \ {cur[p]}
  BY <1>1, DetachFacts
<1> HIDE DEF d
<1>4. list' \in Seq(Objs) /\ NoDup(list') /\ Elems(list') = Elems(d) \cup {cur[p]}
  BY <1>1, <1>2, <1>3, InsertFacts
<1>. QED BY <1>1, <1>2, <1>3, <1>4

\* A transfer leaves value v in the Block and d on disk.
LEMMA TransferStep ==
  ASSUME CacheInv, NEW p \in Procs, Transfer(p), Allocated(cur[p]),
         NEW v \in BOOLEAN, NEW d \in BOOLEAN, Transferred(p, v, d)
  PROVE  LET o == cur[p]
         IN  /\ o \in Objs /\ No(o) \in Blocks /\ pc[p] \in {"read", "sync", "unpin"}
             /\ blk' \in [Objs -> Block]
             /\ \A x \in Objs : x # o => blk'[x] = blk[x]
             /\ blk'[o].allocated /\ blk'[o].acquired = blk[o].acquired
             /\ blk'[o].shared = blk[o].shared /\ blk'[o].holder = blk[o].holder
             /\ blk'[o].waiters = blk[o].waiters /\ blk'[o].val = v
             /\ blk'[o].pinned <=> blk[o].pinned /\ pc[p] # "unpin"
             /\ list' \in Seq(Objs) /\ NoDup(list')
             /\ Elems(list') = IF pc[p] = "read" THEN Elems(list) \cup {o} ELSE Elems(list)
             /\ disk' \in [Blocks -> BOOLEAN] /\ disk'[No(o)] = d
             /\ \A b \in Blocks : b # No(o) => disk'[b] = disk[b]
             /\ pc' = [pc EXCEPT ![p] = "idle"]
             /\ UNCHANGED <<count, cur, wild>>
<1> DEFINE o == cur[p]
<1>1. /\ o \in Objs /\ pc[p] \in {"read", "sync", "unpin"} /\ blk \in [Objs -> Block]
      /\ list \in Seq(Objs) /\ NoDup(list) /\ disk \in [Blocks -> BOOLEAN]
  BY DEF Transfer, At, CacheInv, TypeOK, AtInv, ListInv
<1>2. No(o) \in Blocks
  BY <1>1 DEF Objs, No
<1>3. pc[p] = "read" => o \notin Elems(list)
  BY DEF CacheInv, ListInv
<1>4. /\ blk' = [blk EXCEPT ![o].val = v, ![o].pinned = @ /\ pc[p] # "unpin"]
      /\ list' = IF pc[p] = "read" THEN _insert_into_list(list, o) ELSE list
      /\ disk' = [disk EXCEPT ![No(o)] = d]
      /\ pc' = [pc EXCEPT ![p] = "idle"] /\ UNCHANGED <<count, cur, wild>>
  BY DEF Transferred, insert_to_head, Goto
<1>5. Allocated(o)
  OBVIOUS
<1> HIDE DEF o
<1>6. blk' \in [Objs -> Block]
  <2> DEFINE w == blk[o].pinned /\ pc[p] # "unpin"
             r == [blk[o] EXCEPT !.val = v, !.pinned = w]
  <2>1. blk' = [blk EXCEPT ![o] = r]
    BY <1>1, <1>4
  <2>2. blk[o] \in Block /\ w \in BOOLEAN
    BY <1>1
  <2> HIDE DEF w
  <2>3. r \in Block
    BY <2>2 DEF Block
  <2>. QED BY <1>1, <2>1, <2>3
<1>7. \A x \in Objs : x # o => blk'[x] = blk[x]
  BY <1>1, <1>4
<1>8. /\ blk'[o].allocated /\ blk'[o].acquired = blk[o].acquired
      /\ blk'[o].shared = blk[o].shared /\ blk'[o].holder = blk[o].holder
      /\ blk'[o].waiters = blk[o].waiters /\ blk'[o].val = v
  BY <1>1, <1>4, <1>5 DEF Block, Allocated
<1>9. blk'[o].pinned <=> blk[o].pinned /\ pc[p] # "unpin"
  BY <1>1, <1>4 DEF Block
<1>10. /\ list' \in Seq(Objs) /\ NoDup(list')
       /\ Elems(list') = IF pc[p] = "read" THEN Elems(list) \cup {o} ELSE Elems(list)
  <2>1. CASE pc[p] = "read"
    BY <1>1, <1>3, <1>4, <2>1, InsertFacts
  <2>2. CASE pc[p] # "read"
    BY <1>1, <1>4, <2>2
  <2>. QED BY <2>1, <2>2
<1>11. /\ disk' \in [Blocks -> BOOLEAN] /\ disk'[No(o)] = d
       /\ \A b \in Blocks : b # No(o) => disk'[b] = disk[b]
  BY <1>1, <1>2, <1>4
<1>. QED BY <1>1, <1>2, <1>4, <1>6, <1>7, <1>8, <1>9, <1>10, <1>11 DEF o

\* A transfer that ended, by itself or by a kill: the latter spoils the block.
LEMMA TransferBoth ==
  ASSUME CacheInv, NEW p \in Procs, TransferDone(p) \/ TransferKilled(p)
  PROVE  LET o == cur[p]
         IN  /\ o \in Objs /\ No(o) \in Blocks /\ pc[p] \in {"read", "sync", "unpin"}
             /\ Allocated(o)
             /\ blk' \in [Objs -> Block]
             /\ \A x \in Objs : x # o => blk'[x] = blk[x]
             /\ blk'[o].allocated /\ blk'[o].acquired = blk[o].acquired
             /\ blk'[o].shared = blk[o].shared /\ blk'[o].holder = blk[o].holder
             /\ blk'[o].waiters = blk[o].waiters
             /\ list' \in Seq(Objs) /\ NoDup(list')
             /\ Elems(list') = IF pc[p] = "read" THEN Elems(list) \cup {o} ELSE Elems(list)
             /\ disk' \in [Blocks -> BOOLEAN]
             /\ \A b \in Blocks : b # No(o) => disk'[b] = disk[b]
             /\ spoiled \subseteq spoiled' /\ spoiled' \subseteq Blocks
             /\ \/ No(o) \in spoiled'
                \/ /\ blk'[o].val = IF pc[p] = "read" THEN disk[No(o)] ELSE blk[o].val
                   /\ disk'[No(o)] = blk'[o].val
             /\ pc' = [pc EXCEPT ![p] = "idle"]
             /\ kills' \in 0..MaxKills /\ UNCHANGED <<count, cur, wild>>
<1> DEFINE o == cur[p]
<1>1. /\ Transfer(p) /\ Allocated(o) /\ o \in Objs /\ blk[o] \in Block
      /\ disk \in [Blocks -> BOOLEAN] /\ spoiled \subseteq Blocks /\ kills \in 0..MaxKills
  BY DEF TransferDone, TransferKilled, Transfer, At, CacheInv, TypeOK, AtInv
<1>2. No(o) \in Blocks /\ blk[o].val \in BOOLEAN /\ disk[No(o)] \in BOOLEAN
  <2>1. No(o) \in Blocks
    BY <1>1 DEF Objs, No
  <2>. QED BY <1>1, <2>1 DEF Block
<1>3. CASE TransferDone(p)
  <2> DEFINE v == IF pc[p] = "read" THEN disk[No(o)] ELSE blk[o].val
  <2>1. v \in BOOLEAN
    BY <1>2
  <2>2. Transferred(p, v, v) /\ UNCHANGED <<kills, spoiled>>
    BY <1>3 DEF TransferDone
  <2> HIDE DEF v
  <2>. QED BY <1>1, <2>1, <2>2, TransferStep DEF v
<1>4. CASE TransferKilled(p)
  <2>1. /\ \E v \in BOOLEAN : \E d \in BOOLEAN : Transferred(p, v, d)
        /\ spoiled' = spoiled \cup {No(o)}
    BY <1>2, <1>4 DEF TransferKilled
  <2>2. kills' \in 0..MaxKills
    BY <1>1, <1>4, CacheAssumption DEF TransferKilled
  <2>3. PICK v \in BOOLEAN, d \in BOOLEAN : Transferred(p, v, d)
    BY <2>1
  <2>. QED BY <1>1, <1>2, <2>1, <2>2, <2>3, TransferStep
<1>. QED BY <1>3, <1>4

\* A sync makes the holder's copy the only one with the last value.
LEMMA SyncStep ==
  ASSUME CacheInv, NEW p \in Procs, NEW ctx \in BOOLEAN, Sync(p, ctx), ~UseFreed
  PROVE  LET o == cur[p]
         IN  /\ o \in Objs /\ No(o) \in Blocks /\ pc[p] = "idle" /\ Allocated(o)
             /\ blk' \in [Objs -> Block]
             /\ \A x \in Objs :
                  /\ blk'[x].allocated = blk[x].allocated
                  /\ blk'[x].acquired = blk[x].acquired
                  /\ blk'[x].shared = blk[x].shared /\ blk'[x].holder = blk[x].holder
                  /\ blk'[x].waiters = blk[x].waiters
                  /\ blk'[x].val <=> x = o \/ (blk[x].val /\ No(x) # No(o))
                  /\ blk'[x].pinned <=> blk[x].pinned \/ (ctx /\ x = o)
             /\ disk' \in [Blocks -> BOOLEAN]
             /\ \A b \in Blocks : b # No(o) => disk'[b] = disk[b]
             /\ pc' = IF ctx THEN pc ELSE [pc EXCEPT ![p] = "sync"]
             /\ UNCHANGED <<list, count, cur, wild, kills, spoiled>>
<1> DEFINE o == cur[p]
           V(x) == x = o \/ (blk[x].val /\ No(x) # No(o))
           P(x) == blk[x].pinned \/ (ctx /\ x = o)
<1>1. /\ o \in Objs /\ pc[p] = "idle" /\ blk \in [Objs -> Block] /\ disk \in [Blocks -> BOOLEAN]
  BY DEF Sync, Holds, At, CacheInv, TypeOK
<1>2. No(o) \in Blocks
  BY <1>1 DEF Objs, No
<1>3. /\ Allocated(o)
      /\ blk' = [x \in Objs |-> [blk[x] EXCEPT !.val = x = o \/ (@ /\ No(x) # No(o)),
                                               !.pinned = @ \/ (ctx /\ x = o)]]
      /\ disk' = [disk EXCEPT ![No(o)] = FALSE]
      /\ pc' = IF ctx THEN pc ELSE [pc EXCEPT ![p] = "sync"]
      /\ UNCHANGED <<list, count, cur, wild, kills, spoiled>>
  BY DEF Sync, Goto
<1> HIDE DEF o
<1>4. ASSUME NEW x \in Objs
      PROVE  blk'[x] = [blk[x] EXCEPT !.val = V(x), !.pinned = P(x)]
  BY <1>3
<1>5. \A x \in Objs : V(x) \in BOOLEAN /\ P(x) \in BOOLEAN
  OBVIOUS
<1> HIDE DEF V, P
<1>7. ASSUME NEW x \in Objs
      PROVE  /\ blk'[x] \in Block /\ blk'[x].val = V(x) /\ blk'[x].pinned = P(x)
             /\ blk'[x].allocated = blk[x].allocated /\ blk'[x].acquired = blk[x].acquired
             /\ blk'[x].shared = blk[x].shared /\ blk'[x].holder = blk[x].holder
             /\ blk'[x].waiters = blk[x].waiters
  <2>1. blk[x] \in Block
    BY <1>1
  <2>2. V(x) \in BOOLEAN /\ P(x) \in BOOLEAN
    BY <1>5
  <2> DEFINE u == [blk[x] EXCEPT !.val = V(x), !.pinned = P(x)]
  <2>3. /\ u \in Block /\ u.val = V(x) /\ u.pinned = P(x)
        /\ u.allocated = blk[x].allocated /\ u.acquired = blk[x].acquired
        /\ u.shared = blk[x].shared /\ u.holder = blk[x].holder /\ u.waiters = blk[x].waiters
    BY <2>1, <2>2 DEF Block
  <2>4. blk'[x] = u
    BY <1>4
  <2> HIDE DEF u
  <2>. QED BY <2>3, <2>4
<1>8. blk' \in [Objs -> Block]
  BY <1>3, <1>7
<1>9. /\ disk' \in [Blocks -> BOOLEAN]
      /\ \A b \in Blocks : b # No(o) => disk'[b] = disk[b]
  BY <1>1, <1>2, <1>3
<1>10. \A x \in Objs :
        /\ blk'[x].val <=> x = o \/ (blk[x].val /\ No(x) # No(o))
        /\ blk'[x].pinned <=> blk[x].pinned \/ (ctx /\ x = o)
  BY <1>5, <1>7 DEF V, P
<1>. QED BY <1>1, <1>2, <1>3, <1>7, <1>8, <1>9, <1>10 DEF o

\* A release drops the claim and hands the sleep lock to the first waiter.
LEMMA ReleaseStep ==
  ASSUME CacheInv, NEW p \in Procs, Release(p), ~UseFreed
  PROVE  LET o == cur[p]
             w == blk[o].waiters
         IN  /\ o \in Objs /\ pc[p] = "idle" /\ Allocated(o) /\ w \in Seq(Procs)
             /\ blk' \in [Objs -> Block]
             /\ \A x \in Objs : x # o => blk'[x] = blk[x]
             /\ blk'[o].allocated /\ ~blk'[o].acquired
             /\ blk'[o].shared = blk[o].shared /\ blk'[o].val = blk[o].val
             /\ blk'[o].pinned = blk[o].pinned
             /\ blk'[o].holder = IF w = <<>> THEN None ELSE Head(w)
             /\ blk'[o].waiters = IF w = <<>> THEN w ELSE Tail(w)
             /\ pc' = [q \in Procs |-> IF w # <<>> /\ q = Head(w) THEN "move" ELSE pc[q]]
             /\ cur' = [cur EXCEPT ![p] = None]
             /\ UNCHANGED <<list, count, disk, wild, kills, spoiled>>
<1> DEFINE o == cur[p]
           w == blk[o].waiters
           h == IF w = <<>> THEN None ELSE Head(w)
           t == IF w = <<>> THEN w ELSE Tail(w)
<1>1. o \in Objs /\ pc[p] = "idle" /\ blk \in [Objs -> Block] /\ w \in Seq(Procs)
  <2>1. o \in Objs /\ pc[p] = "idle" /\ blk \in [Objs -> Block]
    BY DEF Release, Holds, At, CacheInv, TypeOK
  <2>. QED BY <2>1 DEF Block
<1>2. h \in Procs \cup {None} /\ t \in Seq(Procs)
  BY <1>1, HeadTailFacts
<1>3. /\ Allocated(o)
      /\ blk' = [blk EXCEPT ![o].acquired = FALSE, ![o].holder = h, ![o].waiters = t]
      /\ pc' = [q \in Procs |-> IF w # <<>> /\ q = Head(w) THEN "move" ELSE pc[q]]
      /\ cur' = [cur EXCEPT ![p] = None]
      /\ UNCHANGED <<list, count, disk, wild, kills, spoiled>>
  BY DEF Release
<1> HIDE DEF o, h, t
<1>4. blk' \in [Objs -> Block]
  <2> DEFINE r == [blk[o] EXCEPT !.acquired = FALSE, !.holder = h, !.waiters = t]
  <2>1. blk' = [blk EXCEPT ![o] = r]
    BY <1>1, <1>3
  <2>2. blk[o] \in Block
    BY <1>1
  <2>3. r \in Block
    BY <1>2, <2>2 DEF Block
  <2>. QED BY <1>1, <2>1, <2>3
<1>5. \A x \in Objs : x # o => blk'[x] = blk[x]
  BY <1>1, <1>3
<1>6. /\ blk'[o].allocated /\ ~blk'[o].acquired
      /\ blk'[o].shared = blk[o].shared /\ blk'[o].val = blk[o].val
      /\ blk'[o].pinned = blk[o].pinned /\ blk'[o].holder = h /\ blk'[o].waiters = t
  BY <1>1, <1>3 DEF Block, Allocated
<1>. QED BY <1>1, <1>3, <1>4, <1>5, <1>6 DEF o, h, t

-----------------------------------------------------------------------------
(* The invariant. *)

\* An empty cache.
LEMMA CacheInvInit == Init => CacheInv
<1> SUFFICES ASSUME Init PROVE CacheInv
  OBVIOUS
<1>1. NoBlock \in Block /\ ~NoBlock.allocated
  BY FreshFacts DEF NoBlock
<1>2. TypeOK
  BY <1>1, CacheAssumption DEF Init, TypeOK
<1>3. \A o \in Objs : ~Allocated(o) /\ Claims(o) = {}
  BY <1>1, CacheAssumption DEF Init, Allocated, Claims
<1>4. NoDup(list) /\ Elems(list) = {}
  <2>1. Len(list) = 0 /\ 1..0 = {}
    BY DEF Init
  <2>. QED BY <2>1 DEF NoDup, Elems
<1>5. ListInv
  BY <1>3, <1>4 DEF ListInv, Init
<1>6. AtInv /\ HolderInv /\ ShareInv
  BY <1>3 DEF Init, AtInv, HolderInv, ShareInv
<1>7. DataInv
  BY <1>3 DEF Init, DataInv
<1>. QED BY <1>2, <1>5, <1>6, <1>7 DEF CacheInv

\* Every step keeps the types.
LEMMA TypeNext == CacheInv /\ [Next]_vars => TypeOK'
<1> SUFFICES ASSUME CacheInv, [Next]_vars PROVE TypeOK'
  OBVIOUS
<1> TypeOK
  BY DEF CacheInv
<1>1. CASE UNCHANGED vars
  BY <1>1 DEF vars, TypeOK
<1>2. CASE UseFreed
  BY <1>2 DEF UseFreed, TypeOK
<1>3. ASSUME NEW p \in Procs, NEW b \in Blocks, AcquireHit(p, b) PROVE TypeOK'
  BY <1>3, HitStep DEF TypeOK
<1>4. ASSUME NEW p \in Procs, NEW b \in Blocks, AcquireMiss(p, b) PROVE TypeOK'
  <2>1. PICK new \in Objs : Missed(p, b, new)
    BY <1>4, MissStep
  <2>. QED BY <2>1 DEF Missed, TypeOK
<1>5. ASSUME NEW p \in Procs, AcquireLock(p), ~UseFreed PROVE TypeOK'
  BY <1>5, LockStep DEF TypeOK
<1>6. ASSUME NEW p \in Procs, AcquireKilled(p) PROVE TypeOK'
  BY <1>6, CacheAssumption DEF AcquireKilled, TypeOK
<1>7. ASSUME NEW p \in Procs, AcquireMove(p), ~UseFreed PROVE TypeOK'
  BY <1>7, MoveStep DEF TypeOK
<1>8. ASSUME NEW p \in Procs, TransferDone(p) PROVE TypeOK'
  BY <1>8, TransferBoth DEF TypeOK
<1>9. ASSUME NEW p \in Procs, TransferKilled(p) PROVE TypeOK'
  BY <1>9, TransferBoth DEF TypeOK
<1>10. ASSUME NEW p \in Procs, NEW ctx \in BOOLEAN, Sync(p, ctx), ~UseFreed PROVE TypeOK'
  BY <1>10, SyncStep DEF TypeOK
<1>11. ASSUME NEW p \in Procs, Checkpoint(p) PROVE TypeOK'
  BY <1>11 DEF Checkpoint, TypeOK, Goto
<1>12. ASSUME NEW p \in Procs, Release(p), ~UseFreed PROVE TypeOK'
  BY <1>12, ReleaseStep DEF TypeOK
<1>. QED
  BY <1>1, <1>2, <1>3, <1>4, <1>5, <1>6, <1>7, <1>8, <1>9, <1>10, <1>11, <1>12
     DEF Next, Step, TransferFreed

\* The parts of the invariant beside the types.
Rest == ListInv /\ AtInv /\ HolderInv /\ ShareInv /\ DataInv

\* The invariant, unfolded for the steps below.
LEMMA InvFacts ==
  ASSUME CacheInv
  PROVE  /\ ListInv /\ AtInv /\ HolderInv /\ ShareInv /\ DataInv
         /\ Elems(list) \subseteq Objs
         /\ cur \in [Procs -> Objs \cup {None}] /\ None \notin Objs /\ None \notin Procs
         /\ pc \in [Procs -> {"idle", "lock", "wait", "move", "read", "sync", "unpin"}]
         /\ blk \in [Objs -> Block] /\ disk \in [Blocks -> BOOLEAN]
  BY CacheAssumption DEF CacheInv, TypeOK, Elems

\* A hit: a second claim makes the Block shared.
LEMMA HitKeeps ==
  ASSUME CacheInv, NEW p \in Procs, NEW b \in Blocks, AcquireHit(p, b)
  PROVE  Rest'
<1>1. PICK o \in Objs :
         /\ o \in Elems(list) /\ Allocated(o) /\ cur[p] = None /\ pc[p] = "idle"
         /\ \A x \in Objs : x # o => blk'[x] = blk[x]
         /\ blk'[o].allocated /\ blk'[o].acquired
         /\ blk'[o].shared <=> blk[o].shared \/ blk[o].acquired
         /\ blk'[o].pinned = blk[o].pinned /\ blk'[o].holder = blk[o].holder
         /\ blk'[o].waiters = blk[o].waiters /\ blk'[o].val = blk[o].val
         /\ cur' = [cur EXCEPT ![p] = o] /\ pc' = [pc EXCEPT ![p] = "lock"]
         /\ UNCHANGED <<list, disk, spoiled>>
  BY HitStep
<1>2. /\ ListInv /\ AtInv /\ HolderInv /\ ShareInv /\ DataInv
      /\ Elems(list) \subseteq Objs
  BY InvFacts
<1>3. /\ cur \in [Procs -> Objs \cup {None}] /\ None \notin Objs /\ None \notin Procs
      /\ pc \in [Procs -> {"idle", "lock", "wait", "move", "read", "sync", "unpin"}]
  BY InvFacts
<1>4. \A x \in Objs : Claims(x)' = IF x = o THEN Claims(x) \cup {p} ELSE Claims(x)
  BY <1>1, <1>3 DEF Claims
<1>5. \A x \in Objs : Allocated(x)' <=> Allocated(x)
  BY <1>1 DEF Allocated
<1>6. \A q \in Procs, x \in Objs : Reads(q, x)' <=> Reads(q, x)
  BY <1>1, <1>3 DEF Reads
<1>7. ListInv'
  <2>1. \A q \in Procs : pc'[q] = "read" =>
          q # p /\ pc[q] = "read" /\ cur'[q] = cur[q] /\ cur[q] \in Objs /\ cur[q] # o
    BY <1>1, <1>2, <1>3 DEF ListInv, AtInv
  <2>2. ASSUME NEW q \in Procs, pc'[q] = "read"
        PROVE  /\ Allocated(cur[q])' /\ ~blk'[cur'[q]].pinned
               /\ cur'[q] \notin Elems(list') /\ Claims(cur[q])' = {q}
    <3>1. /\ pc[q] = "read" /\ cur'[q] = cur[q] /\ cur[q] \in Objs /\ cur[q] # o
      BY <2>1, <2>2
    <3>2. Allocated(cur[q]) /\ ~blk[cur[q]].pinned /\ cur[q] \notin Elems(list)
          /\ Claims(cur[q]) = {q}
      BY <1>2, <3>1 DEF ListInv
    <3>3. Claims(cur[q])' = {q}
      BY <1>1, <1>3, <3>1, <3>2 DEF Claims
    <3>. QED BY <1>1, <3>1, <3>2, <3>3 DEF Allocated
  <2>. QED BY <1>1, <1>2, <1>5, <1>6, <2>2 DEF ListInv
<1>8. AtInv'
  BY <1>1, <1>2, <1>3 DEF AtInv
<1>9. HolderInv'
  BY <1>1, <1>2, <1>3, <1>4, <1>5 DEF HolderInv, LockedPcs
<1>10. ShareInv'
  BY <1>1, <1>2, <1>4, <1>5 DEF ShareInv
<1>11. DataInv'
  BY <1>1, <1>2, <1>3, <1>5, <1>6 DEF DataInv
<1>. QED BY <1>7, <1>8, <1>9, <1>10, <1>11 DEF Rest

\* A miss: an evicted Block that nobody claims has its last value on disk.
LEMMA MissKeeps ==
  ASSUME CacheInv, NEW p \in Procs, NEW b \in Blocks, AcquireMiss(p, b)
  PROVE  Rest'
<1>0. PICK new \in Objs : Missed(p, b, new)
  BY MissStep
<1>1. /\ No(new) = b /\ ~Allocated(new) /\ Claims(new) = {}
      /\ cur[p] = None /\ pc[p] = "idle"
      /\ \A x \in Elems(list) : No(x) # b
      /\ Victims \subseteq Elems(list)
      /\ \A v \in Victims : ~blk[v].acquired /\ ~blk[v].pinned
      /\ blk' \in [Objs -> Block]
      /\ blk'[new].allocated /\ blk'[new].acquired /\ ~blk'[new].pinned
      /\ blk'[new].holder = p /\ blk'[new].waiters = <<>> /\ ~blk'[new].shared
      /\ \A v \in Victims :
           /\ ~blk'[v].allocated
           /\ blk'[v].shared <=> blk[v].shared /\ Claims(v) # {}
      /\ \A x \in Objs : x # new /\ x \notin Victims => blk'[x] = blk[x]
      /\ list' \in Seq(Objs) /\ NoDup(list') /\ Elems(list') = Elems(list) \ Victims
      /\ count' \in Nat /\ spoiled \subseteq spoiled' /\ spoiled' \subseteq Blocks
      /\ \A x \in Objs : No(x) = b /\ Allocated(x) => b \in spoiled'
      /\ \A v \in Victims : Claims(v) # {} => No(v) \in spoiled'
      /\ cur' = [cur EXCEPT ![p] = new] /\ pc' = [pc EXCEPT ![p] = "read"]
      /\ UNCHANGED <<disk, wild, kills>>
  BY <1>0 DEF Missed
<1>2. /\ ListInv /\ AtInv /\ HolderInv /\ ShareInv /\ DataInv
      /\ Elems(list) \subseteq Objs
  BY InvFacts
<1>3. /\ cur \in [Procs -> Objs \cup {None}] /\ None \notin Objs /\ None \notin Procs
      /\ pc \in [Procs -> {"idle", "lock", "wait", "move", "read", "sync", "unpin"}]
  BY InvFacts
<1>4. \A x \in Objs : Claims(x)' = IF x = new THEN {p} ELSE Claims(x)
  BY <1>1, <1>3 DEF Claims
<1>5. /\ new \notin Victims /\ new \notin Elems(list)
      /\ \A v \in Victims : v \in Objs /\ Allocated(v)
  BY <1>1, <1>2 DEF ListInv
<1>6. \A x \in Objs : Allocated(x)' <=> x = new \/ (Allocated(x) /\ x \notin Victims)
  BY <1>1, <1>5 DEF Allocated
<1>7. /\ \A q \in Procs, x \in Objs : x # new => (Reads(q, x)' <=> Reads(q, x))
      /\ Reads(p, new)'
  BY <1>1, <1>3 DEF Reads
<1>8. ListInv'
  <2>1. \A x \in Elems(list') : Allocated(x)'
    BY <1>1, <1>2, <1>5, <1>6 DEF ListInv
  <2>2. ASSUME NEW q \in Procs, pc'[q] = "read"
        PROVE  /\ Allocated(cur[q])' /\ ~blk'[cur'[q]].pinned
               /\ cur'[q] \notin Elems(list') /\ Claims(cur[q])' = {q}
    <3>1. CASE q = p
      <4>1. cur'[q] = new
        BY <1>1, <1>3, <3>1
      <4>2. Claims(cur[q])' = {q}
        BY <1>1, <1>3, <3>1 DEF Claims
      <4>. QED BY <1>1, <1>5, <4>1, <4>2 DEF Allocated
    <3>2. CASE q # p
      <4>1. pc[q] = "read" /\ cur'[q] = cur[q] /\ cur[q] \in Objs
        BY <1>1, <1>2, <1>3, <2>2, <3>2 DEF AtInv
      <4>2. Allocated(cur[q]) /\ ~blk[cur[q]].pinned /\ cur[q] \notin Elems(list)
            /\ Claims(cur[q]) = {q}
        BY <1>2, <4>1 DEF ListInv
      <4>3. cur[q] # new /\ cur[q] \notin Victims
        BY <1>1, <4>2
      <4>4. Claims(cur[q])' = {q}
        BY <1>1, <1>3, <3>2, <4>1, <4>2, <4>3 DEF Claims
      <4>5. blk'[cur[q]] = blk[cur[q]]
        BY <1>1, <4>1, <4>3
      <4>. QED BY <1>1, <4>1, <4>2, <4>4, <4>5 DEF Allocated
    <3>. QED BY <3>1, <3>2
  <2>3. ASSUME NEW x \in Objs, Allocated(x)'
        PROVE  x \in Elems(list') \/ \E q \in Procs : Reads(q, x)'
    BY <1>1, <1>2, <1>6, <1>7, <2>3 DEF ListInv
  <2>. QED BY <1>1, <2>1, <2>2, <2>3 DEF ListInv
<1>9. AtInv'
  BY <1>1, <1>2, <1>3 DEF AtInv
<1>10. HolderInv'
  <2> SUFFICES ASSUME NEW x \in Objs, Allocated(x)'
               PROVE  /\ \A q \in Claims(x)' : pc'[q] \in LockedPcs => blk'[x].holder = q
                      /\ \A q \in Elems(blk'[x].waiters) : pc'[q] = "wait" /\ cur'[q] = x
                      /\ NoDup(blk'[x].waiters)
    BY DEF HolderInv
  <2>1. CASE x = new
    <3>1. Elems(<<>>) = {} /\ NoDup(<<>>)
      BY DEF Elems, NoDup
    <3>. QED BY <1>1, <1>4, <2>1, <3>1
  <2>2. CASE x # new
    <3>1. Allocated(x) /\ blk'[x] = blk[x] /\ Claims(x)' = Claims(x)
      BY <1>1, <1>4, <1>6, <2>2
    <3>2. p \notin Claims(x)
      BY <1>1, <1>3 DEF Claims
    <3>. QED BY <1>1, <1>2, <1>3, <3>1, <3>2 DEF HolderInv, Claims
  <2>. QED BY <2>1, <2>2
<1>11. ShareInv'
  <2> SUFFICES ASSUME NEW x \in Objs
               PROVE  /\ Allocated(x)' /\ ~blk'[x].shared =>
                          /\ \A q, r \in Claims(x)' : q = r
                          /\ blk'[x].acquired <=> Claims(x)' # {}
                      /\ ~Allocated(x)' /\ Claims(x)' # {} => blk'[x].shared
    BY DEF ShareInv
  <2>1. CASE x = new
    BY <1>1, <1>4, <1>6, <2>1
  <2>2. CASE x \in Victims
    BY <1>1, <1>2, <1>4, <1>5, <1>6, <2>2 DEF ShareInv
  <2>3. CASE x # new /\ x \notin Victims
    BY <1>1, <1>2, <1>4, <1>6, <2>3 DEF ShareInv
  <2>. QED BY <2>1, <2>2, <2>3
<1>12. DataInv'
  <2> SUFFICES ASSUME NEW c \in Blocks \ spoiled'
               PROVE  /\ \A o, x \in Objs :
                          No(o) = c /\ No(x) = c /\ Allocated(o)' /\ Allocated(x)' => o = x
                      /\ \A q \in Procs : cur'[q] # None /\ No(cur'[q]) = c => Allocated(cur[q])'
                      /\ (\A o \in Objs : No(o) = c => ~Allocated(o)') => disk'[c]
                      /\ \A o \in Objs : No(o) = c /\ Allocated(o)' =>
                          /\ blk'[o].val \/ \E q \in Procs : Reads(q, o)'
                          /\ \/ disk'[c] \/ blk'[o].pinned
                             \/ \E q \in Procs : pc'[q] = "sync" /\ cur'[q] = o
    BY DEF DataInv
  <2>0. c \in Blocks \ spoiled /\ disk' = disk
    BY <1>1
  <2>1. \A o, x \in Objs : No(o) = c /\ No(x) = c /\ Allocated(o)' /\ Allocated(x)' => o = x
    BY <1>1, <1>2, <1>6, <2>0 DEF DataInv
  <2>2. ASSUME NEW q \in Procs, cur'[q] # None, No(cur'[q]) = c PROVE Allocated(cur[q])'
    <3>1. CASE q = p
      BY <1>1, <1>3, <3>1 DEF Allocated
    <3>2. CASE q # p
      <4>1. cur'[q] = cur[q] /\ cur[q] \in Objs
        BY <1>1, <1>3, <2>2, <3>2
      <4>2. Allocated(cur[q]) /\ cur[q] # new
        BY <1>1, <1>2, <2>0, <2>2, <4>1 DEF DataInv
      <4>3. q \in Claims(cur[q])
        BY DEF Claims
      <4>4. cur[q] \notin Victims
        BY <1>1, <2>2, <4>1, <4>3
      <4>5. blk'[cur[q]] = blk[cur[q]]
        BY <1>1, <4>1, <4>2, <4>4
      <4>. QED BY <4>1, <4>2, <4>5 DEF Allocated
    <3>. QED BY <3>1, <3>2
  <2>3. ASSUME \A o \in Objs : No(o) = c => ~Allocated(o)' PROVE disk[c]
    <3>1. CASE \E v \in Victims : No(v) = c
      <4>1. PICK v \in Victims : No(v) = c
        BY <3>1
      <4>2. v \in Objs /\ Allocated(v) /\ ~blk[v].pinned /\ Claims(v) = {}
        BY <1>1, <1>5, <4>1
      <4>. QED BY <1>2, <2>0, <4>1, <4>2 DEF DataInv, Claims
    <3>2. CASE \A v \in Victims : No(v) # c
      <4>1. \A o \in Objs : No(o) = c => ~Allocated(o)
        BY <1>6, <2>3, <3>2
      <4>. QED BY <1>2, <2>0, <4>1 DEF DataInv
    <3>. QED BY <3>1, <3>2
  <2>4. ASSUME NEW o \in Objs, No(o) = c, Allocated(o)'
        PROVE  /\ blk'[o].val \/ \E q \in Procs : Reads(q, o)'
               /\ \/ disk[c] \/ blk'[o].pinned
                  \/ \E q \in Procs : pc'[q] = "sync" /\ cur'[q] = o
    <3>1. CASE o = new
      <4>1. \A x \in Objs : No(x) = c => ~Allocated(x)
        BY <1>1, <2>4, <3>1
      <4>2. disk[c]
        BY <1>2, <2>0, <4>1 DEF DataInv
      <4>. QED BY <1>7, <3>1, <4>2
    <3>2. CASE o # new
      <4>1. Allocated(o) /\ blk'[o] = blk[o]
        BY <1>1, <1>6, <2>4, <3>2
      <4>2. /\ blk[o].val \/ \E q \in Procs : Reads(q, o)
            /\ \/ disk[c] \/ blk[o].pinned
               \/ \E q \in Procs : pc[q] = "sync" /\ cur[q] = o
        BY <1>2, <2>0, <2>4, <4>1 DEF DataInv
      <4>3. \A q \in Procs : cur[q] = o => q # p /\ pc'[q] = pc[q] /\ cur'[q] = cur[q]
        BY <1>1, <1>3
      <4>. QED BY <1>7, <3>2, <4>1, <4>2, <4>3
    <3>. QED BY <3>1, <3>2
  <2>. QED BY <2>0, <2>1, <2>2, <2>3, <2>4
<1>. QED BY <1>8, <1>9, <1>10, <1>11, <1>12 DEF Rest

\* The sleep lock is free only if nobody is past it.
LEMMA LockKeeps ==
  ASSUME CacheInv, NEW p \in Procs, AcquireLock(p), ~UseFreed
  PROVE  Rest'
<1> DEFINE o == cur[p]
<1>1. /\ o \in Objs /\ Allocated(o) /\ pc[p] = "lock" /\ cur' = cur
      /\ \A x \in Objs : x # o => blk'[x] = blk[x]
      /\ blk'[o].allocated /\ blk'[o].acquired = blk[o].acquired
      /\ blk'[o].pinned = blk[o].pinned /\ blk'[o].shared = blk[o].shared
      /\ blk'[o].val = blk[o].val
      /\ UNCHANGED <<list, count, disk, wild, kills, spoiled>>
  BY LockStep
<1>0. \/ /\ blk[o].holder = None /\ blk'[o].holder = p
         /\ blk'[o].waiters = blk[o].waiters /\ pc' = [pc EXCEPT ![p] = "move"]
      \/ /\ blk'[o].holder = blk[o].holder
         /\ blk'[o].waiters = Append(blk[o].waiters, p)
         /\ pc' = [pc EXCEPT ![p] = "wait"]
  BY LockStep
<1>2. /\ ListInv /\ AtInv /\ HolderInv /\ ShareInv /\ DataInv
      /\ Elems(list) \subseteq Objs
  BY InvFacts
<1>3. /\ cur \in [Procs -> Objs \cup {None}] /\ None \notin Objs /\ None \notin Procs
      /\ pc \in [Procs -> {"idle", "lock", "wait", "move", "read", "sync", "unpin"}]
  BY InvFacts
<1>4. \A x \in Objs : Claims(x)' = Claims(x) /\ (Allocated(x)' <=> Allocated(x))
  BY <1>1 DEF Claims, Allocated
<1>5. /\ pc' \in [Procs -> {"idle", "lock", "wait", "move", "read", "sync", "unpin"}]
      /\ \A q \in Procs : q # p => pc'[q] = pc[q]
      /\ pc'[p] \in {"move", "wait"}
  BY <1>0, <1>3
<1> HIDE DEF o
<1>6. \A q \in Procs, x \in Objs : Reads(q, x)' <=> Reads(q, x)
  BY <1>1, <1>5 DEF Reads
<1>7. ListInv'
  <2>1. ASSUME NEW q \in Procs, pc'[q] = "read"
        PROVE  /\ Allocated(cur[q])' /\ ~blk'[cur'[q]].pinned
               /\ cur'[q] \notin Elems(list') /\ Claims(cur[q])' = {q}
    <3>1. pc[q] = "read" /\ cur[q] \in Objs
      BY <1>1, <1>2, <1>3, <1>5, <2>1 DEF AtInv
    <3>2. Allocated(cur[q]) /\ ~blk[cur[q]].pinned /\ cur[q] \notin Elems(list)
          /\ Claims(cur[q]) = {q}
      BY <1>2, <3>1 DEF ListInv
    <3>3. Claims(cur[q])' = {q}
      BY <1>1, <3>2 DEF Claims
    <3>. QED BY <1>1, <3>1, <3>2, <3>3 DEF Allocated
  <2>. QED BY <1>1, <1>2, <1>4, <1>6, <2>1 DEF ListInv
<1>8. AtInv'
  BY <1>1, <1>2, <1>3, <1>5 DEF AtInv, o
<1>9. HolderInv'
  <2> SUFFICES ASSUME NEW x \in Objs, Allocated(x)
               PROVE  /\ \A q \in Claims(x) : pc'[q] \in LockedPcs => blk'[x].holder = q
                      /\ \A q \in Elems(blk'[x].waiters) : pc'[q] = "wait" /\ cur[q] = x
                      /\ NoDup(blk'[x].waiters)
    BY <1>1, <1>4 DEF HolderInv
  <2>1. /\ \A q \in Claims(x) : pc[q] \in LockedPcs => blk[x].holder = q
        /\ \A q \in Elems(blk[x].waiters) : pc[q] = "wait" /\ cur[q] = x
        /\ NoDup(blk[x].waiters) /\ Claims(x) \subseteq Procs
        /\ p \notin Elems(blk[x].waiters) /\ blk[x].waiters \in Seq(Procs)
        /\ Elems(blk[x].waiters) \subseteq Procs
    <3>1. blk[x].waiters \in Seq(Procs)
      BY InvFacts DEF Block
    <3>. QED BY <1>1, <1>2, <3>1 DEF HolderInv, Claims, Elems
  <2>2. CASE x # o
    BY <1>1, <1>5, <2>1, <2>2 DEF Claims, o
  <2>3. CASE x = o /\ pc'[p] = "move"
    <3>1. /\ blk[o].holder = None /\ blk'[o].holder = p /\ blk'[o].waiters = blk[o].waiters
      BY <1>0, <1>3, <2>3
    <3>. QED BY <1>3, <1>5, <2>1, <2>3, <3>1
  <2>4. CASE x = o /\ pc'[p] = "wait"
    <3>1. blk'[o].holder = blk[o].holder /\ blk'[o].waiters = Append(blk[o].waiters, p)
      BY <1>0, <1>3, <2>4
    <3>2. /\ Elems(blk'[o].waiters) = Elems(blk[o].waiters) \cup {p}
          /\ NoDup(blk'[o].waiters)
      BY <2>1, <2>4, <3>1, AppendFacts
    <3>. QED BY <1>5, <2>1, <2>4, <3>1, <3>2 DEF LockedPcs, o
  <2>. QED BY <1>5, <2>2, <2>3, <2>4
<1>10. ShareInv'
  BY <1>1, <1>2, <1>4 DEF ShareInv
<1>11. DataInv'
  <2>1. \A q \in Procs, x \in Objs :
          (pc'[q] = "sync" /\ cur'[q] = x) <=> (pc[q] = "sync" /\ cur[q] = x)
    BY <1>1, <1>5
  <2>2. \A x \in Objs : blk'[x].val = blk[x].val /\ blk'[x].pinned = blk[x].pinned
    BY <1>1
  <2>3. \A q \in Procs : cur[q] # None => (Allocated(cur[q])' <=> Allocated(cur[q]))
    BY <1>1, <1>3 DEF Allocated
  <2>. QED BY <1>1, <1>2, <1>4, <1>6, <2>1, <2>2, <2>3 DEF DataInv
<1>. QED BY <1>7, <1>8, <1>9, <1>10, <1>11 DEF Rest

\* A Block that is being read is known to its reader alone, so it is not moved.
LEMMA MoveKeeps ==
  ASSUME CacheInv, NEW p \in Procs, AcquireMove(p), ~UseFreed
  PROVE  Rest'
<1>1. /\ cur[p] \in Objs /\ Allocated(cur[p]) /\ pc[p] = "move"
      /\ NoDup(list') /\ Elems(list') = Elems(list) \cup {cur[p]}
      /\ pc' = [pc EXCEPT ![p] = "idle"]
      /\ UNCHANGED <<blk, cur, disk, spoiled>>
  BY MoveStep
<1>2. /\ ListInv /\ AtInv /\ HolderInv /\ ShareInv /\ DataInv
      /\ Elems(list) \subseteq Objs
  BY InvFacts
<1>3. /\ cur \in [Procs -> Objs \cup {None}] /\ None \notin Objs /\ None \notin Procs
      /\ pc \in [Procs -> {"idle", "lock", "wait", "move", "read", "sync", "unpin"}]
  BY InvFacts
<1>4. \A x \in Objs : Claims(x)' = Claims(x) /\ (Allocated(x)' <=> Allocated(x))
  BY <1>1 DEF Claims, Allocated
<1>5. \A q \in Procs, x \in Objs : Reads(q, x)' <=> Reads(q, x)
  BY <1>1, <1>3 DEF Reads
<1>6. ListInv'
  <2>1. ASSUME NEW q \in Procs, pc'[q] = "read"
        PROVE  /\ Allocated(cur[q])' /\ ~blk'[cur'[q]].pinned
               /\ cur'[q] \notin Elems(list') /\ Claims(cur[q])' = {q}
    <3>1. pc[q] = "read" /\ q # p
      BY <1>1, <1>3, <2>1
    <3>2. Allocated(cur[q]) /\ ~blk[cur[q]].pinned /\ cur[q] \notin Elems(list)
          /\ Claims(cur[q]) = {q}
      BY <1>2, <3>1 DEF ListInv
    <3>3. cur[q] # cur[p]
      BY <3>1, <3>2 DEF Claims
    <3>. QED BY <1>1, <3>2, <3>3 DEF Allocated, Claims
  <2>. QED BY <1>1, <1>2, <1>4, <1>5, <2>1 DEF ListInv
<1>7. AtInv'
  BY <1>1, <1>2, <1>3 DEF AtInv
<1>8. HolderInv'
  BY <1>1, <1>2, <1>3, <1>4 DEF HolderInv, LockedPcs
<1>9. ShareInv'
  BY <1>1, <1>2, <1>4 DEF ShareInv
<1>10. DataInv'
  <2>1. \A q \in Procs, x \in Objs :
          (pc'[q] = "sync" /\ cur'[q] = x) <=> (pc[q] = "sync" /\ cur[q] = x)
    BY <1>1, <1>3
  <2>2. \A q \in Procs : Allocated(cur[q])' <=> Allocated(cur[q])
    BY <1>1 DEF Allocated
  <2>. QED BY <1>1, <1>2, <1>4, <1>5, <2>1, <2>2 DEF DataInv
<1>. QED BY <1>6, <1>7, <1>8, <1>9, <1>10 DEF Rest

\* A transfer ends: Block and disk agree unless a kill spoiled the block.
LEMMA TransferKeeps ==
  ASSUME CacheInv, NEW p \in Procs, TransferDone(p) \/ TransferKilled(p)
  PROVE  Rest'
<1> DEFINE o == cur[p]
<1>1. /\ o \in Objs /\ No(o) \in Blocks /\ pc[p] \in {"read", "sync", "unpin"} /\ Allocated(o)
      /\ \A x \in Objs : x # o => blk'[x] = blk[x]
      /\ blk'[o].allocated /\ blk'[o].acquired = blk[o].acquired
      /\ blk'[o].shared = blk[o].shared /\ blk'[o].holder = blk[o].holder
      /\ blk'[o].waiters = blk[o].waiters
      /\ NoDup(list')
      /\ Elems(list') = IF pc[p] = "read" THEN Elems(list) \cup {o} ELSE Elems(list)
      /\ \A b \in Blocks : b # No(o) => disk'[b] = disk[b]
      /\ spoiled \subseteq spoiled' /\ spoiled' \subseteq Blocks
      /\ pc' = [pc EXCEPT ![p] = "idle"] /\ cur' = cur
  BY TransferBoth
<1>0. \/ No(o) \in spoiled'
      \/ /\ blk'[o].val = IF pc[p] = "read" THEN disk[No(o)] ELSE blk[o].val
         /\ disk'[No(o)] = blk'[o].val
  BY TransferBoth
<1>2. /\ ListInv /\ AtInv /\ HolderInv /\ ShareInv /\ DataInv
      /\ Elems(list) \subseteq Objs
  BY InvFacts
<1>3. /\ cur \in [Procs -> Objs \cup {None}] /\ None \notin Objs /\ None \notin Procs
      /\ pc \in [Procs -> {"idle", "lock", "wait", "move", "read", "sync", "unpin"}]
  BY InvFacts
<1>4. \A x \in Objs : Claims(x)' = Claims(x) /\ (Allocated(x)' <=> Allocated(x))
  BY <1>1 DEF Claims, Allocated
<1>5. \A q \in Procs, x \in Objs : Reads(q, x)' <=> Reads(q, x) /\ q # p
  BY <1>1, <1>3 DEF Reads
<1>6. \A q \in Procs : pc[q] = "read" /\ q # p => cur[q] # o
  BY <1>2 DEF ListInv, Claims
<1> HIDE DEF o
<1>7. ListInv'
  <2>1. ASSUME NEW q \in Procs, pc'[q] = "read"
        PROVE  /\ Allocated(cur[q])' /\ ~blk'[cur'[q]].pinned
               /\ cur'[q] \notin Elems(list') /\ Claims(cur[q])' = {q}
    <3>1. pc[q] = "read" /\ q # p /\ cur[q] \in Objs /\ cur[q] # o
      BY <1>1, <1>2, <1>3, <1>6, <2>1 DEF AtInv
    <3>2. Allocated(cur[q]) /\ ~blk[cur[q]].pinned /\ cur[q] \notin Elems(list)
          /\ Claims(cur[q]) = {q}
      BY <1>2, <3>1 DEF ListInv
    <3>3. Claims(cur[q])' = {q}
      BY <1>1, <3>2 DEF Claims
    <3>4. cur[q] \notin Elems(list')
      BY <1>1, <3>1, <3>2
    <3>. QED BY <1>1, <3>1, <3>2, <3>3, <3>4 DEF Allocated
  <2>2. ASSUME NEW x \in Objs, Allocated(x)
        PROVE  x \in Elems(list') \/ \E q \in Procs : Reads(q, x)'
    <3>1. x \in Elems(list) \/ \E q \in Procs : Reads(q, x)
      BY <1>2, <2>2 DEF ListInv
    <3>2. \A q \in Procs : Reads(q, x) => (q = p /\ pc[p] = "read" /\ x = o) \/ Reads(q, x)'
      BY <1>5 DEF Reads, o
    <3>. QED BY <1>1, <3>1, <3>2
  <2>3. \A x \in Elems(list') : Allocated(x)'
    BY <1>1, <1>2, <1>4 DEF ListInv
  <2>. QED BY <1>1, <1>4, <2>1, <2>2, <2>3 DEF ListInv
<1>8. AtInv'
  BY <1>1, <1>2, <1>3 DEF AtInv
<1>9. HolderInv'
  <2>1. \A x \in Objs : blk'[x].holder = blk[x].holder /\ blk'[x].waiters = blk[x].waiters
    BY <1>1
  <2>2. \A q \in Procs : /\ pc'[q] \in LockedPcs => pc[q] \in LockedPcs
                         /\ pc[q] = "wait" => pc'[q] = "wait"
    BY <1>1, <1>3 DEF LockedPcs
  <2>3. \A x \in Objs : Claims(x) \subseteq Procs /\ Elems(blk[x].waiters) \subseteq Procs
    <3>1. \A x \in Objs : blk[x].waiters \in Seq(Procs)
      BY InvFacts DEF Block
    <3>. QED BY <3>1 DEF Claims, Elems
  <2>. QED BY <1>1, <1>2, <1>4, <2>1, <2>2, <2>3 DEF HolderInv
<1>10. ShareInv'
  BY <1>1, <1>2, <1>4 DEF ShareInv
<1>11. DataInv'
  <2> SUFFICES ASSUME NEW c \in Blocks \ spoiled'
               PROVE  /\ \A y, x \in Objs :
                          No(y) = c /\ No(x) = c /\ Allocated(y) /\ Allocated(x) => y = x
                      /\ \A q \in Procs : cur[q] # None /\ No(cur[q]) = c => Allocated(cur[q])'
                      /\ (\A x \in Objs : No(x) = c => ~Allocated(x)) => disk'[c]
                      /\ \A x \in Objs : No(x) = c /\ Allocated(x) =>
                          /\ blk'[x].val \/ \E q \in Procs : Reads(q, x)'
                          /\ \/ disk'[c] \/ blk'[x].pinned
                             \/ \E q \in Procs : pc'[q] = "sync" /\ cur[q] = x
    BY <1>1, <1>4 DEF DataInv
  <2>1. c \in Blocks \ spoiled
    BY <1>1
  <2>2. \A y, x \in Objs : No(y) = c /\ No(x) = c /\ Allocated(y) /\ Allocated(x) => y = x
    BY <1>2, <2>1 DEF DataInv
  <2>3. ASSUME NEW q \in Procs, cur[q] # None, No(cur[q]) = c PROVE Allocated(cur[q])'
    <3>1. Allocated(cur[q]) /\ cur[q] \in Objs
      BY <1>2, <1>3, <2>1, <2>3 DEF DataInv
    <3>. QED BY <1>1, <3>1 DEF Allocated
  <2>4. CASE c = No(o)
    <3>1. /\ blk[o].val \/ \E q \in Procs : Reads(q, o)
          /\ disk[c] \/ blk[o].pinned \/ \E q \in Procs : pc[q] = "sync" /\ cur[q] = o
      BY <1>1, <1>2, <2>1, <2>4 DEF DataInv
    <3>2. CASE pc[p] = "read"
      <4>1. ~blk[o].pinned /\ Claims(o) = {p}
        BY <1>2, <3>2 DEF ListInv, o
      <4>2. disk[c]
        BY <3>1, <3>2, <4>1 DEF Claims
      <4>. QED BY <1>0, <1>1, <2>2, <2>3, <2>4, <3>2, <4>2
    <3>3. CASE pc[p] # "read"
      <4>1. blk[o].val
        BY <1>6, <3>1, <3>3 DEF Reads
      <4>. QED BY <1>0, <1>1, <2>2, <2>3, <2>4, <3>3, <4>1
    <3>. QED BY <3>2, <3>3
  <2>5. CASE c # No(o)
    <3>1. \A x \in Objs : No(x) = c => x # o /\ blk'[x] = blk[x]
      BY <1>1, <2>5
    <3>2. \A q \in Procs, x \in Objs : No(x) = c =>
            /\ Reads(q, x) => Reads(q, x)'
            /\ pc[q] = "sync" /\ cur[q] = x => pc'[q] = "sync"
      BY <1>1, <1>3, <1>5, <3>1 DEF Reads, o
    <3>3. disk'[c] = disk[c]
      BY <1>1, <2>5
    <3>. QED BY <1>2, <2>1, <2>2, <2>3, <3>1, <3>2, <3>3 DEF DataInv
  <2>. QED BY <2>4, <2>5
<1>. QED BY <1>7, <1>8, <1>9, <1>10, <1>11 DEF Rest

\* A sync: the value is not on disk, so the Block is pinned or being written.
LEMMA SyncKeeps ==
  ASSUME CacheInv, NEW p \in Procs, NEW ctx \in BOOLEAN, Sync(p, ctx), ~UseFreed
  PROVE  Rest'
<1> DEFINE o == cur[p]
<1>1. /\ o \in Objs /\ No(o) \in Blocks /\ pc[p] = "idle" /\ Allocated(o)
      /\ \A x \in Objs :
           /\ blk'[x].allocated = blk[x].allocated /\ blk'[x].acquired = blk[x].acquired
           /\ blk'[x].shared = blk[x].shared /\ blk'[x].holder = blk[x].holder
           /\ blk'[x].waiters = blk[x].waiters
           /\ blk'[x].val <=> x = o \/ (blk[x].val /\ No(x) # No(o))
           /\ blk'[x].pinned <=> blk[x].pinned \/ (ctx /\ x = o)
      /\ \A b \in Blocks : b # No(o) => disk'[b] = disk[b]
      /\ pc' = IF ctx THEN pc ELSE [pc EXCEPT ![p] = "sync"]
      /\ UNCHANGED <<list, cur, spoiled>>
  BY SyncStep
<1>2. /\ ListInv /\ AtInv /\ HolderInv /\ ShareInv /\ DataInv
      /\ Elems(list) \subseteq Objs
  BY InvFacts
<1>3. /\ cur \in [Procs -> Objs \cup {None}] /\ None \notin Objs /\ None \notin Procs
      /\ pc \in [Procs -> {"idle", "lock", "wait", "move", "read", "sync", "unpin"}]
  BY InvFacts
<1>4. \A x \in Objs : Claims(x)' = Claims(x) /\ (Allocated(x)' <=> Allocated(x))
  BY <1>1 DEF Claims, Allocated
<1>5. /\ \A q \in Procs : q # p => pc'[q] = pc[q]
      /\ pc'[p] \in {"idle", "sync"} /\ (~ctx => pc'[p] = "sync")
  BY <1>1, <1>3
<1>6. \A q \in Procs, x \in Objs : Reads(q, x)' <=> Reads(q, x)
  BY <1>1, <1>5 DEF Reads
<1> HIDE DEF o
<1>7. ListInv'
  <2>1. ASSUME NEW q \in Procs, pc'[q] = "read"
        PROVE  /\ Allocated(cur[q])' /\ ~blk'[cur'[q]].pinned
               /\ cur'[q] \notin Elems(list') /\ Claims(cur[q])' = {q}
    <3>1. pc[q] = "read" /\ q # p /\ cur[q] \in Objs
      BY <1>1, <1>2, <1>3, <1>5, <2>1 DEF AtInv
    <3>2. Allocated(cur[q]) /\ ~blk[cur[q]].pinned /\ cur[q] \notin Elems(list)
          /\ Claims(cur[q]) = {q}
      BY <1>2, <3>1 DEF ListInv
    <3>3. cur[q] # o
      BY <3>1, <3>2 DEF Claims, o
    <3>4. Claims(cur[q])' = {q}
      BY <1>1, <3>2 DEF Claims
    <3>. QED BY <1>1, <3>1, <3>2, <3>3, <3>4 DEF Allocated
  <2>. QED BY <1>1, <1>2, <1>4, <1>6, <2>1 DEF ListInv
<1>8. AtInv'
  BY <1>1, <1>2, <1>3, <1>5 DEF AtInv, o
<1>9. HolderInv'
  <2>1. \A q \in Procs : /\ pc'[q] \in LockedPcs => pc[q] \in LockedPcs
                         /\ pc[q] = "wait" => pc'[q] = "wait"
    BY <1>1, <1>5 DEF LockedPcs
  <2>2. \A x \in Objs : Claims(x) \subseteq Procs /\ Elems(blk[x].waiters) \subseteq Procs
    <3>1. \A x \in Objs : blk[x].waiters \in Seq(Procs)
      BY InvFacts DEF Block
    <3>. QED BY <3>1 DEF Claims, Elems
  <2>. QED BY <1>1, <1>2, <1>4, <2>1, <2>2 DEF HolderInv
<1>10. ShareInv'
  BY <1>1, <1>2, <1>4 DEF ShareInv
<1>11. DataInv'
  <2> SUFFICES ASSUME NEW c \in Blocks \ spoiled
               PROVE  /\ \A y, x \in Objs :
                          No(y) = c /\ No(x) = c /\ Allocated(y) /\ Allocated(x) => y = x
                      /\ \A q \in Procs : cur[q] # None /\ No(cur[q]) = c => Allocated(cur[q])'
                      /\ (\A x \in Objs : No(x) = c => ~Allocated(x)) => disk'[c]
                      /\ \A x \in Objs : No(x) = c /\ Allocated(x) =>
                          /\ blk'[x].val \/ \E q \in Procs : Reads(q, x)
                          /\ \/ disk'[c] \/ blk'[x].pinned
                             \/ \E q \in Procs : pc'[q] = "sync" /\ cur[q] = x
    BY <1>1, <1>4, <1>6 DEF DataInv
  <2>2. \A y, x \in Objs : No(y) = c /\ No(x) = c /\ Allocated(y) /\ Allocated(x) => y = x
    BY <1>2 DEF DataInv
  <2>3. ASSUME NEW q \in Procs, cur[q] # None, No(cur[q]) = c PROVE Allocated(cur[q])'
    <3>1. Allocated(cur[q]) /\ cur[q] \in Objs
      BY <1>2, <1>3, <2>3 DEF DataInv
    <3>. QED BY <1>1, <3>1 DEF Allocated
  <2>4. CASE c = No(o)
    <3>1. \A x \in Objs : No(x) = c /\ Allocated(x) => x = o
      BY <1>1, <2>2, <2>4
    <3>2. blk'[o].val /\ (blk'[o].pinned \/ (pc'[p] = "sync" /\ cur[p] = o))
      BY <1>1, <1>5 DEF o
    <3>. QED BY <1>1, <2>2, <2>3, <2>4, <3>1, <3>2
  <2>5. CASE c # No(o)
    <3>1. \A x \in Objs : No(x) = c =>
            (blk'[x].val <=> blk[x].val) /\ (blk'[x].pinned <=> blk[x].pinned)
      BY <1>1, <2>5
    <3>2. \A q \in Procs : pc[q] = "sync" => pc'[q] = "sync"
      BY <1>1, <1>5
    <3>3. disk'[c] = disk[c]
      BY <1>1, <2>5
    <3>. QED BY <1>2, <2>2, <2>3, <3>1, <3>2, <3>3 DEF DataInv
  <2>. QED BY <2>4, <2>5
<1>. QED BY <1>7, <1>8, <1>9, <1>10, <1>11 DEF Rest

\* The checkpoint begins with a pinned Block and changes nothing yet.
LEMMA CheckpointKeeps ==
  ASSUME CacheInv, NEW p \in Procs, Checkpoint(p)
  PROVE  Rest'
<1>1. /\ pc[p] = "idle" /\ cur[p] # None /\ pc' = [pc EXCEPT ![p] = "unpin"]
      /\ UNCHANGED <<blk, list, cur, disk, spoiled>>
  BY DEF Checkpoint, Holds, At, Goto
<1>2. /\ ListInv /\ AtInv /\ HolderInv /\ ShareInv /\ DataInv
      /\ Elems(list) \subseteq Objs
  BY InvFacts
<1>3. /\ cur \in [Procs -> Objs \cup {None}] /\ None \notin Objs /\ None \notin Procs
      /\ pc \in [Procs -> {"idle", "lock", "wait", "move", "read", "sync", "unpin"}]
  BY InvFacts
<1>4. /\ \A x \in Objs : Claims(x)' = Claims(x) /\ (Allocated(x)' <=> Allocated(x))
      /\ \A q \in Procs : Claims(cur[q])' = Claims(cur[q])
      /\ \A q \in Procs : Allocated(cur[q])' <=> Allocated(cur[q])
      /\ \A x \in Elems(list) : Allocated(x)' <=> Allocated(x)
  BY <1>1 DEF Claims, Allocated
<1>5. \A q \in Procs, x \in Objs : Reads(q, x)' <=> Reads(q, x)
  BY <1>1, <1>3 DEF Reads
<1>6. \A q \in Procs : /\ pc'[q] = "read" <=> pc[q] = "read"
                       /\ pc'[q] = "sync" <=> pc[q] = "sync"
                       /\ pc'[q] = "wait" <=> pc[q] = "wait"
                       /\ pc'[q] \in LockedPcs <=> pc[q] \in LockedPcs
  BY <1>1, <1>3 DEF LockedPcs
<1>7. ListInv'
  BY <1>1, <1>2, <1>4, <1>5, <1>6 DEF ListInv
<1>8. AtInv'
  BY <1>1, <1>2, <1>3 DEF AtInv
<1>9. HolderInv'
  <2>1. \A x \in Objs : Claims(x) \subseteq Procs /\ Elems(blk[x].waiters) \subseteq Procs
    <3>1. \A x \in Objs : blk[x].waiters \in Seq(Procs)
      BY InvFacts DEF Block
    <3>. QED BY <3>1 DEF Claims, Elems
  <2>. QED BY <1>1, <1>2, <1>4, <1>6, <2>1 DEF HolderInv
<1>10. ShareInv'
  BY <1>1, <1>2, <1>4 DEF ShareInv
<1>11. DataInv'
  BY <1>1, <1>2, <1>4, <1>5, <1>6 DEF DataInv
<1>. QED BY <1>7, <1>8, <1>9, <1>10, <1>11 DEF Rest

\* A release: the first waiter, if any, is the only one past the sleep lock.
LEMMA ReleaseKeeps ==
  ASSUME CacheInv, NEW p \in Procs, Release(p), ~UseFreed
  PROVE  Rest'
<1> DEFINE o == cur[p]
           w == blk[o].waiters
<1>1. /\ o \in Objs /\ pc[p] = "idle" /\ Allocated(o) /\ w \in Seq(Procs)
      /\ \A x \in Objs : x # o => blk'[x] = blk[x]
      /\ blk'[o].allocated /\ ~blk'[o].acquired
      /\ blk'[o].shared = blk[o].shared /\ blk'[o].val = blk[o].val
      /\ blk'[o].pinned = blk[o].pinned
      /\ blk'[o].holder = IF w = <<>> THEN None ELSE Head(w)
      /\ blk'[o].waiters = IF w = <<>> THEN w ELSE Tail(w)
      /\ pc' = [q \in Procs |-> IF w # <<>> /\ q = Head(w) THEN "move" ELSE pc[q]]
      /\ cur' = [cur EXCEPT ![p] = None]
      /\ UNCHANGED <<list, disk, spoiled>>
  BY ReleaseStep
<1>2. /\ ListInv /\ AtInv /\ HolderInv /\ ShareInv /\ DataInv
      /\ Elems(list) \subseteq Objs
  BY InvFacts
<1>3. /\ cur \in [Procs -> Objs \cup {None}] /\ None \notin Objs /\ None \notin Procs
      /\ pc \in [Procs -> {"idle", "lock", "wait", "move", "read", "sync", "unpin"}]
  BY InvFacts
<1>4. \A x \in Objs : /\ Claims(x)' = IF x = o THEN Claims(x) \ {p} ELSE Claims(x)
                      /\ Allocated(x)' <=> Allocated(x)
  <2>1. \A x \in Objs : Claims(x)' = IF x = o THEN Claims(x) \ {p} ELSE Claims(x)
    BY <1>1, <1>3 DEF Claims
  <2>. QED BY <1>1, <2>1 DEF Allocated
<1>5. /\ p \in Claims(o) /\ blk[o].holder = p
      /\ \A q \in Elems(w) : q \in Procs /\ pc[q] = "wait" /\ cur[q] = o
      /\ NoDup(w) /\ p \notin Elems(w)
  <2>1. p \in Claims(o) /\ pc[p] \in LockedPcs
    BY <1>1 DEF Claims, LockedPcs
  <2>2. \A q \in Elems(w) : q \in Procs
    BY <1>1 DEF Elems
  <2>. QED BY <1>1, <1>2, <2>1, <2>2 DEF HolderInv
<1>6. w # <<>> => /\ Head(w) \in Elems(w) /\ Elems(Tail(w)) = Elems(w) \ {Head(w)}
                  /\ NoDup(Tail(w))
  <2>1. ASSUME w # <<>>
        PROVE  /\ Head(w) \in Elems(w) /\ Elems(Tail(w)) = Elems(w) \ {Head(w)}
               /\ NoDup(Tail(w))
    <3>1. /\ Elems(w) = Elems(Tail(w)) \cup {Head(w)}
          /\ NoDup(Tail(w)) /\ Head(w) \notin Elems(Tail(w))
      BY <1>1, <1>5, <2>1, HeadTailFacts
    <3>. QED BY <3>1
  <2>. QED BY <2>1
<1> HIDE DEF o, w
<1>7. \A q \in Procs :
        \/ q \notin Elems(w) /\ pc'[q] = pc[q]
        \/ q \in Elems(w) /\ pc[q] = "wait" /\ w # <<>> /\ Head(w) = q /\ pc'[q] = "move"
        \/ q \in Elems(w) /\ pc[q] = "wait" /\ (w = <<>> \/ Head(w) # q) /\ pc'[q] = "wait"
  BY <1>1, <1>3, <1>5, <1>6
<1>8. \A q \in Procs : cur'[q] = IF q = p THEN None ELSE cur[q]
  BY <1>1, <1>3
<1>9. \A q \in Procs, x \in Objs : Reads(q, x)' <=> Reads(q, x)
  BY <1>1, <1>3, <1>7, <1>8 DEF Reads
<1>10. ListInv'
  <2>1. ASSUME NEW q \in Procs, pc'[q] = "read"
        PROVE  /\ Allocated(cur[q])' /\ ~blk'[cur'[q]].pinned
               /\ cur'[q] \notin Elems(list') /\ Claims(cur[q])' = {q}
    <3>1. pc[q] = "read" /\ q # p /\ cur[q] \in Objs
      BY <1>1, <1>2, <1>3, <1>7, <2>1 DEF AtInv
    <3>2. Allocated(cur[q]) /\ ~blk[cur[q]].pinned /\ cur[q] \notin Elems(list)
          /\ Claims(cur[q]) = {q}
      BY <1>2, <3>1 DEF ListInv
    <3>3. cur[q] # o /\ cur'[q] = cur[q]
      BY <1>8, <3>1, <3>2 DEF Claims, o
    <3>4. Claims(cur[q])' = {q}
      BY <1>3, <1>8, <3>1, <3>2, <3>3 DEF Claims
    <3>. QED BY <1>1, <3>1, <3>2, <3>3, <3>4 DEF Allocated
  <2>. QED BY <1>1, <1>2, <1>4, <1>9, <2>1 DEF ListInv
<1>11. AtInv'
  <2>1. o # None
    BY <1>1, <1>3
  <2>. QED BY <1>1, <1>2, <1>5, <1>7, <1>8, <2>1 DEF AtInv
<1>12. HolderInv'
  <2> SUFFICES ASSUME NEW x \in Objs, Allocated(x)
               PROVE  /\ \A q \in Claims(x)' : pc'[q] \in LockedPcs => blk'[x].holder = q
                      /\ \A q \in Elems(blk'[x].waiters) : pc'[q] = "wait" /\ cur'[q] = x
                      /\ NoDup(blk'[x].waiters)
    BY <1>4 DEF HolderInv
  <2>1. /\ \A q \in Claims(x) : pc[q] \in LockedPcs => blk[x].holder = q
        /\ \A q \in Elems(blk[x].waiters) : pc[q] = "wait" /\ cur[q] = x
        /\ NoDup(blk[x].waiters)
        /\ Claims(x) = {q \in Procs : cur[q] = x} /\ Elems(blk[x].waiters) \subseteq Procs
    <3>1. blk[x].waiters \in Seq(Procs)
      BY InvFacts DEF Block
    <3>. QED BY <1>2, <3>1 DEF HolderInv, Claims, Elems
  <2>2. CASE x # o
    <3>1. Claims(x)' = Claims(x) /\ blk'[x] = blk[x]
      BY <1>1, <1>4, <2>2
    <3>2. \A q \in Procs : cur[q] = x => q # p /\ pc'[q] = pc[q] /\ cur'[q] = x
      BY <1>5, <1>7, <1>8, <2>2 DEF o
    <3>. QED BY <2>1, <3>1, <3>2
  <2>3. CASE x = o
    <3>1. ASSUME NEW q \in Claims(x)', pc'[q] \in LockedPcs PROVE blk'[x].holder = q
      <4>1. q \in Claims(x) /\ q # p /\ q \in Procs
        BY <1>4, <2>1, <2>3, <3>1
      <4>2. ~(pc[q] \in LockedPcs)
        BY <1>5, <2>1, <2>3, <4>1
      <4>3. w # <<>> /\ Head(w) = q
        BY <1>7, <3>1, <4>1, <4>2 DEF LockedPcs
      <4>. QED BY <1>1, <2>3, <4>3
    <3>2. CASE w = <<>>
      BY <1>1, <1>5, <1>7, <1>8, <2>3, <3>1, <3>2
    <3>3. CASE w # <<>>
      <4>1. blk'[x].waiters = Tail(w)
        BY <1>1, <2>3, <3>3
      <4>2. Elems(Tail(w)) = Elems(w) \ {Head(w)} /\ NoDup(Tail(w))
        BY <1>6, <3>3
      <4>3. \A q \in Elems(w) \ {Head(w)} : pc'[q] = "wait" /\ cur'[q] = x
        BY <1>5, <1>7, <1>8, <2>3
      <4>. QED BY <3>1, <4>1, <4>2, <4>3
    <3>. QED BY <3>2, <3>3
  <2>. QED BY <2>2, <2>3
<1>13. ShareInv'
  <2> SUFFICES ASSUME NEW x \in Objs
               PROVE  /\ Allocated(x) /\ ~blk'[x].shared =>
                          /\ \A q, r \in Claims(x)' : q = r
                          /\ blk'[x].acquired <=> Claims(x)' # {}
                      /\ ~Allocated(x) /\ Claims(x)' # {} => blk'[x].shared
    BY <1>4 DEF ShareInv
  <2>. QED BY <1>1, <1>2, <1>4, <1>5 DEF ShareInv
<1>14. DataInv'
  <2>1. \A q \in Procs, x \in Objs :
          (pc'[q] = "sync" /\ cur'[q] = x) <=> (pc[q] = "sync" /\ cur[q] = x)
    BY <1>1, <1>3, <1>7, <1>8
  <2>2. \A x \in Objs : blk'[x].val = blk[x].val /\ blk'[x].pinned = blk[x].pinned
    BY <1>1
  <2>3. \A q \in Procs : cur'[q] # None =>
          cur'[q] = cur[q] /\ (Allocated(cur[q])' <=> Allocated(cur[q]))
    BY <1>1, <1>3, <1>8 DEF Allocated
  <2>. QED BY <1>1, <1>2, <1>4, <1>9, <2>1, <2>2, <2>3 DEF DataInv
<1>. QED BY <1>10, <1>11, <1>12, <1>13, <1>14 DEF Rest

-----------------------------------------------------------------------------
(* Theorems. *)

\* Every step keeps the rest of the invariant; a use of a freed Block ends the run.
LEMMA RestNext == CacheInv /\ [Next]_vars => Rest'
<1> SUFFICES ASSUME CacheInv, [Next]_vars PROVE Rest'
  OBVIOUS
<1>1. ASSUME UNCHANGED <<blk, list, pc, cur, disk, spoiled>> PROVE Rest'
  <2>1. /\ \A x : Claims(x)' = Claims(x) /\ (Allocated(x)' <=> Allocated(x))
        /\ \A q \in Procs : Claims(cur[q])' = Claims(cur[q])
        /\ \A q \in Procs : Allocated(cur[q])' <=> Allocated(cur[q])
        /\ \A q \in Procs, x \in Objs : Reads(q, x)' <=> Reads(q, x)
    BY <1>1 DEF Claims, Allocated, Reads
  <2>. QED
    BY <1>1, <2>1, InvFacts DEF Rest, ListInv, AtInv, HolderInv, ShareInv, DataInv
<1>2. CASE UseFreed \/ UNCHANGED vars
  BY <1>1, <1>2 DEF UseFreed, vars
<1>3. ASSUME NEW p \in Procs, AcquireKilled(p) PROVE Rest'
  BY <1>1, <1>3 DEF AcquireKilled
<1>. QED
  BY <1>2, <1>3, HitKeeps, MissKeeps, LockKeeps, MoveKeeps, TransferKeeps, SyncKeeps,
     CheckpointKeeps, ReleaseKeeps
     DEF Next, Step, TransferFreed

\* The inductive invariant: where the Blocks are, who holds and awaits them, what
\* the acquired flag means, and where the last value of a block is.
THEOREM CacheInvariant == Spec => []CacheInv
<1>1. CacheInv /\ [Next]_vars => CacheInv'
  BY TypeNext, RestNext DEF CacheInv, Rest
<1>. QED BY <1>1, CacheInvInit, PTL DEF Spec

\* Type correctness: among others, a process is at a Block whenever it is inside a
\* call, and every miss finds a struct nobody refers to.
THEOREM CacheTypeCorrect == Spec => []TypeOK
<1>1. CacheInv => TypeOK
  BY DEF CacheInv
<1>. QED BY <1>1, CacheInvariant, PTL

\* acquire returns to one process at a time: of the processes that came through the
\* sleep lock of a Block, whatever they do with it, no two are at the same one,
\* until the Block is freed under them.
OneHolder ==
    \A p, q \in Procs :
        /\ cur[p] # None /\ cur[q] = cur[p] /\ Allocated(cur[p])
        /\ pc[p] \in LockedPcs /\ pc[q] \in LockedPcs
        => p = q

\* The sleep lock of a Block excludes, through every release to a waiter.
THEOREM CacheOneHolder == Spec => []OneHolder
<1>1. CacheInv => OneHolder
  <2> SUFFICES ASSUME CacheInv, NEW p \in Procs, NEW q \in Procs,
                      cur[p] # None, cur[q] = cur[p], Allocated(cur[p]),
                      pc[p] \in LockedPcs, pc[q] \in LockedPcs
               PROVE  p = q
    BY DEF OneHolder
  <2>1. cur[p] \in Objs /\ HolderInv
    BY InvFacts
  <2>. QED BY <2>1 DEF HolderInv, Claims
<1>. QED BY <1>1, CacheInvariant, PTL

\* A holder of a block that was not spoiled sees the value written last, through
\* evictions, rereads, pins and checkpoints.
THEOREM CacheLatestSeen == Spec => []LatestSeen
<1>1. CacheInv => LatestSeen
  <2> SUFFICES ASSUME CacheInv, NEW p \in Procs, Holds(p), Allocated(cur[p]),
                      No(cur[p]) \notin spoiled
               PROVE  blk[cur[p]].val
    BY DEF LatestSeen
  <2>1. cur[p] \in Objs /\ pc[p] = "idle" /\ ListInv /\ DataInv
    BY InvFacts DEF Holds, At
  <2>2. No(cur[p]) \in Blocks
    BY <2>1 DEF Objs, No
  <2>3. blk[cur[p]].val \/ \E q \in Procs : Reads(q, cur[p])
    BY <2>1, <2>2 DEF DataInv
  <2>4. ASSUME NEW q \in Procs, Reads(q, cur[p]) PROVE FALSE
    <3>1. pc[q] = "read" /\ cur[q] = cur[p]
      BY <2>4 DEF Reads
    <3>2. Claims(cur[q]) = {q}
      BY <2>1, <3>1 DEF ListInv
    <3>3. p \in Claims(cur[q])
      BY <3>1 DEF Claims
    <3>. QED BY <2>1, <3>1, <3>2, <3>3
  <2>. QED BY <2>3, <2>4
<1>. QED BY <1>1, CacheInvariant, PTL

\* A Block that is freed under a process was claimed by two processes at once.
THEOREM CacheFreedOnlyShared == Spec => []FreedOnlyShared
<1>1. CacheInv => FreedOnlyShared
  <2> SUFFICES ASSUME CacheInv, NEW p \in Procs, cur[p] # None, ~Allocated(cur[p])
               PROVE  blk[cur[p]].shared
    BY DEF FreedOnlyShared
  <2>1. cur[p] \in Objs /\ ShareInv
    BY InvFacts
  <2>. QED BY <2>1 DEF ShareInv, Claims
<1>. QED BY <1>1, CacheInvariant, PTL

-----------------------------------------------------------------------------
(* The driver: its inductive invariant.                                    *)

\* The free list: no descriptor twice, and all but the last have F_NEXT.
FreeInv ==
    LET f == Follow(desc, free_head)
    IN  /\ \A i, j \in 0..(nfree - 1) : f[i] = f[j] => i = j
        /\ \A i \in 0..(nfree - 2) : desc[f[i]].more

\* The second and the third descriptor of a request.
Second(d) == desc[d].next
Third(d) == desc[desc[d].next].next

\* A request has three descriptors, the last without F_NEXT.
ChainInv ==
    /\ \A d \in Heads :
        /\ d # Second(d) /\ d # Third(d) /\ Second(d) # Third(d)
        /\ desc[d].more /\ desc[Second(d)].more /\ ~desc[Third(d)].more
        /\ Chain(d) \cap FreeList = {}
    /\ \A d, e \in Heads : d # e => Chain(d) \cap Chain(e) = {}
    /\ IsFiniteSet(Heads) /\ nfree = NQueue - 3 * Cardinality(Heads)

\* Whose the requests are, and where: with the device, served, or posted.
RequestInv ==
    /\ avail \cup used \subseteq Heads /\ avail \cap used = {}
    /\ \A p \in Callers : buf[p].live =>
        /\ buf[p].d0 \notin dead
        /\ \A q \in Callers : buf[q].live /\ buf[q].d0 = buf[p].d0 => q = p
        /\ desc[Second(buf[p].d0)].buf = p
        /\ buf[p].posted => buf[p].d0 \notin avail \cup used
        /\ ~buf[p].posted => buf[p].d0 \in avail \cup used /\ info[buf[p].d0] = p
        /\ buf[p].d0 \in used => buf[p].served
    /\ \A p \in Callers : (buf[p].posted => buf[p].served) /\ (~buf[p].live => ~buf[p].posted)

\* The inductive invariant of the driver.
VirtioInv == VirtioTypeOK /\ FreeInv /\ ChainInv /\ RequestInv

\* A step leaves the descriptors of request d as they are.
Untouched(d) == Chain(d)' = Chain(d) /\ \A x \in Chain(d) : desc'[x] = desc[x]

\* The requests the device has, served or not, are left alone.
DeviceChainsKept == \A d \in avail \cup used : Untouched(d)

-----------------------------------------------------------------------------
(* Walks along the descriptors.                                            *)

\* The descriptor tables.
Links == [Descs -> [next : Descs, more : BOOLEAN, buf : Callers \cup {Nobody}]]

\* g starts at n and follows the links m times.
IsPath(table, n, m, g) == g[0] = n /\ \A i \in 0..(m - 1) : g[i + 1] = table[g[i]].next

\* What is assumed of the constants, one by one.
LEMMA VirtioConsts == NQueue \in Nat /\ NQueue > 0 /\ MaxAbandoned \in Nat /\ Nobody \notin Callers
BY VirtioAssumption

\* Follow is total, stays among the descriptors and obeys the links.
LEMMA FollowFacts ==
  ASSUME NEW table \in Links, NEW n \in Descs
  PROVE  /\ Follow(table, n) \in [0..NQueue -> Descs]
         /\ IsPath(table, n, NQueue, Follow(table, n))
<1> USE VirtioConsts
<1> DEFINE Good(m, g) == g \in [0..m -> Descs] /\ IsPath(table, n, m, g)
<1>1. ASSUME NEW m \in Nat PROVE \E g : Good(m, g)
  <2> DEFINE T == {k \in Nat : ~\E g : Good(k, g)}
  <2>1. SUFFICES ASSUME T # {} PROVE FALSE
    OBVIOUS
  <2>2. PICK k \in T : \A y \in T : k <= y
    <3>1. T \in SUBSET Nat
      OBVIOUS
    <3>. QED BY <3>1, <2>1, NatMin
  <2>3. k # 0
    <3>1. Good(0, [i \in 0..0 |-> n])
      BY DEF IsPath
    <3>. QED BY <3>1
  <2>4. k - 1 \in Nat /\ k - 1 \notin T
    BY <2>2, <2>3
  <2>5. PICK g : Good(k - 1, g)
    BY <2>4
  <2> DEFINE h == [i \in 0..k |-> IF i = k THEN table[g[k - 1]].next ELSE g[i]]
  <2>6. h \in [0..k -> Descs]
    <3>1. g[k - 1] \in Descs /\ \A i \in 0..k : i # k => g[i] \in Descs
      BY <2>4, <2>5
    <3>2. table[g[k - 1]].next \in Descs
      BY <3>1 DEF Links
    <3>. QED BY <3>1, <3>2
  <2>7. IsPath(table, n, k, h)
    <3>1. h[0] = n
      BY <2>3, <2>4, <2>5 DEF IsPath
    <3>2. ASSUME NEW i \in 0..(k - 1) PROVE h[i + 1] = table[h[i]].next
      <4>1. CASE i = k - 1
        BY <4>1, <2>4
      <4>2. CASE i # k - 1
        <5>1. i \in 0..(k - 2) /\ h[i] = g[i] /\ h[i + 1] = g[i + 1]
          BY <4>2, <2>4
        <5>2. g[i + 1] = table[g[i]].next
          BY <5>1, <2>5, <2>4 DEF IsPath
        <5>. QED BY <5>1, <5>2
      <4>. QED BY <4>1, <4>2
    <3>. QED BY <3>1, <3>2 DEF IsPath
  <2>. QED BY <2>2, <2>6, <2>7
<1>2. PICK g : Good(NQueue, g)
  BY <1>1
<1> DEFINE Def(f) == [k \in 0..NQueue |-> IF k = 0 THEN n ELSE table[f[k - 1]].next]
<1>3. g = Def(g)
  <2>1. ASSUME NEW k \in 0..NQueue PROVE g[k] = Def(g)[k]
    <3>1. CASE k = 0
      BY <3>1, <1>2 DEF IsPath
    <3>2. CASE k # 0
      <4>1. k - 1 \in 0..(NQueue - 1) /\ (k - 1) + 1 = k
        BY <3>2
      <4>2. g[(k - 1) + 1] = table[g[k - 1]].next
        BY <4>1, <1>2 DEF IsPath
      <4>. QED BY <4>1, <4>2, <3>2
    <3>. QED BY <3>1, <3>2
  <2>. QED BY <2>1, <1>2
<1> DEFINE F == Follow(table, n)
<1>4. F = Def(F)
  BY <1>3 DEF Follow
<1> HIDE DEF F
<1>5. F[0] = n /\ \A i \in 0..(NQueue - 1) : F[i + 1] = table[F[i]].next
  <2>1. ASSUME NEW i \in 0..(NQueue - 1) PROVE F[i + 1] = table[F[i]].next
    <3>1. i + 1 \in 0..NQueue /\ i + 1 # 0 /\ (i + 1) - 1 = i
      OBVIOUS
    <3>2. F[i + 1] = Def(F)[i + 1]
      BY <1>4
    <3>3. Def(F)[i + 1] = table[F[(i + 1) - 1]].next
      BY <3>1
    <3>. QED BY <3>1, <3>2, <3>3
  <2>2. F[0] = Def(F)[0] /\ Def(F)[0] = n
    BY <1>4
  <2>. QED BY <2>1, <2>2
<1>6. ASSUME NEW k \in 0..NQueue PROVE F[k] \in Descs
  <2> DEFINE T == {j \in 0..NQueue : F[j] \notin Descs}
  <2>1. SUFFICES ASSUME T # {} PROVE FALSE
    OBVIOUS
  <2>2. PICK j \in T : \A y \in T : j <= y
    <3>1. T \in SUBSET Nat
      OBVIOUS
    <3>. QED BY <3>1, <2>1, NatMin
  <2>3. j # 0
    BY <1>5
  <2>4. j - 1 \in 0..(NQueue - 1) /\ j - 1 \notin T /\ (j - 1) + 1 = j
    BY <2>2, <2>3
  <2>5. F[j - 1] \in Descs
    BY <2>4
  <2>6. F[j] = table[F[j - 1]].next
    BY <2>4, <1>5
  <2>. QED BY <2>2, <2>5, <2>6 DEF Links
<1>7. F = [k \in 0..NQueue |-> F[k]]
  <2>1. DOMAIN Def(F) = 0..NQueue /\ Def(F) = [k \in 0..NQueue |-> Def(F)[k]]
    OBVIOUS
  <2>. QED BY <2>1, <1>4
<1>8. F \in [0..NQueue -> Descs]
  BY <1>6, <1>7
<1>. QED BY <1>5, <1>8 DEF IsPath, F

\* Links lead along one path only.
LEMMA PathUnique ==
  ASSUME NEW table \in Links, NEW n \in Descs, NEW m \in 0..NQueue, NEW g, IsPath(table, n, m, g)
  PROVE  \A i \in 0..m : Follow(table, n)[i] = g[i]
<1> USE VirtioConsts
<1> DEFINE F == Follow(table, n)
           T == {i \in 0..m : F[i] # g[i]}
<1>1. IsPath(table, n, NQueue, F)
  BY FollowFacts
<1> HIDE DEF F
<1>2. SUFFICES ASSUME T # {} PROVE FALSE
  BY DEF F
<1>3. PICK j \in T : \A y \in T : j <= y
  <2>1. T \in SUBSET Nat
    OBVIOUS
  <2>. QED BY <2>1, <1>2, NatMin
<1>4. j # 0
  BY <1>1 DEF IsPath
<1>5. j - 1 \in 0..(m - 1) /\ j - 1 \in 0..(NQueue - 1) /\ j - 1 \notin T /\ (j - 1) + 1 = j
  BY <1>3, <1>4
<1>6. F[j - 1] = g[j - 1]
  BY <1>5
<1>7. F[(j - 1) + 1] = table[F[j - 1]].next /\ g[(j - 1) + 1] = table[g[j - 1]].next
  BY <1>1, <1>5 DEF IsPath
<1>. QED BY <1>3, <1>5, <1>6, <1>7

\* FreeInv and FreeList, once the list is known as a path g of the links.
LEMMA ListIs ==
  ASSUME NEW table \in Links, NEW n \in Descs, NEW m \in Nat, m > 0, m <= NQueue,
         NEW g, IsPath(table, n, m - 1, g),
         \A i, j \in 0..(m - 1) : g[i] = g[j] => i = j,
         \A i \in 0..(m - 2) : table[g[i]].more
  PROVE  LET f == Follow(table, n)
         IN  /\ \A i, j \in 0..(m - 1) : f[i] = f[j] => i = j
             /\ \A i \in 0..(m - 2) : table[f[i]].more
             /\ {f[k] : k \in 0..(m - 1)} = {g[k] : k \in 0..(m - 1)}
<1>1. m - 1 \in 0..NQueue
  BY VirtioConsts
<1>2. \A i \in 0..(m - 1) : Follow(table, n)[i] = g[i]
  BY <1>1, PathUnique
<1>. QED BY <1>2

\* virtq_init makes one list of all the descriptors.
LEMMA VirtioInvInit == virtq_init => VirtioInv
<1> SUFFICES ASSUME virtq_init PROVE VirtioInv
  OBVIOUS
<1> USE VirtioConsts
<1>1. desc \in Links /\ 0 \in Descs
  <2>1. \A d \in Descs : desc_init[d] = [next |-> IF d = NQueue - 1 THEN 0 ELSE d + 1,
                               more |-> d # NQueue - 1, buf |-> Nobody]
    BY DEF desc_init
  <2>2. \A d \in Descs : (IF d = NQueue - 1 THEN 0 ELSE d + 1) \in Descs /\ (d # NQueue - 1) \in BOOLEAN
    BY DEF Descs
  <2>. QED BY <2>1, <2>2 DEF virtq_init, Links, desc_init, Descs
<1>2. NoBuf \in [live : BOOLEAN, d0 : Descs, posted : BOOLEAN, served : BOOLEAN]
  BY <1>1 DEF NoBuf
<1>3. VirtioTypeOK
  BY <1>1, <1>2 DEF VirtioTypeOK, virtq_init, Links
<1>4. \A p \in Callers : ~buf[p].live /\ ~buf[p].posted
  BY DEF virtq_init, NoBuf
<1>5. Heads = {}
  BY <1>4 DEF virtq_init, Heads
<1> DEFINE g == [i \in 0..(NQueue - 1) |-> i]
<1>6. IsPath(desc, free_head, NQueue - 1, g) /\ \A i \in 0..(NQueue - 2) : desc[g[i]].more
  <2>1. desc = desc_init /\ free_head = 0 /\ NQueue - 1 \in Nat
    BY DEF virtq_init
  <2>2. g[0] = free_head
    BY <2>1
  <2>3. ASSUME NEW i \in 0..(NQueue - 2)
        PROVE  g[i + 1] = desc[g[i]].next /\ desc[g[i]].more
    <3>1. i \in Descs /\ i # NQueue - 1 /\ g[i] = i /\ g[i + 1] = i + 1
      BY DEF Descs
    <3>2. desc[i].next = i + 1 /\ desc[i].more
      BY <3>1, <2>1 DEF desc_init
    <3>. QED BY <3>1, <3>2
  <2> HIDE DEF g
  <2>4. (NQueue - 1) - 1 = NQueue - 2
    OBVIOUS
  <2>. QED BY <2>2, <2>3, <2>4 DEF IsPath
<1>7. FreeInv
  <2>1. \A i, j \in 0..(NQueue - 1) : g[i] = g[j] => i = j
    OBVIOUS
  <2> HIDE DEF g
  <2>2. nfree = NQueue /\ free_head \in Descs
    BY <1>1 DEF virtq_init
  <2>. QED BY <1>1, <1>6, <2>1, <2>2, ListIs DEF FreeInv
<1>8. ChainInv
  BY <1>5, FS_EmptySet DEF ChainInv, virtq_init
<1>9. RequestInv
  BY <1>4, <1>5 DEF RequestInv, virtq_init
<1>. QED BY <1>3, <1>7, <1>8, <1>9 DEF VirtioInv

-----------------------------------------------------------------------------
\* The chains and the free list depend on the links alone.
LEMMA SameLists ==
  ASSUME VirtioInv, UNCHANGED <<desc, free_head, nfree>>, Heads' = Heads
  PROVE  FreeInv' /\ ChainInv'
<1>1. FreeInv'
  BY DEF VirtioInv, FreeInv
<1>2. FreeList' = FreeList
  BY DEF FreeList
<1>3. \A d : Chain(d)' = Chain(d) /\ Second(d)' = Second(d) /\ Third(d)' = Third(d)
  BY DEF Chain, Second, Third
<1>4. ChainInv'
  BY <1>2, <1>3 DEF VirtioInv, ChainInv
<1>. QED BY <1>1, <1>4

\* A panic, or the end of what is followed, changes nothing.
LEMMA StopKeeps ==
  ASSUME VirtioInv, NEW why \in {"full", "dead", "error"}, Stop(why)
  PROVE  VirtioInv'
<1>1. VirtioTypeOK'
  BY DEF VirtioInv, VirtioTypeOK, Stop
<1>2. Heads' = Heads
  BY DEF Heads, Stop
<1>3. FreeInv' /\ ChainInv'
  BY <1>2, SameLists DEF Stop
<1>4. RequestInv'
  BY <1>2 DEF VirtioInv, RequestInv, Stop, Second
<1>. QED BY <1>1, <1>3, <1>4 DEF VirtioInv

\* A live process's d0 is a head, and a head has an owner or is dead.
LEMMA HeadFacts ==
  /\ \A p \in Callers : buf[p].live => buf[p].d0 \in Heads
  /\ \A d \in Heads : d \in dead \/ \E p \in Callers : buf[p].live /\ buf[p].d0 = d
BY DEF Heads

\* A killed caller leaves its request, which the device still has, owned.
LEMMA AbandonKeeps ==
  ASSUME VirtioInv, NEW p \in Callers, Abandon(p)
  PROVE  VirtioInv'
<1> DEFINE d0 == buf[p].d0
<1>0. VirtioTypeOK /\ RequestInv /\ buf[p].live /\ buf' = [buf EXCEPT ![p] = NoBuf] /\ dead' = dead \cup {d0}
  BY DEF VirtioInv, Abandon
<1>1. NoBuf \in [live : BOOLEAN, d0 : Descs, posted : BOOLEAN, served : BOOLEAN] /\ d0 \in Descs
  BY <1>0, VirtioConsts DEF VirtioTypeOK, NoBuf, Descs
<1>2. VirtioTypeOK'
  <2>1. abandoned' \in 0..MaxAbandoned
    BY VirtioConsts DEF VirtioInv, VirtioTypeOK, Abandon
  <2>. QED BY <1>0, <1>1, <2>1 DEF VirtioTypeOK, Abandon
<1>3. ~NoBuf.live /\ ~NoBuf.posted
  BY DEF NoBuf
<1>4. \A q \in Callers : buf'[q] = IF q = p THEN NoBuf ELSE buf[q]
  BY <1>0 DEF VirtioTypeOK
<1>5. Heads' = Heads
  <2>1. \A d : d \in Heads' <=> d \in dead' \/ \E q \in Callers : buf'[q].live /\ buf'[q].d0 = d
    BY DEF Heads
  <2>2. \A d : d \in Heads <=> d \in dead \/ \E q \in Callers : buf[q].live /\ buf[q].d0 = d
    BY DEF Heads
  <2>3. ASSUME NEW d \in Heads' PROVE d \in Heads
    BY <2>1, <2>2, <1>0, <1>3, <1>4
  <2>4. ASSUME NEW d \in Heads PROVE d \in Heads'
    <3>1. CASE d \in dead \/ d = d0
      BY <3>1, <2>1, <1>0
    <3>2. CASE \E q \in Callers : q # p /\ buf[q].live /\ buf[q].d0 = d
      BY <3>2, <2>1, <1>4
    <3>. QED BY <3>1, <3>2, <2>2
  <2>. QED BY <2>3, <2>4
<1>6. FreeInv' /\ ChainInv'
  BY <1>5, SameLists DEF Abandon
<1>7. RequestInv'
  <2>1. avail' = avail /\ used' = used /\ info' = info /\ desc' = desc
    BY DEF Abandon
  <2>2. ASSUME NEW q \in Callers, buf'[q].live PROVE buf'[q] = buf[q] /\ buf[q].d0 # d0
    BY <2>2, <1>3, <1>4, <1>0 DEF RequestInv
  <2>. QED BY <2>1, <2>2, <1>0, <1>3, <1>4, <1>5 DEF RequestInv, Second
<1>. QED BY <1>2, <1>6, <1>7 DEF VirtioInv

\* The device follows a chain to the Buf of the process that queued it.
LEMMA DeviceServeKeeps ==
  ASSUME VirtioInv, NEW d \in Descs, DeviceServe(d)
  PROVE  VirtioInv'
<1>0. VirtioTypeOK /\ RequestInv /\ d \in avail /\ d \notin dead /\ d \in Heads
  BY DEF VirtioInv, DeviceServe, RequestInv
<1>1. PICK p \in Callers : buf[p].live /\ buf[p].d0 = d
  BY <1>0, HeadFacts
<1>2. desc[desc[d].next].buf = p
  BY <1>0, <1>1 DEF RequestInv, Second
<1>3. buf' = [buf EXCEPT ![p].served = TRUE] /\ avail' = avail \ {d} /\ used' = used \cup {d}
  BY <1>2 DEF DeviceServe
<1>4. \A q \in Callers : /\ buf'[q].live = buf[q].live /\ buf'[q].d0 = buf[q].d0
                        /\ buf'[q].posted = buf[q].posted
                        /\ buf'[q].served = IF q = p THEN TRUE ELSE buf[q].served
  BY <1>3, <1>0 DEF VirtioTypeOK
<1>5. VirtioTypeOK'
  <2>1. buf' \in [Callers -> [live : BOOLEAN, d0 : Descs, posted : BOOLEAN, served : BOOLEAN]]
    BY <1>0, <1>3 DEF VirtioTypeOK
  <2>2. {avail', used', dead'} \subseteq SUBSET Descs
    BY <1>0, <1>3 DEF VirtioTypeOK, DeviceServe
  <2>. QED BY <2>1, <2>2, <1>0 DEF VirtioTypeOK, DeviceServe
<1>6. Heads' = Heads
  <2>1. dead' = dead
    BY DEF DeviceServe
  <2>. QED BY <2>1, <1>4 DEF Heads
<1>7. FreeInv' /\ ChainInv'
  BY <1>6, SameLists DEF DeviceServe
<1>8. RequestInv'
  <2>1. dead' = dead /\ info' = info /\ desc' = desc
    BY DEF DeviceServe
  <2>2. \A q \in Callers : buf[q].live /\ buf[q].d0 = d => q = p
    BY <1>0, <1>1 DEF RequestInv
  <2>3. avail' \cup used' = avail \cup used /\ avail' \cap used' = {}
    BY <1>0, <1>3 DEF RequestInv
  <2>4. ASSUME NEW q \in Callers, buf'[q].live
        PROVE  /\ buf'[q].d0 \notin dead'
               /\ \A r \in Callers : buf'[r].live /\ buf'[r].d0 = buf'[q].d0 => r = q
               /\ desc'[Second(buf[q].d0)'].buf = q
               /\ buf'[q].posted => buf'[q].d0 \notin avail' \cup used'
               /\ ~buf'[q].posted => buf'[q].d0 \in avail' \cup used' /\ info'[buf'[q].d0] = q
               /\ buf'[q].d0 \in used' => buf'[q].served
    <3>1. buf[q].live /\ (buf[q].d0 \in used => buf[q].served)
      BY <2>4, <1>4, <1>0 DEF RequestInv
    <3>2. buf'[q].d0 \in used' => buf'[q].served
      <4>1. CASE q = p
        <5>1. buf'[q].served = TRUE
          BY <4>1, <1>4
        <5>. QED BY <5>1
      <4>2. CASE q # p
        <5>1. buf'[q].d0 \in used' => buf[q].d0 \in used
          BY <4>2, <3>1, <2>2, <1>3, <1>4
        <5>2. buf'[q].served = buf[q].served
          BY <4>2, <1>4
        <5>. QED BY <3>1, <5>1, <5>2
      <4>. QED BY <4>1, <4>2
    <3>3. desc'[Second(buf[q].d0)'].buf = q
      BY <3>1, <2>1, <1>4, <1>0 DEF RequestInv, Second
    <3>4. \A r \in Callers : buf'[r].live /\ buf'[r].d0 = buf'[q].d0 => r = q
      BY <3>1, <1>4, <1>0 DEF RequestInv
    <3>5. buf'[q].d0 \notin dead'
      BY <3>1, <2>1, <1>4, <1>0 DEF RequestInv
    <3>6. buf'[q].posted => buf'[q].d0 \notin avail' \cup used'
      BY <3>1, <2>3, <1>4, <1>0 DEF RequestInv
    <3>7. ~buf'[q].posted => buf'[q].d0 \in avail' \cup used' /\ info'[buf'[q].d0] = q
      BY <3>1, <2>1, <2>3, <1>4, <1>0 DEF RequestInv
    <3>. QED BY <3>2, <3>3, <3>4, <3>5, <3>6, <3>7
  <2>5. ASSUME NEW q \in Callers
        PROVE  (buf'[q].posted => buf'[q].served) /\ (~buf'[q].live => ~buf'[q].posted)
    BY <1>4, <1>0 DEF RequestInv
  <2>. QED BY <2>3, <2>4, <2>5, <1>6, <1>0 DEF RequestInv
<1>. QED BY <1>5, <1>7, <1>8 DEF VirtioInv

\* The interrupt posts the Bufs of the requests served, and only those.
LEMMA InterruptKeeps ==
  ASSUME VirtioInv, Interrupt
  PROVE  VirtioInv'
<1>0. VirtioTypeOK /\ RequestInv /\ used \cap dead = {}
  BY DEF VirtioInv, Interrupt
<1> DEFINE Woken(p) == buf[p].live /\ buf[p].d0 \in used
<1>1. ASSUME NEW d \in used PROVE \E p \in Callers : Woken(p) /\ buf[p].d0 = d /\ info[d] = p
  <2>1. d \in Heads /\ d \notin dead
    BY <1>0 DEF RequestInv
  <2>2. PICK p \in Callers : buf[p].live /\ buf[p].d0 = d
    BY <2>1, HeadFacts
  <2>. QED BY <2>2, <1>0 DEF RequestInv
<1>2. ASSUME NEW p \in Callers PROVE Woken(p) <=> \E d \in used : info[d] = p
  BY <1>0, <1>1 DEF RequestInv
<1>3. ASSUME NEW p \in Callers
      PROVE  /\ buf'[p].live = buf[p].live /\ buf'[p].d0 = buf[p].d0 /\ buf'[p].served = buf[p].served
             /\ buf'[p].posted = (buf[p].posted \/ Woken(p))
  <2>1. buf'[p] = IF \E d \in used : info[d] = p THEN [buf[p] EXCEPT !.posted = TRUE] ELSE buf[p]
    BY DEF Interrupt
  <2>2. buf[p] \in [live : BOOLEAN, d0 : Descs, posted : BOOLEAN, served : BOOLEAN]
    BY <1>0 DEF VirtioTypeOK
  <2>3. CASE Woken(p)
    <3>1. buf'[p] = [buf[p] EXCEPT !.posted = TRUE]
      BY <2>1, <2>3, <1>2
    <3>2. buf'[p].posted = TRUE
      BY <3>1, <2>2
    <3>. QED BY <3>1, <3>2, <2>2, <2>3
  <2>4. CASE ~Woken(p)
    BY <2>1, <2>2, <2>4, <1>2
  <2>. QED BY <2>3, <2>4
<1>4. VirtioTypeOK'
  <2>1. buf' \in [Callers -> [live : BOOLEAN, d0 : Descs, posted : BOOLEAN, served : BOOLEAN]]
    BY <1>0 DEF VirtioTypeOK, Interrupt
  <2>2. info' \in [Descs -> Callers \cup {Nobody}]
    BY <1>0 DEF VirtioTypeOK, Interrupt
  <2>. QED BY <2>1, <2>2, <1>0 DEF VirtioTypeOK, Interrupt
<1>5. Heads' = Heads
  <2>1. dead' = dead
    BY DEF Interrupt
  <2>. QED BY <2>1, <1>3 DEF Heads
<1>6. FreeInv' /\ ChainInv'
  BY <1>5, SameLists DEF Interrupt
<1>7. RequestInv'
  <2>1. dead' = dead /\ desc' = desc /\ avail' = avail /\ used' = {}
    BY DEF Interrupt
  <2>2. \A d \in Descs \ used : info'[d] = info[d]
    BY DEF Interrupt
  <2>3. \A p \in Callers : buf[p].d0 \in Descs
    BY <1>0 DEF VirtioTypeOK
  <2>4. ASSUME NEW q \in Callers, buf'[q].live
        PROVE  /\ buf'[q].d0 \notin dead'
               /\ \A r \in Callers : buf'[r].live /\ buf'[r].d0 = buf'[q].d0 => r = q
               /\ desc'[Second(buf[q].d0)'].buf = q
               /\ buf'[q].posted => buf'[q].d0 \notin avail' \cup used'
               /\ ~buf'[q].posted => buf'[q].d0 \in avail' \cup used' /\ info'[buf'[q].d0] = q
               /\ buf'[q].d0 \in used' => buf'[q].served
    <3>1. buf[q].live /\ buf'[q].d0 = buf[q].d0 /\ (buf'[q].posted <=> buf[q].posted \/ Woken(q))
      BY <2>4, <1>3
    <3>2. desc'[Second(buf[q].d0)'].buf = q
      BY <3>1, <2>1, <1>0 DEF RequestInv, Second
    <3>3. buf[q].posted => buf[q].d0 \notin avail \cup used
      BY <3>1, <1>0 DEF RequestInv
    <3>4. ~buf[q].posted => buf[q].d0 \in avail \cup used /\ info[buf[q].d0] = q
      BY <3>1, <1>0 DEF RequestInv
    <3>5. avail \cap used = {}
      BY <1>0 DEF RequestInv
    <3>6. buf'[q].posted => buf'[q].d0 \notin avail' \cup used'
      BY <3>1, <3>3, <3>5, <2>1
    <3>7. ~buf'[q].posted => buf'[q].d0 \in avail' \cup used' /\ info'[buf'[q].d0] = q
      BY <3>1, <3>4, <2>1, <2>2, <2>3
    <3>. QED BY <3>1, <3>2, <3>6, <3>7, <2>1, <1>3, <1>0 DEF RequestInv
  <2>5. ASSUME NEW q \in Callers
        PROVE  (buf'[q].posted => buf'[q].served) /\ (~buf'[q].live => ~buf'[q].posted)
    BY <1>3, <1>0 DEF RequestInv
  <2>. QED BY <2>1, <2>4, <2>5, <1>5, <1>0 DEF RequestInv
<1>. QED BY <1>4, <1>6, <1>7 DEF VirtioInv

-----------------------------------------------------------------------------
\* The list of free descriptors, as a function of its positions.
LEMMA FreeFacts ==
  ASSUME VirtioInv, NEW f, f = Follow(desc, free_head)
  PROVE  /\ f \in [0..NQueue -> Descs] /\ f[0] = free_head
         /\ \A i \in 0..(NQueue - 1) : f[i + 1] = desc[f[i]].next
         /\ \A i, j \in 0..(nfree - 1) : f[i] = f[j] => i = j
         /\ \A i \in 0..(nfree - 2) : desc[f[i]].more
         /\ FreeList = {f[k] : k \in 0..(nfree - 1)}
         /\ nfree \in 0..NQueue
<1>1. desc \in Links /\ free_head \in Descs /\ nfree \in 0..NQueue
  BY DEF VirtioInv, VirtioTypeOK, Links
<1>2. f \in [0..NQueue -> Descs] /\ IsPath(desc, free_head, NQueue, f)
  BY <1>1, FollowFacts
<1>3. /\ \A i, j \in 0..(nfree - 1) : f[i] = f[j] => i = j
      /\ \A i \in 0..(nfree - 2) : desc[f[i]].more
  BY DEF VirtioInv, FreeInv
<1>4. FreeList = {f[k] : k \in 0..(nfree - 1)}
  BY DEF FreeList
<1>. QED BY <1>1, <1>2, <1>3, <1>4 DEF IsPath

\* alloc_desc takes the first three free descriptors, and leaves a free list.
LEMMA SubmitKeeps ==
  ASSUME VirtioInv, NEW p \in Callers, Submit(p)
  PROVE  VirtioInv' /\ DeviceChainsKept
<1> USE VirtioConsts
<1> DEFINE f == Follow(desc, free_head)
<1>f. f = Follow(desc, free_head)
  OBVIOUS
<1> HIDE DEF f
<1>0. VirtioTypeOK /\ FreeInv /\ ChainInv /\ RequestInv /\ ~buf[p].live /\ nfree >= 3 /\ nfree \in 0..NQueue
  BY DEF VirtioInv, Submit, VirtioTypeOK
<1>1. /\ f \in [0..NQueue -> Descs] /\ f[0] = free_head
      /\ \A i \in 0..(NQueue - 1) : f[i + 1] = desc[f[i]].next
      /\ \A i, j \in 0..(nfree - 1) : f[i] = f[j] => i = j
      /\ \A i \in 0..(nfree - 2) : desc[f[i]].more
      /\ FreeList = {f[k] : k \in 0..(nfree - 1)}
  BY <1>f, FreeFacts
<1>p. PICK d0 \in Descs, d1 \in Descs, d2 \in Descs : d0 = f[0] /\ d1 = f[1] /\ d2 = f[2]
  BY <1>0, <1>1
<1>2. /\ d0 \in Descs /\ d1 \in Descs /\ d2 \in Descs
      /\ d0 # d1 /\ d0 # d2 /\ d1 # d2
      /\ d0 \in FreeList /\ d1 \in FreeList /\ d2 \in FreeList
  BY <1>0, <1>1, <1>p
<1>3. AllocDesc(d0) = d1 /\ AllocDesc(d1) = d2
  <2>1. desc[d0].more /\ desc[d1].more
    BY <1>0, <1>1, <1>p
  <2>2. desc[d0].next = f[0 + 1] /\ desc[d1].next = f[1 + 1]
    BY <1>0, <1>1, <1>p
  <2>. QED BY <2>1, <2>2, <1>p DEF AllocDesc
<1>4. nfree > 3 => AllocDesc(d2) = f[3]
  <2>1. ASSUME nfree > 3 PROVE desc[d2].more /\ desc[d2].next = f[2 + 1]
    BY <2>1, <1>0, <1>1, <1>p
  <2>. QED BY <2>1 DEF AllocDesc
<1>5. AllocDesc(d2) \in Descs
  BY <1>0, <1>2 DEF AllocDesc, VirtioTypeOK
<1>6. /\ desc' = [desc EXCEPT ![d0] = [next |-> d1, more |-> TRUE, buf |-> Nobody],
                             ![d1] = [next |-> d2, more |-> TRUE, buf |-> p],
                             ![d2] = [next |-> 0, more |-> FALSE, buf |-> Nobody]]
      /\ free_head' = AllocDesc(d2)
      /\ avail' = avail \cup {d0}
      /\ info' = [info EXCEPT ![d0] = p]
      /\ buf' = [buf EXCEPT ![p] = [live |-> TRUE, d0 |-> d0, posted |-> FALSE, served |-> FALSE]]
      /\ nfree' = nfree - 3 /\ used' = used /\ dead' = dead /\ abandoned' = abandoned /\ stopped' = stopped
  BY <1>1, <1>3, <1>p DEF Submit
<1>7. /\ desc'[d0] = [next |-> d1, more |-> TRUE, buf |-> Nobody]
      /\ desc'[d1] = [next |-> d2, more |-> TRUE, buf |-> p]
      /\ desc'[d2] = [next |-> 0, more |-> FALSE, buf |-> Nobody]
      /\ \A d \in Descs \ {d0, d1, d2} : desc'[d] = desc[d]
  BY <1>0, <1>2, <1>6 DEF VirtioTypeOK
<1>8. desc' \in Links
  <2>1. 0 \in Descs
    BY DEF Descs
  <2>2. \A d \in Descs : desc'[d] \in [next : Descs, more : BOOLEAN, buf : Callers \cup {Nobody}]
    <3>1. SUFFICES ASSUME NEW d \in Descs PROVE desc'[d] \in [next : Descs, more : BOOLEAN, buf : Callers \cup {Nobody}]
      OBVIOUS
    <3>2. CASE d \in {d0, d1, d2}
      <4>1. CASE d = d0
        BY <4>1, <1>2, <1>7
      <4>2. CASE d = d1
        BY <4>2, <1>2, <1>7
      <4>3. CASE d = d2
        BY <4>3, <1>7, <2>1
      <4>. QED BY <4>1, <4>2, <4>3, <3>2
    <3>3. CASE d \notin {d0, d1, d2}
      BY <3>3, <1>0, <1>7 DEF VirtioTypeOK
    <3>. QED BY <3>2, <3>3
  <2>3. desc' = [d \in Descs |-> desc'[d]]
    BY <1>0, <1>6 DEF VirtioTypeOK
  <2>. QED BY <2>2, <2>3 DEF Links
<1> DEFINE b == [live |-> TRUE, d0 |-> d0, posted |-> FALSE, served |-> FALSE]
<1>9. buf'[p] = b /\ \A q \in Callers : q # p => buf'[q] = buf[q]
  BY <1>0, <1>6 DEF VirtioTypeOK
<1>10. VirtioTypeOK'
  <2>1. b \in [live : BOOLEAN, d0 : Descs, posted : BOOLEAN, served : BOOLEAN] /\ buf' = [buf EXCEPT ![p] = b]
    BY <1>2, <1>6
  <2> HIDE DEF b
  <2>2. buf' \in [Callers -> [live : BOOLEAN, d0 : Descs, posted : BOOLEAN, served : BOOLEAN]]
    BY <2>1, <1>0, <1>6 DEF VirtioTypeOK
  <2>3. nfree' \in 0..NQueue /\ {avail', used', dead'} \subseteq SUBSET Descs
    BY <1>0, <1>2, <1>6 DEF VirtioTypeOK
  <2>. QED BY <2>2, <2>3, <1>0, <1>5, <1>6, <1>8 DEF VirtioTypeOK, Links
<1>11. d0 \notin Heads
  BY <1>0, <1>2 DEF ChainInv, Chain
<1>12. Heads' = Heads \cup {d0}
  <2>1. \A d : d \in Heads' <=> d \in dead' \/ \E q \in Callers : buf'[q].live /\ buf'[q].d0 = d
    BY DEF Heads
  <2>2. \A d : d \in Heads <=> d \in dead \/ \E q \in Callers : buf[q].live /\ buf[q].d0 = d
    BY DEF Heads
  <2>3. ASSUME NEW d \in Heads' PROVE d \in Heads \cup {d0}
    <3>1. CASE d \in dead
      BY <3>1, <2>2
    <3>2. CASE d \notin dead
      <4>1. PICK q \in Callers : buf'[q].live /\ buf'[q].d0 = d
        BY <3>2, <2>1, <1>6
      <4>2. CASE q = p
        BY <4>1, <4>2, <1>9
      <4>3. CASE q # p
        BY <4>1, <4>3, <1>9, <2>2
      <4>. QED BY <4>2, <4>3
    <3>. QED BY <3>1, <3>2
  <2>4. ASSUME NEW d \in Heads PROVE d \in Heads'
    <3>1. CASE d \in dead
      BY <3>1, <2>1, <1>6
    <3>2. CASE \E q \in Callers : buf[q].live /\ buf[q].d0 = d
      <4>1. PICK q \in Callers : buf[q].live /\ buf[q].d0 = d
        BY <3>2
      <4>2. q # p
        BY <4>1, <1>0
      <4>. QED BY <4>1, <4>2, <1>9, <2>1
    <3>. QED BY <3>1, <3>2, <2>2
  <2>5. d0 \in Heads'
    <3>1. buf'[p].live /\ buf'[p].d0 = d0
      BY <1>9
    <3>. QED BY <2>1, <3>1
  <2>. QED BY <2>3, <2>4, <2>5
<1>13. ASSUME NEW d \in Heads
       PROVE  /\ d \in Descs /\ Second(d) \in Descs /\ Third(d) \in Descs
              /\ {d, Second(d), Third(d)} \cap {d0, d1, d2} = {}
              /\ Second(d)' = Second(d) /\ Third(d)' = Third(d) /\ Chain(d)' = Chain(d)
              /\ desc'[d] = desc[d] /\ desc'[Second(d)] = desc[Second(d)] /\ desc'[Third(d)] = desc[Third(d)]
  <2>1. d \in Descs
    BY <1>0, <1>13 DEF Heads, VirtioTypeOK
  <2>2. Second(d) \in Descs /\ Third(d) \in Descs
    BY <1>0, <2>1 DEF VirtioTypeOK, Second, Third
  <2>3. {d, Second(d), Third(d)} \cap {d0, d1, d2} = {}
    BY <1>0, <1>2 DEF ChainInv, Chain, Second, Third
  <2>4. desc'[d] = desc[d] /\ desc'[Second(d)] = desc[Second(d)] /\ desc'[Third(d)] = desc[Third(d)]
    BY <2>1, <2>2, <2>3, <1>7
  <2>5. Second(d)' = Second(d) /\ Third(d)' = Third(d) /\ Chain(d)' = Chain(d)
    BY <2>4 DEF Second, Third, Chain
  <2>. QED BY <2>1, <2>2, <2>3, <2>4, <2>5
<1>14. Second(d0)' = d1 /\ Third(d0)' = d2 /\ Chain(d0)' = {d0, d1, d2}
  <2>1. desc'[d0].next = d1 /\ desc'[d1].next = d2
    BY <1>7
  <2>2. Second(d0)' = desc'[d0].next /\ Third(d0)' = desc'[desc'[d0].next].next
    BY DEF Second, Third
  <2>. QED BY <2>1, <2>2 DEF Chain
<1> DEFINE m == nfree - 3
           g == [i \in 0..m |-> f[i + 3]]
<1>15. ASSUME nfree > 3
       PROVE  /\ FreeInv' /\ FreeList' \subseteq {f[k] : k \in 3..(nfree - 1)}
  <2>1. m \in Nat /\ m > 0 /\ m <= NQueue /\ g[0] = free_head'
    BY <1>15, <1>0, <1>4, <1>6
  <2>2. ASSUME NEW i \in 0..(m - 1) PROVE g[i] = f[i + 3] /\ i + 3 \in 0..(nfree - 1) /\ f[i + 3] \in Descs \ {d0, d1, d2}
    <3>1. g[i] = f[i + 3] /\ i + 3 \in 0..(nfree - 1) /\ i + 3 \in 0..NQueue /\ 0 \in 0..(nfree - 1) /\ 1 \in 0..(nfree - 1) /\ 2 \in 0..(nfree - 1)
      BY <1>0
    <3>2. f[i + 3] # f[0] /\ f[i + 3] # f[1] /\ f[i + 3] # f[2]
      <4>1. i + 3 # 0 /\ i + 3 # 1 /\ i + 3 # 2
        OBVIOUS
      <4>. QED BY <3>1, <4>1, <1>1
    <3>. QED BY <3>1, <3>2, <1>1, <1>p
  <2>3. ASSUME NEW i \in 0..(m - 2) PROVE g[i + 1] = desc'[g[i]].next /\ desc'[g[i]].more
    <3>1. i \in 0..(m - 1) /\ i + 1 \in 0..(m - 1) /\ (i + 1) + 3 = (i + 3) + 1 /\ i + 3 \in 0..(nfree - 2) /\ i + 3 \in 0..(NQueue - 1)
      BY <1>0
    <3>2. g[i + 1] = f[(i + 3) + 1] /\ g[i] = f[i + 3]
      BY <3>1, <2>2
    <3>3. f[(i + 3) + 1] = desc[f[i + 3]].next /\ desc[f[i + 3]].more
      BY <3>1, <1>1
    <3>4. desc'[f[i + 3]] = desc[f[i + 3]]
      BY <3>1, <2>2, <1>7
    <3>. QED BY <3>2, <3>3, <3>4
  <2>4. ASSUME NEW i \in 0..(m - 1), NEW j \in 0..(m - 1), g[i] = g[j] PROVE i = j
    <3>1. i + 3 = j + 3
      BY <2>2, <2>4, <1>1
    <3>. QED BY <3>1
  <2> HIDE DEF g
  <2>5. IsPath(desc', free_head', m - 1, g)
    <3>1. (m - 1) - 1 = m - 2
      BY <2>1
    <3>. QED BY <2>1, <2>3, <3>1 DEF IsPath
  <2>6. LET h == Follow(desc', free_head')
        IN  /\ \A i, j \in 0..(m - 1) : h[i] = h[j] => i = j
            /\ \A i \in 0..(m - 2) : desc'[h[i]].more
            /\ {h[k] : k \in 0..(m - 1)} = {g[k] : k \in 0..(m - 1)}
    <3>1. free_head' \in Descs
      BY <1>5, <1>6
    <3>2. \A i, j \in 0..(m - 1) : g[i] = g[j] => i = j
      BY <2>4
    <3>3. \A i \in 0..(m - 2) : desc'[g[i]].more
      BY <2>3
    <3>4. m - 1 \in 0..NQueue
      BY <2>1
    <3> HIDE DEF m
    <3>5. \A i \in 0..(m - 1) : Follow(desc', free_head')[i] = g[i]
      BY <3>1, <3>4, <2>5, <1>8, PathUnique
    <3>. QED BY <2>1, <3>2, <3>3, <3>5
  <2>7. FreeInv'
    BY <2>6, <1>6 DEF FreeInv
  <2>8. ASSUME NEW k \in 0..(m - 1) PROVE g[k] \in {f[j] : j \in 3..(nfree - 1)}
    <3>1. k + 3 \in 3..(nfree - 1)
      BY <1>0
    <3>. QED BY <3>1, <2>2
  <2>9. FreeList' = {g[k] : k \in 0..(m - 1)}
    BY <2>6, <1>6 DEF FreeList
  <2>. QED BY <2>7, <2>8, <2>9
<1>16. ASSUME nfree = 3 PROVE FreeInv' /\ FreeList' = {}
  <2>1. nfree' = 0 /\ 0..(nfree' - 1) = {} /\ 0..(nfree' - 2) = {}
    BY <1>16, <1>6
  <2>. QED BY <2>1 DEF FreeInv, FreeList
<1>17. FreeInv' /\ FreeList' \subseteq FreeList \ {d0, d1, d2}
  <2>1. ASSUME nfree > 3, NEW k \in 3..(nfree - 1) PROVE f[k] \in FreeList \ {d0, d1, d2}
    <3>1. k \in 0..(nfree - 1) /\ 0 \in 0..(nfree - 1) /\ 1 \in 0..(nfree - 1) /\ 2 \in 0..(nfree - 1) /\ k # 0 /\ k # 1 /\ k # 2
      BY <1>0, <2>1
    <3>2. f[k] # f[0] /\ f[k] # f[1] /\ f[k] # f[2]
      BY <3>1, <1>1
    <3>. QED BY <3>1, <3>2, <1>1, <1>p
  <2>. QED BY <2>1, <1>15, <1>16, <1>0
<1>18. ChainInv'
  <2>1. ASSUME NEW d \in Heads'
        PROVE  /\ d # Second(d)' /\ d # Third(d)' /\ Second(d)' # Third(d)'
               /\ desc'[d].more /\ desc'[Second(d)'].more /\ ~desc'[Third(d)'].more
               /\ Chain(d)' \cap FreeList' = {}
    <3>1. CASE d = d0
      <4>1. desc'[d0].more /\ desc'[d1].more /\ ~desc'[d2].more
        BY <1>7
      <4>2. Chain(d0)' \cap FreeList' = {}
        BY <1>14, <1>17
      <4>. QED BY <3>1, <4>1, <4>2, <1>2, <1>14
    <3>2. CASE d \in Heads
      <4>1. Chain(d) \cap FreeList = {}
        BY <3>2, <1>0 DEF ChainInv
      <4>2. Chain(d)' \cap FreeList' = {}
        BY <4>1, <3>2, <1>13, <1>17
      <4>. QED BY <3>2, <4>2, <1>13, <1>0 DEF ChainInv
    <3>. QED BY <3>1, <3>2, <1>12
  <2>2. ASSUME NEW d \in Heads', NEW e \in Heads', d # e PROVE Chain(d)' \cap Chain(e)' = {}
    <3>1. ASSUME NEW x \in Heads PROVE Chain(x)' \cap Chain(d0)' = {}
      BY <3>1, <1>13, <1>14 DEF Chain, Second, Third
    <3>2. CASE d \in Heads /\ e \in Heads
      BY <3>2, <2>2, <1>13, <1>0 DEF ChainInv
    <3>. QED BY <3>1, <3>2, <2>2, <1>12
  <2>3. IsFiniteSet(Heads') /\ Cardinality(Heads') = Cardinality(Heads) + 1 /\ Cardinality(Heads) \in Nat
    BY <1>0, <1>11, <1>12, FS_AddElement, FS_CardinalityType DEF ChainInv
  <2>4. nfree' = NQueue - 3 * Cardinality(Heads')
    BY <2>3, <1>0, <1>6 DEF ChainInv
  <2>. QED BY <2>1, <2>2, <2>3, <2>4 DEF ChainInv
<1>19. RequestInv'
  <2>1. d0 \notin avail \cup used /\ d0 \notin dead
    BY <1>0, <1>11, HeadFacts DEF RequestInv, Heads
  <2>2. avail' \cup used' \subseteq Heads' /\ avail' \cap used' = {}
    BY <2>1, <1>0, <1>6, <1>12 DEF RequestInv
  <2>3. ASSUME NEW q \in Callers, buf[q].live PROVE buf[q].d0 # d0 /\ q # p /\ buf'[q] = buf[q] /\ buf[q].d0 \in Heads
    BY <2>3, <1>0, <1>9, <1>11, HeadFacts
  <2>4. ASSUME NEW q \in Callers, buf'[q].live
        PROVE  /\ buf'[q].d0 \notin dead'
               /\ \A r \in Callers : buf'[r].live /\ buf'[r].d0 = buf'[q].d0 => r = q
               /\ desc'[Second(buf[q].d0)'].buf = q
               /\ buf'[q].posted => buf'[q].d0 \notin avail' \cup used'
               /\ ~buf'[q].posted => buf'[q].d0 \in avail' \cup used' /\ info'[buf'[q].d0] = q
               /\ buf'[q].d0 \in used' => buf'[q].served
    <3>1. CASE q = p
      <4>1. buf'[q].d0 = d0 /\ ~buf'[q].posted
        BY <3>1, <1>9
      <4>2. \A r \in Callers : buf'[r].live /\ buf'[r].d0 = d0 => r = q
        BY <3>1, <1>9, <2>3
      <4>3. info'[d0] = p
        BY <1>0, <1>2, <1>6 DEF VirtioTypeOK
      <4>4. Second(buf[q].d0)' = d1 /\ desc'[d1].buf = p
        BY <4>1, <1>14, <1>7 DEF Second
      <4>. QED BY <3>1, <4>1, <4>2, <4>3, <4>4, <2>1, <1>6
    <3>2. CASE q # p
      <4>1. buf'[q] = buf[q] /\ buf[q].live
        BY <3>2, <2>4, <1>9
      <4>2. buf[q].d0 # d0 /\ buf[q].d0 \in Heads
        BY <4>1, <2>3
      <4>3. \A r \in Callers : buf'[r].live /\ buf'[r].d0 = buf'[q].d0 => r = q
        <5>1. ASSUME NEW r \in Callers, buf'[r].live, buf'[r].d0 = buf'[q].d0 PROVE r = q
          <6>1. r # p
            BY <5>1, <4>1, <4>2, <1>9
          <6>2. buf'[r] = buf[r]
            BY <6>1, <1>9
          <6>. QED BY <5>1, <6>2, <4>1, <1>0 DEF RequestInv
        <5>. QED BY <5>1
      <4>4. desc'[Second(buf[q].d0)'].buf = q
        <5>1. desc[Second(buf[q].d0)].buf = q
          BY <4>1, <1>0 DEF RequestInv
        <5>2. Second(buf[q].d0)' = Second(buf[q].d0)
          BY <4>1, <4>2, <1>13 DEF Second
        <5>. QED BY <5>1, <5>2, <4>2, <1>13
      <4>5. info'[buf[q].d0] = info[buf[q].d0]
        BY <4>2, <1>0, <1>6 DEF VirtioTypeOK
      <4>6. /\ buf[q].d0 \notin dead
            /\ buf[q].posted => buf[q].d0 \notin avail \cup used
            /\ ~buf[q].posted => buf[q].d0 \in avail \cup used /\ info[buf[q].d0] = q
            /\ buf[q].d0 \in used => buf[q].served
        BY <4>1, <1>0 DEF RequestInv
      <4>. QED BY <4>1, <4>2, <4>3, <4>4, <4>5, <4>6, <1>6
    <3>. QED BY <3>1, <3>2
  <2>5. ASSUME NEW q \in Callers
        PROVE  (buf'[q].posted => buf'[q].served) /\ (~buf'[q].live => ~buf'[q].posted)
    <3>1. CASE q = p
      BY <3>1, <1>9
    <3>2. CASE q # p
      BY <3>2, <1>9, <1>0 DEF RequestInv
    <3>. QED BY <3>1, <3>2
  <2>. QED BY <2>2, <2>4, <2>5 DEF RequestInv
<1>20. DeviceChainsKept
  <2>1. ASSUME NEW d \in Heads PROVE Untouched(d)
    BY <1>13 DEF Untouched, Chain, Second, Third
  <2>. QED BY <2>1, <1>0 DEF DeviceChainsKept, RequestInv
<1>. QED BY <1>10, <1>17, <1>18, <1>19, <1>20 DEF VirtioInv

\* free_desc walks the three descriptors of a request.
LEMMA ChainWalk ==
  ASSUME VirtioInv, NEW d \in Heads
  PROVE  ChainLen(d) = 3 /\ Follow(desc, d)[2] = Third(d)
<1> USE VirtioConsts
<1> DEFINE F == Follow(desc, d)
<1>1. desc \in Links /\ d \in Descs
  BY DEF VirtioInv, VirtioTypeOK, Links, Heads
<1>2. /\ desc[d].more /\ desc[Second(d)].more /\ ~desc[Third(d)].more
      /\ nfree = NQueue - 3 * Cardinality(Heads) /\ nfree \in 0..NQueue /\ IsFiniteSet(Heads)
  BY DEF VirtioInv, ChainInv, VirtioTypeOK
<1>3. NQueue >= 3
  <2>1. Cardinality(Heads) \in Nat /\ Cardinality(Heads) # 0
    BY <1>2, FS_CardinalityType, FS_EmptySet
  <2>. QED BY <2>1, <1>2
<1>4. F[0] = d /\ F[1] = Second(d) /\ F[2] = Third(d)
  <2>1. F[0] = d /\ \A i \in 0..(NQueue - 1) : F[i + 1] = desc[F[i]].next
    BY <1>1, FollowFacts DEF IsPath
  <2>2. F[0 + 1] = desc[F[0]].next /\ F[1 + 1] = desc[F[1]].next
    BY <2>1, <1>3
  <2>. QED BY <2>1, <2>2 DEF Second, Third
<1> HIDE DEF F
<1> DEFINE Stops(k) == /\ k = NQueue \/ ~desc[F[k - 1]].more
                       /\ \A j \in 1..(k - 1) : desc[F[j - 1]].more
<1>5. 3 \in 1..NQueue /\ Stops(3)
  <2>1. \A j \in 1..(3 - 1) : desc[F[j - 1]].more
    <3>1. ASSUME NEW j \in 1..(3 - 1) PROVE j - 1 = 0 \/ j - 1 = 1
      OBVIOUS
    <3>. QED BY <3>1, <1>2, <1>4
  <2>2. 3 - 1 = 2
    OBVIOUS
  <2>. QED BY <2>1, <2>2, <1>2, <1>3, <1>4
<1>6. ASSUME NEW k \in 1..NQueue, Stops(k) PROVE k = 3
  <2>1. CASE k < 3
    <3>1. k - 1 = 0 \/ k - 1 = 1
      BY <2>1
    <3>2. desc[F[k - 1]].more /\ k # NQueue
      BY <3>1, <2>1, <1>2, <1>3, <1>4
    <3>. QED BY <3>2, <1>6
  <2>2. CASE k > 3
    <3>1. 3 \in 1..(k - 1) /\ 3 - 1 = 2
      BY <2>2
    <3>2. desc[F[3 - 1]].more
      BY <3>1, <1>6
    <3>. QED BY <3>1, <3>2, <1>2, <1>4
  <2>. QED BY <2>1, <2>2
<1>7. ChainLen(d) = CHOOSE k \in 1..NQueue : Stops(k)
  BY DEF ChainLen, F
<1>8. ChainLen(d) = 3
  <2> HIDE DEF Stops
  <2>. QED BY <1>5, <1>6, <1>7
<1>. QED BY <1>4, <1>8 DEF F

\* free_desc puts the three descriptors back in front of the free list.
LEMMA FinishKeeps ==
  ASSUME VirtioInv, NEW p \in Callers, Finish(p)
  PROVE  VirtioInv' /\ DeviceChainsKept
<1> USE VirtioConsts
<1> DEFINE f == Follow(desc, free_head)
<1>f. f = Follow(desc, free_head)
  OBVIOUS
<1> HIDE DEF f
<1>0. VirtioTypeOK /\ FreeInv /\ ChainInv /\ RequestInv /\ buf[p].live /\ buf[p].posted /\ nfree \in 0..NQueue
  BY DEF VirtioInv, Finish, VirtioTypeOK
<1>1. /\ f \in [0..NQueue -> Descs] /\ f[0] = free_head
      /\ \A i \in 0..(NQueue - 1) : f[i + 1] = desc[f[i]].next
      /\ \A i, j \in 0..(nfree - 1) : f[i] = f[j] => i = j
      /\ \A i \in 0..(nfree - 2) : desc[f[i]].more
      /\ FreeList = {f[k] : k \in 0..(nfree - 1)}
  BY <1>f, FreeFacts
<1>p. PICK d0 \in Descs, d1 \in Descs, d2 \in Descs :
          d0 = buf[p].d0 /\ d1 = Second(d0) /\ d2 = Third(d0)
  BY <1>0 DEF VirtioTypeOK, Second, Third
<1>2. d0 \in Heads
  BY <1>0, <1>p, HeadFacts
<1>3. /\ d0 # d1 /\ d0 # d2 /\ d1 # d2
      /\ desc[d0].more /\ desc[d1].more /\ ~desc[d2].more
      /\ desc[d0].next = d1 /\ desc[d1].next = d2
      /\ Chain(d0) = {d0, d1, d2} /\ {d0, d1, d2} \cap FreeList = {}
  BY <1>0, <1>2, <1>p DEF ChainInv, Chain, Second, Third
<1>4. ChainLen(d0) = 3 /\ Follow(desc, d0)[3 - 1] = d2
  BY <1>2, <1>p, ChainWalk
<1> DEFINE nx == IF nfree = 0 THEN desc[d2].next ELSE free_head
<1>5. /\ nfree' = nfree + 3 /\ free_head' = d0
      /\ desc' = [desc EXCEPT ![d2].more = TRUE, ![d2].next = nx]
      /\ buf' = [buf EXCEPT ![p] = NoBuf] /\ avail' = avail /\ used' = used /\ info' = info
      /\ dead' = dead /\ abandoned' = abandoned /\ stopped' = stopped
  BY <1>4, <1>p DEF Finish, FreeDesc
<1>6. nx \in Descs
  BY <1>0, <1>p DEF VirtioTypeOK
<1> HIDE DEF nx
<1>7. /\ desc' \in Links
      /\ desc'[d2].more /\ desc'[d2].next = nx
      /\ \A d \in Descs : d # d2 => desc'[d] = desc[d]
  <2>1. desc[d2] \in [next : Descs, more : BOOLEAN, buf : Callers \cup {Nobody}]
    BY <1>0 DEF VirtioTypeOK
  <2> DEFINE c == [next |-> nx, more |-> TRUE, buf |-> desc[d2].buf]
  <2>2. desc'[d2] = c /\ \A d \in Descs : d # d2 => desc'[d] = desc[d]
    BY <2>1, <1>0, <1>5 DEF VirtioTypeOK
  <2>3. c \in [next : Descs, more : BOOLEAN, buf : Callers \cup {Nobody}]
    BY <2>1, <1>6
  <2>4. desc' = [d \in Descs |-> desc'[d]]
    BY <1>0, <1>5 DEF VirtioTypeOK
  <2>5. c.more /\ c.next = nx
    OBVIOUS
  <2> HIDE DEF c
  <2>6. \A d \in Descs : desc'[d] \in [next : Descs, more : BOOLEAN, buf : Callers \cup {Nobody}]
    BY <2>2, <2>3, <1>0 DEF VirtioTypeOK
  <2>. QED BY <2>2, <2>4, <2>5, <2>6 DEF Links
<1>8. ~NoBuf.live /\ ~NoBuf.posted /\ NoBuf \in [live : BOOLEAN, d0 : Descs, posted : BOOLEAN, served : BOOLEAN]
  BY DEF NoBuf, Descs
<1>9. buf'[p] = NoBuf /\ \A q \in Callers : q # p => buf'[q] = buf[q]
  BY <1>0, <1>5 DEF VirtioTypeOK
<1>10. d0 \notin dead /\ \A q \in Callers : buf[q].live /\ buf[q].d0 = d0 => q = p
  BY <1>0, <1>p DEF RequestInv
<1>11. Heads' = Heads \ {d0}
  <2>1. \A d : d \in Heads' <=> d \in dead' \/ \E q \in Callers : buf'[q].live /\ buf'[q].d0 = d
    BY DEF Heads
  <2>2. \A d : d \in Heads <=> d \in dead \/ \E q \in Callers : buf[q].live /\ buf[q].d0 = d
    BY DEF Heads
  <2>3. ASSUME NEW d \in Heads' PROVE d \in Heads \ {d0}
    <3>1. CASE d \in dead
      BY <3>1, <2>2, <1>10
    <3>2. CASE d \notin dead
      <4>1. PICK q \in Callers : buf'[q].live /\ buf'[q].d0 = d
        BY <3>2, <2>1, <1>5
      <4>2. q # p
        BY <4>1, <1>8, <1>9
      <4>3. buf[q].live /\ buf[q].d0 = d
        BY <4>1, <4>2, <1>9
      <4>. QED BY <4>2, <4>3, <2>2, <1>10
    <3>. QED BY <3>1, <3>2
  <2>4. ASSUME NEW d \in Heads, d # d0 PROVE d \in Heads'
    <3>1. CASE d \in dead
      BY <3>1, <2>1, <1>5
    <3>2. CASE \E q \in Callers : buf[q].live /\ buf[q].d0 = d
      <4>1. PICK q \in Callers : buf[q].live /\ buf[q].d0 = d
        BY <3>2
      <4>2. q # p
        BY <4>1, <2>4, <1>p
      <4>. QED BY <4>1, <4>2, <1>9, <2>1
    <3>. QED BY <3>1, <3>2, <2>2
  <2>. QED BY <2>3, <2>4
<1>12. IsFiniteSet(Heads') /\ Cardinality(Heads') = Cardinality(Heads) - 1 /\ Cardinality(Heads) \in Nat \ {0}
  <2>1. IsFiniteSet(Heads) /\ Cardinality(Heads) \in Nat
    BY <1>0, FS_CardinalityType DEF ChainInv
  <2>2. IsFiniteSet(Heads') /\ Cardinality(Heads') = Cardinality(Heads) - 1
    BY <2>1, <1>2, <1>11, FS_RemoveElement
  <2>3. Cardinality(Heads) # 0
    BY <2>1, <1>2, FS_EmptySet
  <2>. QED BY <2>1, <2>2, <2>3
<1>13. nfree' = NQueue - 3 * Cardinality(Heads') /\ nfree' \in 0..NQueue
  BY <1>0, <1>5, <1>12 DEF ChainInv
<1>14. VirtioTypeOK'
  <2>1. buf' \in [Callers -> [live : BOOLEAN, d0 : Descs, posted : BOOLEAN, served : BOOLEAN]]
    BY <1>0, <1>5, <1>8 DEF VirtioTypeOK
  <2>. QED BY <2>1, <1>0, <1>5, <1>7, <1>13 DEF VirtioTypeOK, Links
<1>15. ASSUME NEW d \in Heads, d # d0
       PROVE  /\ d \in Descs /\ Second(d) \in Descs /\ Third(d) \in Descs
              /\ d # d2 /\ Second(d) # d2 /\ Third(d) # d2
              /\ Chain(d) \cap {d0, d1, d2} = {}
              /\ Second(d)' = Second(d) /\ Third(d)' = Third(d) /\ Chain(d)' = Chain(d)
              /\ desc'[d] = desc[d] /\ desc'[Second(d)] = desc[Second(d)] /\ desc'[Third(d)] = desc[Third(d)]
  <2>1. d \in Descs
    BY <1>0, <1>15 DEF Heads, VirtioTypeOK
  <2>2. Second(d) \in Descs /\ Third(d) \in Descs
    BY <1>0, <2>1 DEF VirtioTypeOK, Second, Third
  <2>3. Chain(d) \cap {d0, d1, d2} = {}
    BY <1>0, <1>2, <1>3, <1>15 DEF ChainInv
  <2>4. d # d2 /\ Second(d) # d2 /\ Third(d) # d2
    BY <2>3 DEF Chain, Second, Third
  <2>5. desc'[d] = desc[d] /\ desc'[Second(d)] = desc[Second(d)] /\ desc'[Third(d)] = desc[Third(d)]
    BY <2>1, <2>2, <2>4, <1>7
  <2>6. Second(d)' = Second(d) /\ Third(d)' = Third(d) /\ Chain(d)' = Chain(d)
    BY <2>5 DEF Second, Third, Chain
  <2>. QED BY <2>1, <2>2, <2>3, <2>4, <2>5, <2>6
<1> DEFINE m == nfree + 3
           g == [i \in 0..(m - 1) |-> IF i = 0 THEN d0 ELSE IF i = 1 THEN d1 ELSE IF i = 2 THEN d2 ELSE f[i - 3]]
<1>16. /\ m \in Nat /\ m >= 3 /\ m <= NQueue /\ m - 1 \in 0..NQueue /\ (m - 1) - 1 = m - 2
       /\ g[0] = d0 /\ g[1] = d1 /\ g[2] = d2
       /\ \A i \in 3..(m - 1) : g[i] = f[i - 3] /\ i - 3 \in 0..(nfree - 1) /\ g[i] \in FreeList
  <2>1. m \in Nat /\ m >= 3 /\ m <= NQueue
    BY <1>0, <1>5, <1>13
  <2>2. ASSUME NEW i \in 3..(m - 1) PROVE g[i] = f[i - 3] /\ i - 3 \in 0..(nfree - 1)
    BY <2>1, <1>0
  <2>3. g[0] = d0 /\ g[1] = d1 /\ g[2] = d2
    BY <2>1
  <2> HIDE DEF g
  <2>. QED BY <2>1, <2>2, <2>3, <1>1
<1> HIDE DEF g
<1>17. ASSUME NEW i \in 0..(m - 1) PROVE i = 0 \/ i = 1 \/ i = 2 \/ i \in 3..(m - 1)
  BY <1>16
<1>18. ASSUME NEW i \in 0..(m - 1), NEW j \in 0..(m - 1), g[i] = g[j] PROVE i = j
  <2>1. \A k \in 3..(m - 1) : g[k] # d0 /\ g[k] # d1 /\ g[k] # d2
    BY <1>3, <1>16
  <2>2. ASSUME i \in 3..(m - 1), j \in 3..(m - 1) PROVE i = j
    <3>1. i - 3 = j - 3
      BY <2>2, <1>16, <1>18, <1>1
    <3>. QED BY <3>1, <1>16
  <2>. QED BY <2>1, <2>2, <1>3, <1>16, <1>17, <1>18
<1>19. ASSUME NEW i \in 0..(m - 2) PROVE g[i + 1] = desc'[g[i]].next /\ desc'[g[i]].more
  <2>1. CASE i = 0
    BY <2>1, <1>3, <1>7, <1>16
  <2>2. CASE i = 1
    BY <2>2, <1>3, <1>7, <1>16
  <2>3. CASE i = 2
    <3>1. nfree # 0 /\ i + 1 \in 3..(m - 1) /\ (i + 1) - 3 = 0
      BY <2>3, <1>0, <1>16
    <3>2. g[i + 1] = free_head /\ nx = free_head
      BY <3>1, <1>1, <1>16 DEF nx
    <3>. QED BY <3>2, <2>3, <1>7, <1>16
  <2>4. CASE i \in 3..(m - 2)
    <3>1. i \in 3..(m - 1) /\ i + 1 \in 3..(m - 1) /\ (i + 1) - 3 = (i - 3) + 1 /\ i - 3 \in 0..(nfree - 2) /\ i - 3 \in 0..(NQueue - 1)
      BY <2>4, <1>0, <1>16
    <3>2. g[i] = f[i - 3] /\ g[i] \in FreeList /\ g[i + 1] = f[(i - 3) + 1]
      BY <3>1, <1>16
    <3>3. f[(i - 3) + 1] = desc[f[i - 3]].next /\ desc[f[i - 3]].more /\ f[i - 3] \in Descs
      BY <3>1, <1>1
    <3>4. desc'[f[i - 3]] = desc[f[i - 3]]
      BY <3>2, <3>3, <1>3, <1>7
    <3>. QED BY <3>2, <3>3, <3>4
  <2>5. i \in 0..(m - 1)
    BY <1>16
  <2>. QED BY <2>1, <2>2, <2>3, <2>4, <1>16
<1>20. \A i \in 0..(m - 1) : Follow(desc', free_head')[i] = g[i]
  <2>1. IsPath(desc', free_head', m - 1, g)
    BY <1>5, <1>16, <1>19 DEF IsPath
  <2>2. free_head' \in Descs
    BY <1>5
  <2> HIDE DEF m
  <2>. QED BY <2>1, <2>2, <1>7, <1>16, PathUnique
<1>21. FreeInv'
  <2>1. \A i \in 0..(m - 2) : i \in 0..(m - 1)
    BY <1>16
  <2>2. nfree' = m
    BY <1>5
  <2> HIDE DEF m
  <2>. QED BY <2>1, <2>2, <1>18, <1>19, <1>20 DEF FreeInv
<1>22. FreeList' \subseteq FreeList \cup {d0, d1, d2}
  <2>1. FreeList' = {g[k] : k \in 0..(m - 1)}
    <3>1. nfree' = m
      BY <1>5
    <3> HIDE DEF m
    <3>. QED BY <3>1, <1>20 DEF FreeList
  <2>. QED BY <2>1, <1>16, <1>17
<1>23. ChainInv'
  <2>1. ASSUME NEW d \in Heads'
        PROVE  /\ d # Second(d)' /\ d # Third(d)' /\ Second(d)' # Third(d)'
               /\ desc'[d].more /\ desc'[Second(d)'].more /\ ~desc'[Third(d)'].more
               /\ Chain(d)' \cap FreeList' = {}
    <3>1. d \in Heads /\ d # d0
      BY <1>11
    <3>2. Chain(d) \cap FreeList = {}
      BY <3>1, <1>0 DEF ChainInv
    <3>3. Chain(d)' \cap FreeList' = {}
      BY <3>1, <3>2, <1>15, <1>22
    <3>. QED BY <3>1, <3>3, <1>15, <1>0 DEF ChainInv
  <2>2. ASSUME NEW d \in Heads', NEW e \in Heads', d # e PROVE Chain(d)' \cap Chain(e)' = {}
    BY <2>2, <1>11, <1>15, <1>0 DEF ChainInv
  <2>. QED BY <2>1, <2>2, <1>12, <1>13 DEF ChainInv
<1>24. RequestInv'
  <2>1. d0 \notin avail \cup used
    BY <1>0, <1>p DEF RequestInv
  <2>2. avail' \cup used' \subseteq Heads' /\ avail' \cap used' = {}
    BY <2>1, <1>0, <1>5, <1>11 DEF RequestInv
  <2>3. ASSUME NEW q \in Callers, buf'[q].live
        PROVE  q # p /\ buf'[q] = buf[q] /\ buf[q].live /\ buf[q].d0 # d0 /\ buf[q].d0 \in Heads
    <3>1. q # p /\ buf'[q] = buf[q] /\ buf[q].live
      BY <2>3, <1>8, <1>9
    <3>. QED BY <3>1, <1>10, HeadFacts
  <2>4. ASSUME NEW q \in Callers, buf'[q].live
        PROVE  /\ buf'[q].d0 \notin dead'
               /\ \A r \in Callers : buf'[r].live /\ buf'[r].d0 = buf'[q].d0 => r = q
               /\ desc'[Second(buf[q].d0)'].buf = q
               /\ buf'[q].posted => buf'[q].d0 \notin avail' \cup used'
               /\ ~buf'[q].posted => buf'[q].d0 \in avail' \cup used' /\ info'[buf'[q].d0] = q
               /\ buf'[q].d0 \in used' => buf'[q].served
    <3>1. buf'[q] = buf[q] /\ buf[q].live /\ buf[q].d0 # d0 /\ buf[q].d0 \in Heads
      BY <2>3, <2>4
    <3>2. \A r \in Callers : buf'[r].live /\ buf'[r].d0 = buf'[q].d0 => r = q
      BY <2>3, <3>1, <1>0 DEF RequestInv
    <3>3. desc'[Second(buf[q].d0)'].buf = q
      <4>1. desc[Second(buf[q].d0)].buf = q
        BY <3>1, <1>0 DEF RequestInv
      <4>2. Second(buf[q].d0)' = Second(buf[q].d0)
        BY <3>1, <1>15 DEF Second
      <4>. QED BY <4>1, <4>2, <3>1, <1>15
    <3>4. /\ buf[q].d0 \notin dead
          /\ buf[q].posted => buf[q].d0 \notin avail \cup used
          /\ ~buf[q].posted => buf[q].d0 \in avail \cup used /\ info[buf[q].d0] = q
          /\ buf[q].d0 \in used => buf[q].served
      BY <3>1, <1>0 DEF RequestInv
    <3>. QED BY <3>1, <3>2, <3>3, <3>4, <1>5
  <2>5. ASSUME NEW q \in Callers
        PROVE  (buf'[q].posted => buf'[q].served) /\ (~buf'[q].live => ~buf'[q].posted)
    <3>1. CASE q = p
      BY <3>1, <1>8, <1>9
    <3>2. CASE q # p
      BY <3>2, <1>9, <1>0 DEF RequestInv
    <3>. QED BY <3>1, <3>2
  <2>. QED BY <2>2, <2>4, <2>5 DEF RequestInv
<1>25. DeviceChainsKept
  <2>1. ASSUME NEW d \in Heads, d # d0 PROVE Untouched(d)
    BY <2>1, <1>15 DEF Untouched, Chain, Second, Third
  <2>2. d0 \notin avail \cup used
    BY <1>0, <1>p DEF RequestInv
  <2>. QED BY <2>1, <2>2, <1>0 DEF DeviceChainsKept, RequestInv
<1>. QED BY <1>14, <1>21, <1>23, <1>24, <1>25 DEF VirtioInv

-----------------------------------------------------------------------------
\* The invariant is inductive, and every step leaves the device its chains.
LEMMA VirtioInvNext == VirtioInv /\ [VirtioNext]_virtio_vars => VirtioInv' /\ DeviceChainsKept
<1> SUFFICES ASSUME VirtioInv, [VirtioNext]_virtio_vars PROVE VirtioInv' /\ DeviceChainsKept
  OBVIOUS
<1>0. ASSUME desc' = desc PROVE DeviceChainsKept
  BY <1>0 DEF DeviceChainsKept, Untouched, Chain
<1>1. ASSUME NEW p \in Callers, Submit(p) PROVE VirtioInv' /\ DeviceChainsKept
  BY <1>1, SubmitKeeps
<1>2. ASSUME NEW p \in Callers, SubmitPanic(p) PROVE VirtioInv' /\ DeviceChainsKept
  BY <1>0, <1>2, StopKeeps DEF SubmitPanic, Stop
<1>3. ASSUME NEW p \in Callers, Finish(p) PROVE VirtioInv' /\ DeviceChainsKept
  BY <1>3, FinishKeeps
<1>4. ASSUME NEW p \in Callers, Abandon(p) PROVE VirtioInv' /\ DeviceChainsKept
  BY <1>0, <1>4, AbandonKeeps DEF Abandon
<1>5. ASSUME NEW d \in Descs, DeviceServe(d) PROVE VirtioInv' /\ DeviceChainsKept
  BY <1>0, <1>5, DeviceServeKeeps DEF DeviceServe
<1>6. ASSUME NEW d \in Descs, DeviceServeDead(d) PROVE VirtioInv' /\ DeviceChainsKept
  BY <1>0, <1>6, StopKeeps DEF DeviceServeDead, Stop
<1>7. CASE Interrupt
  BY <1>0, <1>7, InterruptKeeps DEF Interrupt
<1>8. CASE InterruptDead
  BY <1>0, <1>8, StopKeeps DEF InterruptDead, Stop
<1>10. CASE InterruptError
  BY <1>0, <1>10, StopKeeps DEF InterruptError, Stop
<1>9. CASE UNCHANGED virtio_vars
  <2>1. VirtioTypeOK'
    BY <1>9 DEF VirtioInv, VirtioTypeOK, virtio_vars
  <2>2. Heads' = Heads
    BY <1>9 DEF virtio_vars, Heads
  <2>3. FreeInv' /\ ChainInv'
    BY <1>9, <2>2, SameLists DEF virtio_vars
  <2>4. RequestInv'
    BY <1>9, <2>2 DEF VirtioInv, RequestInv, virtio_vars, Second
  <2>. QED BY <1>0, <1>9, <2>1, <2>3, <2>4 DEF VirtioInv, virtio_vars
<1>. QED BY <1>1, <1>2, <1>3, <1>4, <1>5, <1>6, <1>7, <1>8, <1>9, <1>10 DEF VirtioNext

\* The invariant says what DescsOwned does.
LEMMA VirtioInvOwned == VirtioInv => DescsOwned
<1> SUFFICES ASSUME VirtioInv PROVE DescsOwned
  OBVIOUS
<1> USE VirtioConsts
<1> DEFINE f == Follow(desc, free_head)
           I == 0..(nfree - 1)
<1>1. /\ f \in [0..NQueue -> Descs]
      /\ \A i, j \in 0..(nfree - 1) : f[i] = f[j] => i = j
      /\ FreeList = {f[k] : k \in I} /\ nfree \in 0..NQueue
  BY FreeFacts
<1>2. Cardinality(FreeList) = nfree
  <2> DEFINE h == [i \in I |-> f[i]]
  <2> HIDE DEF f
  <2>1. h \in Bijection(I, FreeList)
    BY <1>1 DEF Bijection, Injection, Surjection, IsInjective
  <2>2. ExistsBijection(I, FreeList)
    BY <2>1 DEF ExistsBijection
  <2>3. IsFiniteSet(I) /\ Cardinality(I) = nfree
    <3>1. IsFiniteSet(I) /\ Cardinality(I) = IF 0 > nfree - 1 THEN 0 ELSE (nfree - 1) - 0 + 1
      BY <1>1, FS_Interval
    <3>. QED BY <3>1, <1>1
  <2>. QED BY <2>2, <2>3, FS_Bijection
<1>3. ASSUME NEW d \in Heads PROVE Cardinality(Chain(d)) = 3
  <2>1. Chain(d) = {d, Second(d), Third(d)} /\ d # Second(d) /\ d # Third(d) /\ Second(d) # Third(d)
    BY DEF VirtioInv, ChainInv, Chain, Second, Third
  <2> DEFINE a == {d}
             b == a \cup {Second(d)}
             c == b \cup {Third(d)}
  <2>2. IsFiniteSet(a) /\ Cardinality(a) = 1
    BY FS_Singleton
  <2>3. IsFiniteSet(b) /\ Cardinality(b) = 2
    <3>1. Second(d) \notin a
      BY <2>1
    <3> HIDE DEF a
    <3>. QED BY <3>1, <2>2, FS_AddElement
  <2>4. IsFiniteSet(c) /\ Cardinality(c) = 3
    BY <2>1, <2>3, FS_AddElement
  <2>5. Chain(d) = c
    BY <2>1
  <2>. QED BY <2>4, <2>5
<1>4. /\ \A d \in Heads : Chain(d) \cap FreeList = {}
      /\ \A d, e \in Heads : d # e => Chain(d) \cap Chain(e) = {}
      /\ nfree = NQueue - 3 * Cardinality(Heads)
  BY DEF VirtioInv, ChainInv
<1>5. avail \cup used \subseteq Heads /\ \A p \in Callers : buf[p].posted => buf[p].served
  BY DEF VirtioInv, RequestInv
<1>. QED BY <1>2, <1>3, <1>4, <1>5 DEF DescsOwned

\* The inductive invariant of the driver, for every size of the queue.
THEOREM VirtioInvariant == VirtioSpec => []VirtioInv
BY VirtioInvInit, VirtioInvNext, PTL DEF VirtioSpec

\* The ring, the free list and the requests stay well formed.
THEOREM VirtioTypeCorrect == VirtioSpec => []VirtioTypeOK
<1>1. VirtioInv => VirtioTypeOK
  BY DEF VirtioInv
<1>. QED BY <1>1, VirtioInvariant, PTL

\* Every descriptor is free or in the chain of one request, whoever is killed and in
\* whatever order the device serves, and a caller wakes only when it was served.
THEOREM VirtioDescsOwned == VirtioSpec => []DescsOwned
BY VirtioInvOwned, VirtioInvariant, PTL

\* No step of the driver changes a descriptor of a request the device has.
THEOREM VirtioChainsKept == VirtioSpec => [][DeviceChainsKept]_virtio_vars
BY VirtioInvariant, VirtioInvNext, PTL DEF VirtioSpec
=============================================================================
