----------------------------- MODULE BlockCache -----------------------------
(***************************************************************************)
(* The block cache of src/src/fs/cache.c: acquire, release, sync and the   *)
(* checkpoint of a pinned block by concurrent processes.  A step is what   *)
(* happens under the cache's spinlock, or between two of its acquisitions; *)
(* a process holds one block at a time.  A disk transfer is one step here: *)
(* Virtio models the driver that makes it.                                 *)
(*                                                                         *)
(* A Block struct is <<block number, copy>>: more than one of a number     *)
(* exists only while overlapping misses, or references to freed ones, keep *)
(* it, so that one copy per process is enough.  What happens after a freed *)
(* Block is used, or a NULL one is dereferenced, is not followed (wild).   *)
(***************************************************************************)
EXTENDS Integers, Sequences, FiniteSetsExt, ListOps

CONSTANTS
    Procs,
    Blocks,
    None,
    Threshold,  \* EVICTION_THRESHOLD
    MaxKills    \* bound: kills of waiting processes

Objs == Blocks \X (1..Cardinality(Procs))
No(o) == o[1]

ASSUME CacheAssumption ==
    /\ {Threshold, MaxKills} \subseteq Nat
    /\ IsFiniteSet(Procs) /\ None \notin Procs /\ None \notin Objs

VARIABLES
    blk,     \* the Block structs
    list,    \* the cache's list, most recently used first
    count,   \* cached_block_count
    pc,      \* what every process does next
    cur,     \* the Block it acquires or holds, or None
    disk,    \* whether the block on disk is the one last written
    wild,    \* what left the model, or "none"
    kills,   \* the kills so far
    spoiled  \* history: blocks that had two copies, were freed while in use, or had a
             \* transfer cut short by a kill

vars == <<blk, list, count, pc, cur, disk, wild, kills, spoiled>>

\* val: the data is what was last written.  shared: history, a process found the
\* Block while another had acquired it.
Block == [allocated : BOOLEAN, acquired : BOOLEAN, pinned : BOOLEAN,
          holder : Procs \cup {None}, waiters : Seq(Procs), val : BOOLEAN, shared : BOOLEAN]
NoBlock == [allocated |-> FALSE, acquired |-> FALSE, pinned |-> FALSE, holder |-> None,
            waiters |-> <<>>, val |-> FALSE, shared |-> FALSE]
Allocated(o) == blk[o].allocated
Claims(o) == {q \in Procs : cur[q] = o}

Init ==
    /\ blk = [o \in Objs |-> NoBlock]
    /\ list = <<>>
    /\ count = 0
    /\ pc = [p \in Procs |-> "idle"]
    /\ cur = [p \in Procs |-> None]
    /\ disk = [b \in Blocks |-> TRUE]
    /\ wild = "none"
    /\ kills = 0
    /\ spoiled = {}

At(p, where) == wild = "none" /\ pc[p] = where
Goto(p, where) == pc' = [pc EXCEPT ![p] = where]

\* A process goes on with a Block that has been freed.
UseFreed ==
    /\ wild' = "freed"
    /\ UNCHANGED <<blk, list, count, pc, cur, disk, kills, spoiled>>

insert_to_head(l, o) == _insert_into_list(l, o)

-----------------------------------------------------------------------------
(* cache_acquire. *)

Cached(b) == {k \in 1..Len(list) : No(list[k]) = b}

\* The block is in the list: claimed, then its sleep lock is taken outside the
\* spinlock.
AcquireHit(p, b) ==
    /\ At(p, "idle") /\ cur[p] = None /\ Cached(b) # {}
    /\ LET o == list[Min(Cached(b))]
       IN  /\ blk' = [blk EXCEPT ![o].acquired = TRUE,
                                 ![o].shared = @ \/ blk[o].acquired]
           /\ cur' = [cur EXCEPT ![p] = o]
    /\ Goto(p, "lock")
    /\ UNCHANGED <<list, count, disk, wild, kills, spoiled>>

\* Mutants of Evictable: claimed blocks are evicted; pinned blocks are.
EvictableClaimed == {k \in 1..Len(list) : ~blk[list[k]].pinned}
EvictablePinned == {k \in 1..Len(list) : ~blk[list[k]].acquired}

Evictable == {k \in 1..Len(list) : ~blk[list[k]].acquired /\ ~blk[list[k]].pinned}

\* The least recently used evictable block makes room, if there is one.
Evicts == count >= Threshold /\ Evictable # {}
Victim == list[Max(Evictable)]
Victims == IF Evicts THEN {Victim} ELSE {}

\* A freed Block; the history stays while a process still refers to it.
Freed(o) == [NoBlock EXCEPT !.shared = blk[o].shared /\ Claims(o) # {}]

\* The struct kalloc returns for block b.
Unused(b) == {i \in 1..Cardinality(Procs) : ~Allocated(<<b, i>>) /\ Claims(<<b, i>>) = {}}

\* The block is not in the list: a Block is evicted and freed, a new one is
\* allocated, claimed and locked, and its contents are read outside the lock.
AcquireMiss(p, b) ==
    /\ At(p, "idle") /\ cur[p] = None /\ Cached(b) = {}
    /\ LET new == <<b, Min(Unused(b))>>
       IN  /\ blk' = [o \in Objs |->
                         IF o = new THEN [NoBlock EXCEPT !.allocated = TRUE,
                                                         !.acquired = TRUE, !.holder = p]
                         ELSE IF o \in Victims THEN Freed(o) ELSE blk[o]]
           /\ cur' = [cur EXCEPT ![p] = new]
    /\ list' = IF Evicts THEN _detach_from_list(list, Victim) ELSE list
    /\ count' = IF Evicts THEN count ELSE count + 1
    /\ spoiled' = spoiled \cup {No(o) : o \in {x \in Objs :
                         \/ No(x) = b /\ Allocated(x)
                         \/ x \in Victims /\ Claims(x) # {}}}
    /\ Goto(p, "read")
    /\ UNCHANGED <<disk, wild, kills>>

\* acquire_sleeplock on a Block that was found.
AcquireLock(p) ==
    /\ At(p, "lock")
    /\ LET o == cur[p]
       IN  IF ~Allocated(o) THEN UseFreed
           ELSE /\ IF blk[o].holder = None
                   THEN blk' = [blk EXCEPT ![o].holder = p] /\ Goto(p, "move")
                   ELSE blk' = [blk EXCEPT ![o].waiters = Append(@, p)] /\ Goto(p, "wait")
                /\ UNCHANGED <<list, count, cur, disk, wild, kills, spoiled>>

\* The waiter is killed: acquire returns NULL, which its callers dereference.
AcquireKilled(p) ==
    /\ At(p, "wait") /\ kills < MaxKills
    /\ kills' = kills + 1
    /\ wild' = "NULL"
    /\ UNCHANGED <<blk, list, count, pc, cur, disk, spoiled>>

\* Back under the spinlock the Block becomes the most recently used.
AcquireMove(p) ==
    /\ At(p, "move")
    /\ IF ~Allocated(cur[p]) THEN UseFreed
       ELSE /\ list' = insert_to_head(_detach_from_list(list, cur[p]), cur[p])
            /\ Goto(p, "idle")
            /\ UNCHANGED <<blk, count, cur, disk, wild, kills, spoiled>>

-----------------------------------------------------------------------------
(* The transfers of acquire (read), sync without a context (sync) and the   *)
(* checkpoint of end_op (unpin).                                            *)

Transfer(p) == \E w \in {"read", "sync", "unpin"} : At(p, w)

\* The data of a freed Block is copied to the request, or the answer to it.
TransferFreed(p) ==
    /\ Transfer(p) /\ ~Allocated(cur[p])
    /\ UseFreed

\* The transfer ended, with value val in the Block and onDisk in its place on disk.
Transferred(p, val, onDisk) ==
    /\ blk' = [blk EXCEPT ![cur[p]].val = val,
                          ![cur[p]].pinned = @ /\ pc[p] # "unpin"]
    /\ list' = IF pc[p] = "read" THEN insert_to_head(list, cur[p]) ELSE list
    /\ disk' = [disk EXCEPT ![No(cur[p])] = onDisk]
    /\ Goto(p, "idle")
    /\ UNCHANGED <<count, cur, wild>>

TransferDone(p) ==
    /\ Transfer(p) /\ Allocated(cur[p])
    /\ LET v == IF pc[p] = "read" THEN disk[No(cur[p])] ELSE blk[cur[p]].val
       IN  Transferred(p, v, v)
    /\ UNCHANGED <<kills, spoiled>>

\* virtio_blk_rw gives up when its process is killed, and sd_read and sd_write
\* ignore it: a read leaves what was on the stack, a write may be made or not.
TransferKilled(p) ==
    /\ Transfer(p) /\ Allocated(cur[p]) /\ kills < MaxKills
    /\ LET o == cur[p]
       IN  /\ \E v \in BOOLEAN :
                 IF pc[p] = "read" THEN Transferred(p, v, disk[No(o)])
                 ELSE Transferred(p, blk[o].val, IF v THEN blk[o].val ELSE disk[No(o)])
           /\ spoiled' = spoiled \cup {No(o)}
    /\ kills' = kills + 1

-----------------------------------------------------------------------------
(* The holder of a Block. *)

Holds(p) == At(p, "idle") /\ cur[p] # None

\* The holder changes the block and calls sync: with a context the Block is
\* pinned, without one it is written to disk at once.  The value written is the
\* last one now, and every other copy of the block, in the cache or on disk, is not.
Sync(p, ctx) ==
    /\ Holds(p)
    /\ IF ~Allocated(cur[p]) THEN UseFreed
       ELSE /\ blk' = [o \in Objs |->
                          [blk[o] EXCEPT !.val = o = cur[p] \/ (@ /\ No(o) # No(cur[p])),
                                         !.pinned = @ \/ (ctx /\ o = cur[p])]]
            /\ disk' = [disk EXCEPT ![No(cur[p])] = FALSE]
            /\ IF ctx THEN UNCHANGED pc ELSE Goto(p, "sync")
            /\ UNCHANGED <<list, count, cur, wild, kills, spoiled>>

\* end_op writes a pinned block to its place and unpins it.
Checkpoint(p) ==
    /\ Holds(p) /\ Allocated(cur[p]) /\ blk[cur[p]].pinned
    /\ Goto(p, "unpin")
    /\ UNCHANGED <<blk, list, count, cur, disk, wild, kills, spoiled>>

\* cache_release: the claim is dropped, waiters or not, and the sleep lock is
\* posted.
Release(p) ==
    /\ Holds(p)
    /\ IF ~Allocated(cur[p]) THEN UseFreed
       ELSE LET o == cur[p]
                w == blk[o].waiters
            IN  /\ blk' = [blk EXCEPT ![o].acquired = FALSE,
                                      ![o].holder = IF w = <<>> THEN None ELSE Head(w),
                                      ![o].waiters = IF w = <<>> THEN w ELSE Tail(w)]
                /\ pc' = [q \in Procs |-> IF w # <<>> /\ q = Head(w) THEN "move" ELSE pc[q]]
                /\ cur' = [cur EXCEPT ![p] = None]
                /\ UNCHANGED <<list, count, disk, wild, kills, spoiled>>

-----------------------------------------------------------------------------
Step(p) ==
    \/ \E b \in Blocks : AcquireHit(p, b) \/ AcquireMiss(p, b)
    \/ AcquireLock(p) \/ AcquireKilled(p) \/ AcquireMove(p)
    \/ TransferFreed(p) \/ TransferDone(p) \/ TransferKilled(p)
    \/ \E ctx \in BOOLEAN : Sync(p, ctx)
    \/ Checkpoint(p) \/ Release(p)

Next == \E p \in Procs : Step(p)

Spec == Init /\ [][Next]_vars

-----------------------------------------------------------------------------
(* Properties. *)

\* Type correctness: among others, every miss finds a struct that nobody refers to.
TypeOK ==
    /\ blk \in [Objs -> Block]
    /\ list \in Seq(Objs) /\ count \in Nat
    /\ pc \in [Procs -> {"idle", "lock", "wait", "move", "read", "sync", "unpin"}]
    /\ cur \in [Procs -> Objs \cup {None}]
    /\ disk \in [Blocks -> BOOLEAN]
    /\ wild \in {"none", "freed", "NULL"}
    /\ kills \in 0..MaxKills /\ spoiled \subseteq Blocks

\* A holder sees what the last holder wrote, through evictions, rereads, pins and
\* checkpoints, unless two overlapping misses made two copies of the block, it was
\* freed under a process that used it, or a kill cut one of its transfers short.
LatestSeen ==
    \A p \in Procs :
        (Holds(p) /\ Allocated(cur[p]) /\ blk[cur[p]].holder = p /\ No(cur[p]) \notin spoiled)
            => blk[cur[p]].val

\* A Block is freed under a process that acquires or holds it only if two
\* processes had claimed it at once, since release drops every claim with its own:
\* a block that only one process wants is never evicted from under it.
FreedOnlyShared ==
    \A p \in Procs : (cur[p] # None /\ ~Allocated(cur[p])) => blk[cur[p]].shared
=============================================================================
