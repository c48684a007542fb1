------------------------------- MODULE Inode -------------------------------
(***************************************************************************)
(* The inode layer (src/fs/inode.c) with the block allocator it calls      *)
(* (cache_alloc, cache_free), as operators on the file system's state.     *)
(*                                                                         *)
(* A state s is a record:                                                  *)
(*   ent   the inode entries on disk, as the block cache shows them;       *)
(*   ic    the in-memory inodes: NoInode, or [cached, rc, lock, entry];    *)
(*   bm    the data blocks the bitmap marks as used;                       *)
(*   data  the content of every block, BlockSize units each;               *)
(*   log   the blocks synced by the running atomic operation;              *)
(*   ctx   whether an atomic operation is running (OpContext not NULL);    *)
(*   ret   the value the last operation returned;                          *)
(*   bad   "ok" or the panic, failed assertion or hang the call ran into.  *)
(* An operation is an operator from states to states; a sequence of them   *)
(* is written with Then, which stops at the first that goes wrong.         *)
(*                                                                         *)
(* One unit is one directory entry, one address of an indirect block or    *)
(* one datum of a file: [n, t], where n = 0 is "free", as in the code.     *)
(***************************************************************************)
EXTENDS Integers, Sequences, FiniteSets, FiniteSetsExt, SequencesExt

CONSTANTS
    NumInodes,      \* sblock->num_inodes; inode 0 is never used
    NumBlocks,      \* the data blocks are 1..NumBlocks
    BlockSize,      \* units per block (BLOCK_SIZE)
    NumDirect,      \* INODE_NUM_DIRECT
    InodePerBlock,  \* INODE_PER_BLOCK
    OpMax,          \* OP_MAX_NUM_BLOCKS
    MaxPermits      \* bound: a lock's semaphore is not counted beyond this

ASSUME InodeAssumption ==
    /\ {NumInodes, NumBlocks, BlockSize, NumDirect, InodePerBlock, OpMax} \subseteq Nat \ {0}
    /\ MaxPermits \in Nat \ {0, 1}

RootNo == 1
Inos == 1..(NumInodes - 1)
Blocks == 1..NumBlocks
NumIndirect == BlockSize
MaxBytes == (NumDirect + NumIndirect) * BlockSize

Zero == [n |-> 0, t |-> "none"]
ZeroBlock == [u \in 0..(BlockSize - 1) |-> Zero]
FreeEntry == [type |-> "invalid", links |-> 0, bytes |-> 0,
              addrs |-> [k \in 0..(NumDirect - 1) |-> 0], indirect |-> 0]
NoInode == [cached |-> FALSE, rc |-> 0, lock |-> 0, entry |-> FreeEntry]

Fail(s, why) == [s EXCEPT !.bad = why]
Then(s, F(_)) == IF s.bad = "ok" THEN F(s) ELSE s
Return(s, v) == [s EXCEPT !.ret = v]

-----------------------------------------------------------------------------
(* The part of the block cache the inode layer uses. *)

\* cache_sync: a new block of an operation takes one of its OpMax places.
Sync(s, b) ==
    IF ~s.ctx \/ b \in s.log THEN s
    ELSE IF Cardinality(s.log) >= OpMax THEN Fail(s, "log")
    ELSE [s EXCEPT !.log = @ \cup {b}]

DataBlk(b) == <<"data", b>>
InodeBlk(i) == <<"inode", i \div InodePerBlock>>
BitmapBlk == <<"bitmap", 0>>

\* The block b is marked in the bitmap and gets the content c.
TakeBlock(s, b, c) ==
    Then(Sync([s EXCEPT !.bm = @ \cup {b}], BitmapBlk), LAMBDA t :
    Sync([t EXCEPT !.data[b] = c, !.ret = b], DataBlk(b)))

\* Mutant of CacheAlloc: the block keeps its old content.
CacheAllocDirty(s) ==
    IF Blocks \subseteq s.bm THEN Fail(s, "disk_full")
    ELSE TakeBlock(s, Min(Blocks \ s.bm), s.data[Min(Blocks \ s.bm)])

\* cache_alloc: the first free block, zeroed.
CacheAlloc(s) ==
    IF Blocks \subseteq s.bm THEN Fail(s, "disk_full")
    ELSE TakeBlock(s, Min(Blocks \ s.bm), ZeroBlock)

\* cache_free of every block of B (the bitmap is one block).
CacheFree(s, B) == IF B = {} THEN s ELSE Sync([s EXCEPT !.bm = @ \ B], BitmapBlk)

-----------------------------------------------------------------------------
(* Locks and reference counts. *)

\* inode_lock: the assertion on rc, then the sleep lock; a call that waits for
\* a lock nobody will release is stuck.
Lock(s, i) ==
    IF ~s.ic[i].cached THEN Fail(s, "freed_inode")
    ELSE IF s.ic[i].rc <= 0 THEN Fail(s, "assert_rc")
    ELSE IF s.ic[i].lock = 0 THEN Fail(s, "stuck")
    ELSE [s EXCEPT !.ic[i].lock = @ - 1]

\* inode_unlock posts the semaphore, whether or not the caller holds the lock.
Unlock(s, i) ==
    IF ~s.ic[i].cached THEN Fail(s, "freed_inode")
    ELSE IF s.ic[i].rc <= 0 THEN Fail(s, "assert_rc")
    ELSE [s EXCEPT !.ic[i].lock = IF @ < MaxPermits THEN @ + 1 ELSE @]

\* inode_sync with do_write: the in-memory entry goes to its block.
InodeSync(s, i) == Sync([s EXCEPT !.ent[i] = s.ic[i].entry], InodeBlk(i))

\* inode_get: an inode that is not in the list is read from disk.
InodeGet(s, i) ==
    IF i = 0 THEN s
    ELSE IF s.ic[i].cached THEN [s EXCEPT !.ic[i].rc = @ + 1]
    ELSE [s EXCEPT !.ic[i] = [cached |-> TRUE, rc |-> 1, lock |-> 1, entry |-> s.ent[i]]]

InodeShare(s, i) ==
    IF s.ic[i].cached THEN [s EXCEPT !.ic[i].rc = @ + 1] ELSE Fail(s, "freed_inode")

\* The blocks an entry refers to: direct, the indirect block and its addresses.
OwnBlocks(data, e) ==
    (({e.addrs[k] : k \in 0..(NumDirect - 1)} \cup {e.indirect})
      \cup IF e.indirect = 0 THEN {} ELSE {data[e.indirect][k].n : k \in 0..(NumIndirect - 1)})
    \ {0}

\* Mutant of InodeClear: the indirect block itself is not freed.
InodeClearLeak(s, i) ==
    Then(CacheFree(s, OwnBlocks(s.data, s.ic[i].entry) \ {s.ic[i].entry.indirect}), LAMBDA t :
    InodeSync([t EXCEPT !.ic[i].entry.indirect = 0, !.ic[i].entry.bytes = 0,
                        !.ic[i].entry.addrs = FreeEntry.addrs], i))

\* inode_clear: every block goes back to the bitmap and the entry is emptied.
InodeClear(s, i) ==
    Then(CacheFree(s, OwnBlocks(s.data, s.ic[i].entry)), LAMBDA t :
    InodeSync([t EXCEPT !.ic[i].entry.indirect = 0, !.ic[i].entry.bytes = 0,
                        !.ic[i].entry.addrs = FreeEntry.addrs], i))

\* inode_put: the last reference to an inode without links frees it; an inode
\* with links stays in the list, with rc 0.
InodePut(s, i) ==
    IF ~s.ic[i].cached THEN Fail(s, "freed_inode")
    ELSE IF s.ic[i].lock = 0 THEN Fail(s, "stuck")
    ELSE IF s.ic[i].rc = 1 /\ s.ic[i].entry.links = 0
         THEN Then(InodeClear([s EXCEPT !.ic[i].rc = 0, !.ic[i].entry.type = "invalid"], i), LAMBDA t :
              [t EXCEPT !.ic[i] = NoInode])
         ELSE [s EXCEPT !.ic[i].rc = @ - 1]

UnlockPut(s, i) == Then(Unlock(s, i), LAMBDA t : InodePut(t, i))

\* inode_alloc: the first entry that is free on disk.
FreeInodes(s) == {i \in Inos : s.ent[i].type = "invalid"}
InodeAlloc(s, type) ==
    IF FreeInodes(s) = {} THEN Fail(s, "no_inode")
    ELSE Sync([s EXCEPT !.ent[Min(FreeInodes(s))] = [FreeEntry EXCEPT !.type = type],
                        !.ret = Min(FreeInodes(s))], InodeBlk(Min(FreeInodes(s))))

-----------------------------------------------------------------------------
(* Content. *)

\* inode_map with ctx = NULL: the block of the k-th block of entry e, or 0.
BlockOf(data, e, k) ==
    IF k < NumDirect THEN e.addrs[k]
    ELSE IF e.indirect = 0 THEN 0
    ELSE data[e.indirect][k - NumDirect].n

\* inode_map with a context: what is missing of the direct block, or of the
\* indirect block and then the block, is allocated and synced at once.
MapDirect(s, i, k) ==
    Then(CacheAlloc(s), LAMBDA t : InodeSync([t EXCEPT !.ic[i].entry.addrs[k] = t.ret], i))
MapIndirect(s, i) ==
    Then(CacheAlloc(s), LAMBDA t : InodeSync([t EXCEPT !.ic[i].entry.indirect = t.ret], i))
MapAddr(s, ind, k) ==
    Then(CacheAlloc(s), LAMBDA t :
    Sync([t EXCEPT !.data[ind][k - NumDirect] = [n |-> t.ret, t |-> "none"]], DataBlk(ind)))
InodeMap(s, i, k) ==
    Then(IF k >= NumDirect /\ s.ic[i].entry.indirect = 0 THEN MapIndirect(s, i) ELSE s, LAMBDA t :
    IF BlockOf(t.data, t.ic[i].entry, k) # 0
    THEN Return(t, BlockOf(t.data, t.ic[i].entry, k))
    ELSE IF k < NumDirect THEN MapDirect(t, i, k)
    ELSE MapAddr(t, t.ic[i].entry.indirect, k))

\* inode_read: the units from offset off, cut at the end of the file.
UnitAt(data, e, o) == data[BlockOf(data, e, o \div BlockSize)][o % BlockSize]
InodeRead(s, i, off, count) ==
    IF off > s.ic[i].entry.bytes THEN Fail(s, "assert_offset")
    ELSE Return(s, [k \in 1..Min({count, s.ic[i].entry.bytes - off}) |->
                      UnitAt(s.data, s.ic[i].entry, off + k - 1)])

\* One block of an inode_write: map, copy the part of src that falls into block
\* k, sync.
Overlay(old, off, src, k) ==
    [u \in 0..(BlockSize - 1) |->
        IF k * BlockSize + u \in off..(off + Len(src) - 1)
        THEN src[k * BlockSize + u - off + 1] ELSE old[u]]
WriteBlock(s, i, off, src, k) ==
    Then(InodeMap(s, i, k), LAMBDA t :
    Sync([t EXCEPT !.data[t.ret] = Overlay(@, off, src, k)], DataBlk(t.ret)))

\* inode_write: the size first, then block by block; w[k] is the state after the
\* blocks below k.
Sized(s, i, end) ==
    IF s.ic[i].entry.bytes < end THEN InodeSync([s EXCEPT !.ic[i].entry.bytes = end], i) ELSE s
WriteStep(s, i, off, src, k) ==
    IF k \in (off \div BlockSize)..((off + Len(src) - 1) \div BlockSize)
    THEN Then(s, LAMBDA t : WriteBlock(t, i, off, src, k)) ELSE s
WriteLoop(s, i, off, src) ==
    LET w[k \in 0..(NumDirect + NumIndirect)] ==
          IF k = 0 THEN Sized(s, i, off + Len(src)) ELSE WriteStep(w[k - 1], i, off, src, k - 1)
    IN  w
InodeWrite(s, i, off, src) ==
    IF off > s.ic[i].entry.bytes THEN Fail(s, "past_end")
    ELSE IF off + Len(src) > MaxBytes THEN Fail(s, "too_big")
    ELSE WriteLoop(s, i, off, src)[NumDirect + NumIndirect]

-----------------------------------------------------------------------------
(* Directories. *)

\* The entries of a directory, and the offsets of the ones called name.
DirEntry(s, i, o) == UnitAt(s.data, s.ic[i].entry, o)
Matches(s, i, name) ==
    {o \in 0..(s.ic[i].entry.bytes - 1) : DirEntry(s, i, o).n # 0 /\ DirEntry(s, i, o).t = name}

\* inode_lookup: the inode number of a name, or 0.
Lookup(s, i, name) ==
    IF Matches(s, i, name) = {} THEN 0 ELSE DirEntry(s, i, Min(Matches(s, i, name))).n

\* Mutant of Insert: the entry goes into the last slot, not after it.
InsertOver(s, i, name, no) ==
    IF Matches(s, i, name) # {} THEN s
    ELSE InodeWrite(s, i, Max({0, s.ic[i].entry.bytes - 1}), <<[n |-> no, t |-> name]>>)

\* inode_insert: a new entry always goes to the end; a removed one leaves a hole.
Insert(s, i, name, no) ==
    IF Matches(s, i, name) # {} THEN s
    ELSE InodeWrite(s, i, s.ic[i].entry.bytes, <<[n |-> no, t |-> name]>>)

-----------------------------------------------------------------------------
(* Paths: [abs |-> starts with '/', elems |-> the elements skipelem yields]. *)

\* The last step of a walk: the result is r and the walk is over.
Stop(s, r) == [s EXCEPT !.ret = [cur |-> r, done |-> TRUE]]

\* One element of the walk of namex at the locked inode c.
NamexNext(s, c, next) ==
    IF next = 0 THEN Stop(UnlockPut(s, c), 0)
    ELSE Return(UnlockPut(InodeGet(s, next), c), [cur |-> next, done |-> FALSE])
NamexStep(s, c, name, last) ==
    Then(Lock(s, c), LAMBDA t :
    IF t.ic[c].entry.type # "dir" THEN Stop(UnlockPut(t, c), 0)
    ELSE IF last THEN Stop(Unlock(t, c), c)
    ELSE NamexNext(t, c, Lookup(t, c, name)))

\* The end of the path: a walk that looked for a parent and went on gives it up.
NamexEnd(s, parent) ==
    IF parent /\ ~s.ret.done THEN Return(InodePut(s, s.ret.cur), 0) ELSE Return(s, s.ret.cur)

\* The walk starts at the root or at the directory of the process, and w[k] is the
\* state after k elements.
NamexStart(s, cwd, path) ==
    Return(IF path.abs THEN InodeGet(s, RootNo) ELSE InodeShare(s, cwd),
           [cur |-> IF path.abs THEN RootNo ELSE cwd, done |-> FALSE])
NamexWalk(s, name, last) ==
    Then(s, LAMBDA t : IF t.ret.done THEN t ELSE NamexStep(t, t.ret.cur, name, last))
NamexLoop(s, cwd, path, parent) ==
    LET w[k \in 0..Len(path.elems)] ==
          IF k = 0 THEN NamexStart(s, cwd, path)
          ELSE NamexWalk(w[k - 1], path.elems[k], parent /\ k = Len(path.elems))
    IN  w

\* namex: the inode of a path (or of its parent), referenced and unlocked, or 0.
Namex(s, cwd, path, parent) ==
    Then(NamexLoop(s, cwd, path, parent)[Len(path.elems)], LAMBDA t : NamexEnd(t, parent))
=============================================================================
