--------------------------- MODULE FileSysProofs ---------------------------
(***************************************************************************)
(* Proofs about FileSys and the inodes below it, for any sizes of the disk *)
(* and of the tables, any paths and any buffers: the reference counts,     *)
(* that memory and disk agree about every inode, and that no call returns  *)
(* with an inode lock taken.                                               *)
(*                                                                         *)
(* A call of inode.c or sysfile.c is a function from a state of the file   *)
(* system to the next one, so that a lemma about it says how the counts    *)
(* move between the two: Keeps, Moves, Shifts.  The loops are recursive    *)
(* functions, and their lemmas go from one turn to the next.               *)
(***************************************************************************)
EXTENDS FileSys, ListProofs, FiniteSetTheorems, TLAPS

-----------------------------------------------------------------------------
(* What the lemmas say of a state, and of two. *)

\* The fields of a file system state, and of an in-memory inode.
IsState(s) ==
    s = [ent |-> s.ent, ic |-> s.ic, bm |-> s.bm, data |-> s.data, log |-> s.log,
         ctx |-> s.ctx, ret |-> s.ret, bad |-> s.bad]
IsCell(x) == x = [cached |-> x.cached, rc |-> x.rc, lock |-> x.lock, entry |-> x.entry]

\* An in-memory inode has a count; one that is not in the list has none.
CellOK(x) == IsCell(x) /\ x.rc \in Int /\ (~x.cached => x.rc = 0)

\* Every inode of the disk has a cell.
IcOK(c) ==
    /\ c = [i \in Inos |-> c[i]]
    /\ \A i \in Inos : CellOK(c[i])

\* The states the lemmas are about.
Shape(s) == IsState(s) /\ IcOK(s.ic)

\* From s to t the count of inode i moves by d, and no other, if t is no failure.
Moves(s, t, i, d) ==
    /\ Shape(t)
    /\ t.bad = "ok" => /\ s.bad = "ok"
                       /\ \A j \in Inos : t.ic[j].rc = s.ic[j].rc + (IF j = i THEN d ELSE 0)

\* From s to t no count moves, if t is no failure.
Keeps(s, t) ==
    /\ Shape(t)
    /\ t.bad = "ok" => s.bad = "ok" /\ \A j \in Inos : t.ic[j].rc = s.ic[j].rc

\* No count moves and the result of the last helper is kept.
KeepsRet(s, t) == Keeps(s, t) /\ t.ret = s.ret

\* Changes of a cell, of the in-memory inodes, of a state.
LEMMA CellSet ==
  ASSUME NEW r, IsCell(r), NEW x
  PROVE  /\ LET t == [r EXCEPT !.lock = x]
            IN  IsCell(t) /\ t.rc = r.rc /\ t.cached = r.cached
         /\ LET t == [r EXCEPT !.rc = x]
            IN  IsCell(t) /\ t.rc = x /\ t.cached = r.cached
         /\ LET t == [r EXCEPT !.entry = x]
            IN  IsCell(t) /\ t.rc = r.rc /\ t.cached = r.cached
BY DEF IsCell

\* A lock or an entry is changed: no count is.
LEMMA SetLock ==
  ASSUME NEW s, Shape(s), NEW i, NEW x
  PROVE  LET t == [s EXCEPT !.ic[i].lock = x]
         IN  Keeps(s, t) /\ t.ret = s.ret /\ t.bad = s.bad
<1> DEFINE y == [s.ic[i] EXCEPT !.lock = x]
           c == [s.ic EXCEPT ![i] = y]
           t == [s EXCEPT !.ic = c]
<1>0. IsState(s) /\ IcOK(s.ic)
  BY DEF Shape
<1>1. ASSUME i \in Inos PROVE CellOK(y) /\ y.rc = s.ic[i].rc
  <2>1. IsCell(s.ic[i]) /\ s.ic[i].rc \in Int /\ (~s.ic[i].cached => s.ic[i].rc = 0)
    BY <1>0, <1>1 DEF IcOK, CellOK
  <2>2. IsCell(y) /\ y.rc = s.ic[i].rc /\ y.cached = s.ic[i].cached
    BY <2>1, CellSet
  <2>. QED BY <2>1, <2>2 DEF CellOK
<1> HIDE DEF y
<1>c. c = [j \in Inos |-> IF j = i THEN y ELSE s.ic[j]]
  BY <1>0 DEF IcOK
<1> HIDE DEF c
<1>2. IcOK(c) /\ \A j \in Inos : c[j] = IF j = i THEN y ELSE s.ic[j]
  <2>1. c = [j \in Inos |-> c[j]] /\ \A j \in Inos : c[j] = IF j = i THEN y ELSE s.ic[j]
    BY <1>c
  <2>2. ASSUME NEW j \in Inos PROVE CellOK(c[j])
    BY <2>1, <1>0, <1>1 DEF IcOK
  <2>. QED BY <2>1, <2>2 DEF IcOK
<1>3. IsState(t) /\ t.ic = c /\ t.bad = s.bad /\ t.ret = s.ret
  BY <1>0 DEF IsState
<1> HIDE DEF t
<1>4. \A j \in Inos : t.ic[j].rc = s.ic[j].rc
  BY <1>1, <1>2, <1>3
<1>5. Keeps(s, t)
  BY <1>2, <1>3, <1>4 DEF Keeps, Shape
<1>. QED BY <1>3, <1>5 DEF t, c, y

\* The entry of an in-memory inode is changed.
LEMMA SetEntry ==
  ASSUME NEW s, Shape(s), NEW i, NEW x
  PROVE  LET t == [s EXCEPT !.ic[i].entry = x]
         IN  Keeps(s, t) /\ t.ret = s.ret /\ t.bad = s.bad
<1> DEFINE y == [s.ic[i] EXCEPT !.entry = x]
           c == [s.ic EXCEPT ![i] = y]
           t == [s EXCEPT !.ic = c]
<1>0. IsState(s) /\ IcOK(s.ic)
  BY DEF Shape
<1>1. ASSUME i \in Inos PROVE CellOK(y) /\ y.rc = s.ic[i].rc
  <2>1. IsCell(s.ic[i]) /\ s.ic[i].rc \in Int /\ (~s.ic[i].cached => s.ic[i].rc = 0)
    BY <1>0, <1>1 DEF IcOK, CellOK
  <2>2. IsCell(y) /\ y.rc = s.ic[i].rc /\ y.cached = s.ic[i].cached
    BY <2>1, CellSet
  <2>. QED BY <2>1, <2>2 DEF CellOK
<1> HIDE DEF y
<1>c. c = [j \in Inos |-> IF j = i THEN y ELSE s.ic[j]]
  BY <1>0 DEF IcOK
<1> HIDE DEF c
<1>2. IcOK(c) /\ \A j \in Inos : c[j] = IF j = i THEN y ELSE s.ic[j]
  <2>1. c = [j \in Inos |-> c[j]] /\ \A j \in Inos : c[j] = IF j = i THEN y ELSE s.ic[j]
    BY <1>c
  <2>2. ASSUME NEW j \in Inos PROVE CellOK(c[j])
    BY <2>1, <1>0, <1>1 DEF IcOK
  <2>. QED BY <2>1, <2>2 DEF IcOK
<1>3. IsState(t) /\ t.ic = c /\ t.bad = s.bad /\ t.ret = s.ret
  BY <1>0 DEF IsState
<1> HIDE DEF t
<1>4. \A j \in Inos : t.ic[j].rc = s.ic[j].rc
  BY <1>1, <1>2, <1>3
<1>5. Keeps(s, t)
  BY <1>2, <1>3, <1>4 DEF Keeps, Shape
<1>. QED BY <1>3, <1>5 DEF t, c, y

\* The count of an inode in the list moves by d.
LEMMA SetRc ==
  ASSUME NEW s, Shape(s), NEW i, NEW d \in Int, i \in Inos => s.ic[i].cached
  PROVE  LET t == [s EXCEPT !.ic[i].rc = s.ic[i].rc + d]
         IN  Moves(s, t, i, d) /\ t.ret = s.ret /\ t.bad = s.bad
<1> DEFINE y == [s.ic[i] EXCEPT !.rc = s.ic[i].rc + d]
           c == [s.ic EXCEPT ![i] = y]
           t == [s EXCEPT !.ic = c]
<1>0. IsState(s) /\ IcOK(s.ic)
  BY DEF Shape
<1>1. ASSUME i \in Inos PROVE CellOK(y) /\ y.rc = s.ic[i].rc + d
  <2>1. IsCell(s.ic[i]) /\ s.ic[i].rc \in Int /\ s.ic[i].cached
    BY <1>0, <1>1 DEF IcOK, CellOK
  <2>2. IsCell(y) /\ y.rc = s.ic[i].rc + d /\ y.cached = s.ic[i].cached
    BY <2>1, CellSet
  <2>. QED BY <2>1, <2>2 DEF CellOK
<1> HIDE DEF y
<1>c. c = [j \in Inos |-> IF j = i THEN y ELSE s.ic[j]]
  BY <1>0 DEF IcOK
<1> HIDE DEF c
<1>2. IcOK(c) /\ \A j \in Inos : c[j] = IF j = i THEN y ELSE s.ic[j]
  <2>1. c = [j \in Inos |-> c[j]] /\ \A j \in Inos : c[j] = IF j = i THEN y ELSE s.ic[j]
    BY <1>c
  <2>2. ASSUME NEW j \in Inos PROVE CellOK(c[j])
    BY <2>1, <1>0, <1>1 DEF IcOK
  <2>. QED BY <2>1, <2>2 DEF IcOK
<1>3. IsState(t) /\ t.ic = c /\ t.bad = s.bad /\ t.ret = s.ret
  BY <1>0 DEF IsState
<1> HIDE DEF t
<1>4. ASSUME NEW j \in Inos PROVE t.ic[j].rc = s.ic[j].rc + (IF j = i THEN d ELSE 0)
  <2>1. s.ic[j].rc \in Int
    BY <1>0 DEF IcOK, CellOK
  <2>. QED BY <2>1, <1>1, <1>2, <1>3
<1>5. Moves(s, t, i, d)
  BY <1>2, <1>3, <1>4 DEF Moves, Shape
<1>. QED BY <1>3, <1>5 DEF t, c, y

\* Inode i gets a new cell, with a count of its own.
WithCell(s, i, x) == [s EXCEPT !.ic[i] = x]

\* A cell of the in-memory inodes is replaced: its count is the new cell's.
LEMMA SetCell ==
  ASSUME NEW s, Shape(s), NEW i, NEW x, i \notin Inos \/ CellOK(x)
  PROVE  LET t == WithCell(s, i, x)
         IN  /\ Shape(t) /\ t.ret = s.ret /\ t.bad = s.bad
             /\ \A j \in Inos : t.ic[j].rc = IF j = i THEN x.rc ELSE s.ic[j].rc
<1> DEFINE c == [s.ic EXCEPT ![i] = x]
           t == [s EXCEPT !.ic = c]
<1>0. IsState(s) /\ IcOK(s.ic)
  BY DEF Shape
<1>c. c = [j \in Inos |-> IF j = i THEN x ELSE s.ic[j]]
  BY <1>0 DEF IcOK
<1> HIDE DEF c
<1>2. IcOK(c) /\ \A j \in Inos : c[j] = IF j = i THEN x ELSE s.ic[j]
  <2>1. c = [j \in Inos |-> c[j]] /\ \A j \in Inos : c[j] = IF j = i THEN x ELSE s.ic[j]
    BY <1>c
  <2>2. ASSUME NEW j \in Inos PROVE CellOK(c[j])
    BY <2>1, <1>0 DEF IcOK
  <2>. QED BY <2>1, <2>2 DEF IcOK
<1>3. IsState(t) /\ t.ic = c /\ t.bad = s.bad /\ t.ret = s.ret
  BY <1>0 DEF IsState
<1> HIDE DEF t
<1>4. Shape(t) /\ \A j \in Inos : t.ic[j].rc = IF j = i THEN x.rc ELSE s.ic[j].rc
  BY <1>2, <1>3 DEF Shape
<1>5. WithCell(s, i, x) = t
  BY DEF WithCell, t, c
<1>. QED BY <1>3, <1>4, <1>5

\* The rest of a state is changed.
LEMMA SetRest ==
  ASSUME NEW s, Shape(s), NEW x
  PROVE  /\ LET t == [s EXCEPT !.ent = x] IN Keeps(s, t) /\ t.ret = s.ret /\ t.bad = s.bad
         /\ LET t == [s EXCEPT !.bm = x] IN Keeps(s, t) /\ t.ret = s.ret /\ t.bad = s.bad
         /\ LET t == [s EXCEPT !.data = x] IN Keeps(s, t) /\ t.ret = s.ret /\ t.bad = s.bad
         /\ LET t == [s EXCEPT !.log = x] IN Keeps(s, t) /\ t.ret = s.ret /\ t.bad = s.bad
         /\ LET t == [s EXCEPT !.ctx = x] IN Keeps(s, t) /\ t.ret = s.ret /\ t.bad = s.bad
         /\ LET t == [s EXCEPT !.ret = x] IN Keeps(s, t) /\ t.ret = x /\ t.bad = s.bad
<1>1. IsState(s) /\ IcOK(s.ic)
  BY DEF Shape
<1>2. ASSUME NEW t, IsState(t), t.ic = s.ic, t.bad = s.bad PROVE Keeps(s, t)
  BY <1>1, <1>2 DEF Keeps, Shape
<1>3. LET t == [s EXCEPT !.ent = x] IN Keeps(s, t) /\ t.ret = s.ret /\ t.bad = s.bad
  <2> DEFINE t == [s EXCEPT !.ent = x]
  <2>1. IsState(t) /\ t.ic = s.ic /\ t.bad = s.bad /\ t.ret = s.ret
    BY <1>1 DEF IsState
  <2> HIDE DEF t
  <2>. QED BY <2>1, <1>2 DEF t
<1>4. LET t == [s EXCEPT !.bm = x] IN Keeps(s, t) /\ t.ret = s.ret /\ t.bad = s.bad
  <2> DEFINE t == [s EXCEPT !.bm = x]
  <2>1. IsState(t) /\ t.ic = s.ic /\ t.bad = s.bad /\ t.ret = s.ret
    BY <1>1 DEF IsState
  <2> HIDE DEF t
  <2>. QED BY <2>1, <1>2 DEF t
<1>5. LET t == [s EXCEPT !.data = x] IN Keeps(s, t) /\ t.ret = s.ret /\ t.bad = s.bad
  <2> DEFINE t == [s EXCEPT !.data = x]
  <2>1. IsState(t) /\ t.ic = s.ic /\ t.bad = s.bad /\ t.ret = s.ret
    BY <1>1 DEF IsState
  <2> HIDE DEF t
  <2>. QED BY <2>1, <1>2 DEF t
<1>6. LET t == [s EXCEPT !.log = x] IN Keeps(s, t) /\ t.ret = s.ret /\ t.bad = s.bad
  <2> DEFINE t == [s EXCEPT !.log = x]
  <2>1. IsState(t) /\ t.ic = s.ic /\ t.bad = s.bad /\ t.ret = s.ret
    BY <1>1 DEF IsState
  <2> HIDE DEF t
  <2>. QED BY <2>1, <1>2 DEF t
<1>7. LET t == [s EXCEPT !.ctx = x] IN Keeps(s, t) /\ t.ret = s.ret /\ t.bad = s.bad
  <2> DEFINE t == [s EXCEPT !.ctx = x]
  <2>1. IsState(t) /\ t.ic = s.ic /\ t.bad = s.bad /\ t.ret = s.ret
    BY <1>1 DEF IsState
  <2> HIDE DEF t
  <2>. QED BY <2>1, <1>2 DEF t
<1>8. LET t == [s EXCEPT !.ret = x] IN Keeps(s, t) /\ t.ret = x /\ t.bad = s.bad
  <2> DEFINE t == [s EXCEPT !.ret = x]
  <2>1. IsState(t) /\ t.ic = s.ic /\ t.bad = s.bad /\ t.ret = x
    BY <1>1 DEF IsState
  <2> HIDE DEF t
  <2>. QED BY <2>1, <1>2 DEF t
<1>. QED BY <1>3, <1>4, <1>5, <1>6, <1>7, <1>8

\* A call that goes wrong.
LEMMA FailKeeps ==
  ASSUME NEW s, Shape(s), NEW why, why # "ok"
  PROVE  LET t == Fail(s, why)
         IN  t.bad # "ok" /\ t.ret = s.ret /\ Keeps(s, t) /\ \A i, d : Moves(s, t, i, d)
<1>1. IsState(s) /\ IcOK(s.ic)
  BY DEF Shape
<1> DEFINE t == [s EXCEPT !.bad = why]
<1>2. IsState(t) /\ t.ic = s.ic /\ t.bad = why /\ t.ret = s.ret
  BY <1>1 DEF IsState
<1> HIDE DEF t
<1>3. Keeps(s, t) /\ \A i, d : Moves(s, t, i, d)
  BY <1>1, <1>2 DEF Keeps, Moves, Shape
<1>. QED BY <1>2, <1>3 DEF Fail, t

\* Steps that keep the counts compose, among themselves and with one that does not.
LEMMA KeepsTrans ==
  ASSUME NEW s, NEW t, NEW u, Keeps(t, u)
  PROVE  /\ Keeps(s, t) => Keeps(s, u)
         /\ \A i, d : Moves(s, t, i, d) => Moves(s, u, i, d)
BY DEF Keeps, Moves

\* A move after a step that keeps the counts.
LEMMA MovesAfter ==
  ASSUME NEW s, NEW t, NEW u, Keeps(s, t), NEW i, NEW d, Moves(t, u, i, d)
  PROVE  Moves(s, u, i, d)
BY DEF Keeps, Moves

\* Nothing happens.
LEMMA KeepsSelf == ASSUME NEW s, Shape(s) PROVE Keeps(s, s)
BY DEF Keeps

\* Two steps that keep the counts and the result.
LEMMA RetTrans ==
  ASSUME NEW s, NEW t, NEW u, KeepsRet(s, t), KeepsRet(t, u)
  PROVE  KeepsRet(s, u)
BY KeepsTrans DEF KeepsRet

-----------------------------------------------------------------------------
(* The block cache, the entries and the locks: no count changes. *)

\* cache_sync.
LEMMA SyncKeeps ==
  ASSUME NEW s, Shape(s), NEW b
  PROVE  KeepsRet(s, Sync(s, b))
<1>1. CASE ~s.ctx \/ b \in s.log
  BY <1>1, KeepsSelf DEF Sync, KeepsRet
<1>2. CASE ~(~s.ctx \/ b \in s.log) /\ Cardinality(s.log) >= OpMax
  <2>1. Sync(s, b) = Fail(s, "log")
    BY <1>2 DEF Sync
  <2>. QED BY <2>1, FailKeeps DEF KeepsRet
<1>3. CASE ~(~s.ctx \/ b \in s.log) /\ ~(Cardinality(s.log) >= OpMax)
  <2> DEFINE x == s.log \cup {b}
             t == [s EXCEPT !.log = x]
  <2>1. Sync(s, b) = t
    BY <1>3 DEF Sync
  <2> HIDE DEF x
  <2>2. KeepsRet(s, t)
    BY SetRest DEF KeepsRet
  <2> HIDE DEF t
  <2>. QED BY <2>1, <2>2
<1>. QED BY <1>1, <1>2, <1>3

\* A change outside the in-memory inodes, and the sync of its block.
LEMMA SyncAfter ==
  ASSUME NEW s, NEW t, KeepsRet(s, t), NEW b
  PROVE  KeepsRet(s, Sync(t, b))
<1>1. Shape(t)
  BY DEF KeepsRet, Keeps
<1>. QED BY <1>1, SyncKeeps, RetTrans

\* inode_sync.
LEMMA InodeSyncKeeps ==
  ASSUME NEW s, Shape(s), NEW i
  PROVE  KeepsRet(s, InodeSync(s, i))
<1> DEFINE x == [s.ent EXCEPT ![i] = s.ic[i].entry]
           t == [s EXCEPT !.ent = x]
<1>1. InodeSync(s, i) = Sync(t, InodeBlk(i))
  BY DEF InodeSync
<1> HIDE DEF x
<1>2. KeepsRet(s, t)
  BY SetRest DEF KeepsRet
<1> HIDE DEF t
<1>. QED BY <1>1, <1>2, SyncAfter

\* ... after a change of the entry.
LEMMA EntrySync ==
  ASSUME NEW s, NEW i, NEW x, Shape(s)
  PROVE  KeepsRet(s, InodeSync([s EXCEPT !.ic[i].entry = x], i))
<1> DEFINE t == [s EXCEPT !.ic[i].entry = x]
<1>0. KeepsRet(s, t)
  BY SetEntry DEF KeepsRet
<1>1. KeepsRet(s, t) /\ Shape(t)
  BY <1>0 DEF KeepsRet, Keeps
<1> HIDE DEF t
<1>2. KeepsRet(s, InodeSync(t, i))
  BY <1>1, InodeSyncKeeps, RetTrans
<1>. QED BY <1>2 DEF t

\* cache_free and cache_alloc.
LEMMA CacheFreeKeeps ==
  ASSUME NEW s, Shape(s), NEW B
  PROVE  KeepsRet(s, CacheFree(s, B))
<1>1. CASE B = {}
  BY <1>1, KeepsSelf DEF CacheFree, KeepsRet
<1>2. CASE B # {}
  <2> DEFINE x == s.bm \ B
             t == [s EXCEPT !.bm = x]
  <2>1. CacheFree(s, B) = Sync(t, BitmapBlk)
    BY <1>2 DEF CacheFree
  <2> HIDE DEF x
  <2>2. KeepsRet(s, t)
    BY SetRest DEF KeepsRet
  <2> HIDE DEF t
  <2>. QED BY <2>1, <2>2, SyncAfter
<1>. QED BY <1>1, <1>2

\* Marking a block of the bitmap.
LEMMA TakeBlockKeeps ==
  ASSUME NEW s, Shape(s), NEW b, NEW c
  PROVE  Keeps(s, TakeBlock(s, b, c))
<1> DEFINE x == s.bm \cup {b}
           t == [s EXCEPT !.bm = x]
           u == Sync(t, BitmapBlk)
<1>1. TakeBlock(s, b, c) = IF u.bad = "ok" THEN Sync([u EXCEPT !.data[b] = c, !.ret = b], DataBlk(b)) ELSE u
  BY DEF TakeBlock, Then
<1> HIDE DEF x
<1>2. KeepsRet(s, t)
  BY SetRest DEF KeepsRet
<1> HIDE DEF t
<1>3. KeepsRet(s, u)
  BY <1>2, SyncAfter
<1> HIDE DEF u
<1> DEFINE y == [u.data EXCEPT ![b] = c]
           v == [u EXCEPT !.data = y]
           w == [v EXCEPT !.ret = b]
<1>4. Sync([u EXCEPT !.data[b] = c, !.ret = b], DataBlk(b)) = Sync(w, DataBlk(b))
  OBVIOUS
<1> HIDE DEF y
<1>5. Shape(u)
  BY <1>3 DEF KeepsRet, Keeps
<1>6. Keeps(u, v)
  BY <1>5, SetRest
<1> HIDE DEF v
<1>8. Shape(v)
  BY <1>6 DEF Keeps
<1>9. Keeps(v, w)
  BY <1>8, SetRest
<1> HIDE DEF w
<1>10. Keeps(u, w) /\ Shape(w)
  BY <1>6, <1>9, KeepsTrans DEF Keeps
<1>7. Keeps(s, Sync(w, DataBlk(b)))
  BY <1>3, <1>10, SyncKeeps, KeepsTrans DEF KeepsRet
<1>. QED BY <1>1, <1>3, <1>4, <1>7 DEF KeepsRet

\* cache_alloc.
LEMMA CacheAllocKeeps ==
  ASSUME NEW s, Shape(s)
  PROVE  Keeps(s, CacheAlloc(s))
<1>1. CASE Blocks \subseteq s.bm
  <2>1. CacheAlloc(s) = Fail(s, "disk_full")
    BY <1>1 DEF CacheAlloc
  <2>. QED BY <2>1, FailKeeps
<1>2. CASE ~(Blocks \subseteq s.bm)
  BY <1>2, TakeBlockKeeps DEF CacheAlloc
<1>. QED BY <1>1, <1>2

\* inode_lock and inode_unlock.
LEMMA LockKeeps ==
  ASSUME NEW s, Shape(s), NEW i
  PROVE  KeepsRet(s, Lock(s, i)) /\ KeepsRet(s, Unlock(s, i))
<1> DEFINE x == s.ic[i].lock - 1
           y == IF s.ic[i].lock < MaxPermits THEN s.ic[i].lock + 1 ELSE s.ic[i].lock
<1>1. \/ Lock(s, i) = Fail(s, "freed_inode") \/ Lock(s, i) = Fail(s, "assert_rc")
      \/ Lock(s, i) = Fail(s, "stuck") \/ Lock(s, i) = [s EXCEPT !.ic[i].lock = x]
  BY DEF Lock
<1>2. \/ Unlock(s, i) = Fail(s, "freed_inode") \/ Unlock(s, i) = Fail(s, "assert_rc")
      \/ Unlock(s, i) = [s EXCEPT !.ic[i].lock = y]
  BY DEF Unlock
<1> HIDE DEF x, y
<1>3. ASSUME NEW w \in {"freed_inode", "assert_rc", "stuck"} PROVE KeepsRet(s, Fail(s, w))
  BY FailKeeps DEF KeepsRet
<1>4. KeepsRet(s, [s EXCEPT !.ic[i].lock = x]) /\ KeepsRet(s, [s EXCEPT !.ic[i].lock = y])
  BY SetLock DEF KeepsRet
<1>. QED BY <1>1, <1>2, <1>3, <1>4

-----------------------------------------------------------------------------
(* References. *)

\* A move that keeps the result of the last helper.
MovesRet(s, t, i, d) == Moves(s, t, i, d) /\ t.ret = s.ret

\* A move before or after steps that keep the counts.
LEMMA MovesRetTrans ==
  ASSUME NEW s, NEW t, NEW u
  PROVE  \A i, d : /\ KeepsRet(s, t) /\ MovesRet(t, u, i, d) => MovesRet(s, u, i, d)
                   /\ MovesRet(s, t, i, d) /\ KeepsRet(t, u) => MovesRet(s, u, i, d)
BY KeepsTrans, MovesAfter DEF KeepsRet, MovesRet

\* 0 stands for no inode.
LEMMA ZeroNoInode == 0 \notin Inos
BY InodeAssumption DEF Inos

\* inode_get and inode_share take one reference.
LEMMA InodeGetMoves ==
  ASSUME NEW s, Shape(s), NEW i
  PROVE  MovesRet(s, InodeGet(s, i), i, 1) /\ MovesRet(s, InodeShare(s, i), i, 1)
<1> DEFINE t == [s EXCEPT !.ic[i].rc = s.ic[i].rc + 1]
           x == [cached |-> TRUE, rc |-> 1, lock |-> 1, entry |-> s.ent[i]]
           u == WithCell(s, i, x)
<1>1. \/ i = 0 /\ InodeGet(s, i) = s
      \/ s.ic[i].cached /\ InodeGet(s, i) = t
      \/ ~s.ic[i].cached /\ InodeGet(s, i) = u
  BY DEF InodeGet, WithCell
<1>2. \/ s.ic[i].cached /\ InodeShare(s, i) = t
      \/ InodeShare(s, i) = Fail(s, "freed_inode")
  BY DEF InodeShare
<1>3. i = 0 => MovesRet(s, s, i, 1)
  <2>1. \A j \in Inos : s.ic[j].rc = s.ic[j].rc + 0
    BY DEF Shape, IcOK, CellOK
  <2>. QED BY <2>1, ZeroNoInode DEF MovesRet, Moves
<1>4. s.ic[i].cached => MovesRet(s, t, i, 1)
  BY SetRc DEF MovesRet
<1>5. ~s.ic[i].cached => MovesRet(s, u, i, 1)
  <2>1. IsCell(x) /\ x.rc = 1 /\ x.cached
    BY DEF IsCell
  <2> HIDE DEF x
  <2>a. i \notin Inos \/ CellOK(x)
    BY <2>1 DEF CellOK
  <2>2. Shape(u) /\ u.ret = s.ret /\ u.bad = s.bad /\ \A j \in Inos : u.ic[j].rc = IF j = i THEN x.rc ELSE s.ic[j].rc
    BY <2>a, SetCell
  <2> HIDE DEF u
  <2>3. \A j \in Inos : s.ic[j].rc \in Int /\ (~s.ic[j].cached => s.ic[j].rc = 0)
    BY DEF Shape, IcOK, CellOK
  <2>. QED BY <2>1, <2>2, <2>3 DEF MovesRet, Moves
<1>6. MovesRet(s, Fail(s, "freed_inode"), i, 1)
  BY FailKeeps DEF MovesRet
<1> HIDE DEF t, u
<1>. QED BY <1>1, <1>2, <1>3, <1>4, <1>5, <1>6

\* inode_clear.
LEMMA InodeClearKeeps ==
  ASSUME NEW s, Shape(s), NEW i
  PROVE  KeepsRet(s, InodeClear(s, i))
<1> DEFINE a == CacheFree(s, OwnBlocks(s.data, s.ic[i].entry))
<1>1. KeepsRet(s, a)
  BY CacheFreeKeeps
<1>2. InodeClear(s, i) = IF a.bad = "ok"
        THEN InodeSync([a EXCEPT !.ic[i].entry.indirect = 0, !.ic[i].entry.bytes = 0,
                                 !.ic[i].entry.addrs = FreeEntry.addrs], i) ELSE a
  BY DEF InodeClear, Then
<1> HIDE DEF a
<1>3. Shape(a)
  BY <1>1 DEF KeepsRet, Keeps
<1> DEFINE x == [a.ic[i].entry EXCEPT !.indirect = 0]
           b == [a EXCEPT !.ic[i].entry = x]
           y == [b.ic[i].entry EXCEPT !.bytes = 0]
           c == [b EXCEPT !.ic[i].entry = y]
           z == [c.ic[i].entry EXCEPT !.addrs = FreeEntry.addrs]
           e == [c EXCEPT !.ic[i].entry = z]
<1>4. e = [a EXCEPT !.ic[i].entry.indirect = 0, !.ic[i].entry.bytes = 0,
                    !.ic[i].entry.addrs = FreeEntry.addrs]
  OBVIOUS
<1> HIDE DEF x
<1>5. KeepsRet(a, b)
  BY <1>3, SetEntry DEF KeepsRet
<1> HIDE DEF b, y
<1>6. Shape(b)
  BY <1>5 DEF KeepsRet, Keeps
<1>7. KeepsRet(b, c)
  BY <1>6, SetEntry DEF KeepsRet
<1> HIDE DEF c, z
<1>8. Shape(c)
  BY <1>7 DEF KeepsRet, Keeps
<1>9. KeepsRet(c, InodeSync(e, i))
  BY <1>8, EntrySync
<1>10. KeepsRet(a, InodeSync(e, i))
  BY <1>5, <1>7, <1>9, RetTrans
<1>. QED BY <1>1, <1>2, <1>4, <1>10, RetTrans

\* inode_put gives one reference back, whether or not it frees the inode.
LEMMA InodePutMoves ==
  ASSUME NEW s, Shape(s), NEW i
  PROVE  MovesRet(s, InodePut(s, i), i, -1)
<1>0. IsState(s) /\ IcOK(s.ic)
  BY DEF Shape
<1>1. ASSUME NEW w \in {"freed_inode", "stuck"} PROVE MovesRet(s, Fail(s, w), i, -1)
  BY FailKeeps DEF MovesRet
<1>2. CASE s.ic[i].cached /\ ~(s.ic[i].rc = 1 /\ s.ic[i].entry.links = 0)
  <2> DEFINE t == [s EXCEPT !.ic[i].rc = s.ic[i].rc - 1]
             u == [s EXCEPT !.ic[i].rc = s.ic[i].rc + (-1)]
  <2>1. InodePut(s, i) = t \/ InodePut(s, i) = Fail(s, "stuck")
    BY <1>2 DEF InodePut
  <2>2. MovesRet(s, u, i, -1)
    BY <1>2, SetRc DEF MovesRet
  <2>3. MovesRet(s, t, i, -1)
    <3>1. CASE i \in Inos
      <4>1. s.ic[i].rc - 1 = s.ic[i].rc + (-1)
        BY <3>1, <1>0 DEF IcOK, CellOK
      <4>. QED BY <4>1, <2>2
    <3>2. CASE i \notin Inos
      <4>1. t = s /\ u = s
        BY <3>2, <1>0 DEF IcOK, IsState
      <4>. QED BY <4>1, <2>2
    <3>. QED BY <3>1, <3>2
  <2> HIDE DEF t
  <2>. QED BY <2>1, <2>3, <1>1
<1>3. CASE s.ic[i].cached /\ s.ic[i].rc = 1 /\ s.ic[i].entry.links = 0
  <2> DEFINE y == [s.ic[i] EXCEPT !.rc = 0]
             a == WithCell(s, i, y)
             x == [a.ic[i].entry EXCEPT !.type = "invalid"]
             b == [a EXCEPT !.ic[i].entry = x]
             c == InodeClear(b, i)
             e == WithCell(c, i, NoInode)
  <2>1. InodePut(s, i) = Fail(s, "stuck") \/ InodePut(s, i) = IF c.bad = "ok" THEN e ELSE c
    <3>1. b = [s EXCEPT !.ic[i].rc = 0, !.ic[i].entry.type = "invalid"]
      BY DEF WithCell
    <3> HIDE DEF b
    <3>. QED BY <3>1, <1>3 DEF InodePut, Then, WithCell
  <2>2. ASSUME i \in Inos PROVE CellOK(y)
    <3>1. IsCell(s.ic[i])
      BY <2>2, <1>0 DEF IcOK, CellOK
    <3>2. IsCell(y) /\ y.rc = 0
      BY <3>1, CellSet
    <3>. QED BY <3>2 DEF CellOK
  <2> HIDE DEF y
  <2>a. i \notin Inos \/ CellOK(y)
    BY <2>2
  <2>3. Shape(a) /\ a.ret = s.ret /\ a.bad = s.bad /\ \A j \in Inos : a.ic[j].rc = IF j = i THEN y.rc ELSE s.ic[j].rc
    BY <2>a, SetCell
  <2> HIDE DEF a, x
  <2>b. Shape(a)
    BY <2>3
  <2>4. KeepsRet(a, b)
    BY <2>b, SetEntry DEF KeepsRet
  <2> HIDE DEF b
  <2>5. Shape(b)
    BY <2>4 DEF KeepsRet, Keeps
  <2>6. KeepsRet(a, c)
    BY <2>4, <2>5, InodeClearKeeps, RetTrans
  <2> HIDE DEF c
  <2>7. Shape(c) /\ c.ret = s.ret
    BY <2>3, <2>6 DEF KeepsRet, Keeps
  <2>8. CASE c.bad # "ok"
    BY <2>1, <2>7, <2>8, <1>1 DEF MovesRet, Moves
  <2>9. CASE c.bad = "ok"
    <3>1. CellOK(NoInode) /\ NoInode.rc = 0
      BY DEF NoInode, IsCell, CellOK
    <3>2. Shape(e) /\ e.ret = c.ret /\ e.bad = c.bad /\ \A j \in Inos : e.ic[j].rc = IF j = i THEN 0 ELSE c.ic[j].rc
      BY <2>7, <3>1, SetCell
    <3> HIDE DEF e
    <3>3. s.bad = "ok" /\ \A j \in Inos : j # i => c.ic[j].rc = s.ic[j].rc
      BY <2>3, <2>6, <2>9 DEF KeepsRet, Keeps
    <3>4. ASSUME NEW j \in Inos PROVE e.ic[j].rc = s.ic[j].rc + (IF j = i THEN -1 ELSE 0)
      <4>1. s.ic[j].rc \in Int
        BY <1>0 DEF IcOK, CellOK
      <4>. QED BY <4>1, <3>2, <3>3, <1>3
    <3>5. MovesRet(s, e, i, -1)
      BY <3>2, <3>3, <3>4, <2>7 DEF MovesRet, Moves
    <3>. QED BY <3>5, <2>1, <2>9, <1>1
  <2>. QED BY <2>8, <2>9
<1>4. CASE ~s.ic[i].cached
  BY <1>1, <1>4 DEF InodePut
<1>. QED BY <1>2, <1>3, <1>4

\* inode_unlock and inode_put give one reference up.
LEMMA UnlockPutMoves ==
  ASSUME NEW s, Shape(s), NEW i
  PROVE  MovesRet(s, UnlockPut(s, i), i, -1)
<1> DEFINE u == Unlock(s, i)
<1>1. KeepsRet(s, u)
  BY LockKeeps
<1>2. UnlockPut(s, i) = IF u.bad = "ok" THEN InodePut(u, i) ELSE u
  BY DEF UnlockPut, Then
<1> HIDE DEF u
<1>3. Shape(u)
  BY <1>1 DEF KeepsRet, Keeps
<1>4. CASE u.bad = "ok"
  <2>1. MovesRet(u, InodePut(u, i), i, -1)
    BY <1>3, InodePutMoves
  <2>2. MovesRet(s, InodePut(u, i), i, -1)
    BY <2>1, <1>1, MovesRetTrans
  <2>. QED BY <2>2, <1>2, <1>4
<1>5. CASE u.bad # "ok"
  BY <1>1, <1>2, <1>3, <1>5 DEF KeepsRet, MovesRet, Moves
<1>. QED BY <1>4, <1>5

-----------------------------------------------------------------------------
(* Allocation and content: no count changes. *)

\* Two steps that keep the counts.
LEMMA KeepsChain ==
  ASSUME NEW s, NEW t, NEW u, Keeps(s, t), Keeps(t, u)
  PROVE  Keeps(s, u)
BY KeepsTrans

\* inode_alloc.
LEMMA InodeAllocKeeps ==
  ASSUME NEW s, Shape(s), NEW type
  PROVE  Keeps(s, InodeAlloc(s, type))
<1> DEFINE n == Min(FreeInodes(s))
           x == [s.ent EXCEPT ![n] = [FreeEntry EXCEPT !.type = type]]
           t == [s EXCEPT !.ent = x]
           u == [t EXCEPT !.ret = n]
<1>1. \/ InodeAlloc(s, type) = Fail(s, "no_inode")
      \/ InodeAlloc(s, type) = Sync(u, InodeBlk(n))
  BY DEF InodeAlloc
<1> HIDE DEF n, x
<1>2. Keeps(s, t)
  BY SetRest
<1> HIDE DEF t
<1>3. Shape(t)
  BY <1>2 DEF Keeps
<1>4. Keeps(t, u)
  BY <1>3, SetRest
<1> HIDE DEF u
<1>5. Keeps(s, u) /\ Shape(u)
  BY <1>2, <1>4, KeepsChain DEF Keeps
<1>6. Keeps(u, Sync(u, InodeBlk(n)))
  BY <1>5, SyncKeeps DEF KeepsRet
<1>7. Keeps(s, Sync(u, InodeBlk(n)))
  BY <1>5, <1>6, KeepsChain
<1>8. Keeps(s, Fail(s, "no_inode"))
  BY FailKeeps
<1>. QED BY <1>1, <1>7, <1>8

\* inode_map, when a block is missing.
LEMMA MapKeeps ==
  ASSUME NEW s, Shape(s), NEW i, NEW k
  PROVE  /\ Keeps(s, MapDirect(s, i, k)) /\ Keeps(s, MapIndirect(s, i))
         /\ Keeps(s, MapAddr(s, i, k))
<1> DEFINE a == CacheAlloc(s)
<1>1. Keeps(s, a)
  BY CacheAllocKeeps
<1> DEFINE x == [a.ic[i].entry EXCEPT !.addrs[k] = a.ret]
           y == [a.ic[i].entry EXCEPT !.indirect = a.ret]
           z == [a.data EXCEPT ![i][k - NumDirect] = [n |-> a.ret, t |-> "none"]]
           b == [a EXCEPT !.data = z]
<1>2. /\ MapDirect(s, i, k) = IF a.bad = "ok" THEN InodeSync([a EXCEPT !.ic[i].entry = x], i) ELSE a
      /\ MapIndirect(s, i) = IF a.bad = "ok" THEN InodeSync([a EXCEPT !.ic[i].entry = y], i) ELSE a
      /\ MapAddr(s, i, k) = IF a.bad = "ok" THEN Sync(b, DataBlk(i)) ELSE a
  BY DEF MapDirect, MapIndirect, MapAddr, Then
<1> HIDE DEF a, x, y, z
<1>3. Shape(a)
  BY <1>1 DEF Keeps
<1>4. Keeps(a, InodeSync([a EXCEPT !.ic[i].entry = x], i))
  BY <1>3, EntrySync DEF KeepsRet
<1>5. Keeps(a, InodeSync([a EXCEPT !.ic[i].entry = y], i))
  BY <1>3, EntrySync DEF KeepsRet
<1>6. KeepsRet(a, b)
  BY <1>3, SetRest DEF KeepsRet
<1> HIDE DEF b
<1>7. Keeps(a, Sync(b, DataBlk(i)))
  BY <1>6, SyncAfter DEF KeepsRet
<1>. QED BY <1>1, <1>2, <1>4, <1>5, <1>7, KeepsChain

\* inode_map, which may allocate a block.
LEMMA InodeMapKeeps ==
  ASSUME NEW s, Shape(s), NEW i, NEW k
  PROVE  Keeps(s, InodeMap(s, i, k))
<1> DEFINE a == IF k >= NumDirect /\ s.ic[i].entry.indirect = 0 THEN MapIndirect(s, i) ELSE s
           v == BlockOf(a.data, a.ic[i].entry, k)
           ind == a.ic[i].entry.indirect
<1>1. InodeMap(s, i, k) =
        IF a.bad # "ok" THEN a ELSE IF v # 0 THEN [a EXCEPT !.ret = v]
        ELSE IF k < NumDirect THEN MapDirect(a, i, k) ELSE MapAddr(a, ind, k)
  BY DEF InodeMap, Then, Return
<1>2. Keeps(s, a)
  BY MapKeeps, KeepsSelf
<1> HIDE DEF a, v, ind
<1>3. Shape(a)
  BY <1>2 DEF Keeps
<1>4. Keeps(a, MapDirect(a, i, k)) /\ Keeps(a, MapAddr(a, ind, k))
  BY <1>3, MapKeeps
<1>5. Keeps(a, [a EXCEPT !.ret = v])
  BY <1>3, SetRest
<1> DEFINE r == [a EXCEPT !.ret = v]
<1>6. r = [a EXCEPT !.ret = v]
  OBVIOUS
<1> HIDE DEF r
<1>. QED BY <1>1, <1>2, <1>4, <1>5, <1>6, KeepsChain

\* One block of an inode_write.
LEMMA WriteBlockKeeps ==
  ASSUME NEW s, Shape(s), NEW i, NEW off, NEW src, NEW k
  PROVE  Keeps(s, WriteBlock(s, i, off, src, k))
<1> DEFINE a == InodeMap(s, i, k)
           z == [a.data EXCEPT ![a.ret] = Overlay(a.data[a.ret], off, src, k)]
           b == [a EXCEPT !.data = z]
<1>1. WriteBlock(s, i, off, src, k) = IF a.bad = "ok" THEN Sync(b, DataBlk(a.ret)) ELSE a
  BY DEF WriteBlock, Then
<1>2. Keeps(s, a)
  BY InodeMapKeeps
<1> HIDE DEF a, z
<1>3. Shape(a)
  BY <1>2 DEF Keeps
<1>4. KeepsRet(a, b)
  BY <1>3, SetRest DEF KeepsRet
<1> HIDE DEF b
<1>5. Keeps(a, Sync(b, DataBlk(a.ret)))
  BY <1>4, SyncAfter DEF KeepsRet
<1>. QED BY <1>1, <1>2, <1>5, KeepsChain

\* inode_write, where it sets the new size.
LEMMA SizedKeeps ==
  ASSUME NEW s, Shape(s), NEW i, NEW end
  PROVE  Keeps(s, Sized(s, i, end))
<1> DEFINE x == [s.ic[i].entry EXCEPT !.bytes = end]
<1>1. Sized(s, i, end) = s \/ Sized(s, i, end) = InodeSync([s EXCEPT !.ic[i].entry = x], i)
  BY DEF Sized
<1> HIDE DEF x
<1>2. Keeps(s, InodeSync([s EXCEPT !.ic[i].entry = x], i))
  BY EntrySync DEF KeepsRet
<1>. QED BY <1>1, <1>2, KeepsSelf

\* The blocks of an inode_write, one after the other.
LEMMA WriteLoopIs ==
  ASSUME NEW s, NEW i, NEW off, NEW src
  PROVE  LET w == WriteLoop(s, i, off, src)
         IN  w[0] = Sized(s, i, off + Len(src)) /\ \A k \in 1..(NumDirect + NumIndirect) : w[k] = WriteStep(w[k - 1], i, off, src, k - 1)
<1> DEFINE N == (NumDirect + NumIndirect)
           St(p, k) == WriteStep(p, i, off, src, k - 1)
           Def(m, f) == [k \in 0..m |-> IF k = 0 THEN Sized(s, i, off + Len(src)) ELSE St(f[k - 1], k)]
<1>0. N \in Nat
  BY InodeAssumption DEF NumIndirect
<1> HIDE DEF N
<1>1. ASSUME NEW m \in Nat PROVE \E g : g = Def(m, g)
  <2> DEFINE T == {k \in Nat : ~\E g : g = Def(k, g)}
  <2>1. SUFFICES ASSUME T # {} PROVE FALSE
    OBVIOUS
  <2>2. PICK k \in T : \A y \in T : k <= y
    <3>1. T \in SUBSET Nat
      OBVIOUS
    <3>. QED BY <3>1, <2>1, NatMin
  <2>3. k # 0
    <3> DEFINE g == [x \in 0..0 |-> Sized(s, i, off + Len(src))]
    <3>1. ASSUME NEW x \in 0..0 PROVE g[x] = Def(0, g)[x]
      OBVIOUS
    <3>2. g = Def(0, g)
      BY <3>1
    <3>. QED BY <3>2
  <2>t. T \subseteq Nat
    OBVIOUS
  <2>4. k - 1 \in Nat /\ k - 1 \notin T
    <3> HIDE DEF T
    <3>. QED BY <2>2, <2>3, <2>t
  <2>5. PICK g : g = Def(k - 1, g)
    BY <2>4
  <2> DEFINE h == [x \in 0..k |-> IF x = k THEN St(g[k - 1], k) ELSE g[x]]
  <2>6. h = Def(k, h)
    <3>1. ASSUME NEW x \in 0..k PROVE h[x] = Def(k, h)[x]
      <4>1. CASE x = k
        BY <4>1, <2>3, <2>4
      <4>2. CASE x # k
        <5>1. x \in 0..(k - 1) /\ h[x] = g[x] /\ (x # 0 => x - 1 \in 0..(k - 1) /\ h[x - 1] = g[x - 1])
          BY <4>2, <2>4
        <5>2. g[x] = Def(k - 1, g)[x]
          BY <2>5
        <5>. QED BY <5>1, <5>2
      <4>. QED BY <4>1, <4>2
    <3>. QED BY <3>1
  <2>. QED BY <2>2, <2>6
<1>2. PICK g : g = Def(N, g)
  BY <1>0, <1>1
<1> DEFINE w == WriteLoop(s, i, off, src)
<1>3. w = Def(N, w)
  BY <1>2 DEF WriteLoop, N
<1> HIDE DEF w
<1>4. w[0] = Sized(s, i, off + Len(src))
  <2>1. w[0] = Def(N, w)[0]
    BY <1>3
  <2>. QED BY <2>1, <1>0
<1>5. ASSUME NEW k \in 1..N PROVE w[k] = WriteStep(w[k - 1], i, off, src, k - 1)
  <2>1. w[k] = Def(N, w)[k]
    BY <1>3
  <2>. QED BY <2>1, <1>0
<1>. QED BY <1>4, <1>5 DEF w, N

\* inode_write, one turn of its loop.
LEMMA WriteStepKeeps ==
  ASSUME NEW s, Shape(s), NEW i, NEW off, NEW src, NEW k
  PROVE  Keeps(s, WriteStep(s, i, off, src, k))
<1>1. WriteStep(s, i, off, src, k) = s \/ WriteStep(s, i, off, src, k) = WriteBlock(s, i, off, src, k)
  BY DEF WriteStep, Then
<1>. QED BY <1>1, WriteBlockKeeps, KeepsSelf

\* inode_write.
LEMMA InodeWriteKeeps ==
  ASSUME NEW s, Shape(s), NEW i, NEW off, NEW src
  PROVE  Keeps(s, InodeWrite(s, i, off, src))
<1> DEFINE N == NumDirect + NumIndirect
           w == WriteLoop(s, i, off, src)
<1>1. \/ InodeWrite(s, i, off, src) \in {Fail(s, "past_end"), Fail(s, "too_big")}
      \/ InodeWrite(s, i, off, src) = w[N]
  BY DEF InodeWrite
<1>2. w[0] = Sized(s, i, off + Len(src)) /\ \A k \in 1..N : w[k] = WriteStep(w[k - 1], i, off, src, k - 1)
  BY WriteLoopIs
<1>3. N \in Nat
  BY InodeAssumption DEF NumIndirect
<1> HIDE DEF N, w
<1> DEFINE T == {k \in 0..N : ~Keeps(s, w[k])}
<1>4. ASSUME T # {} PROVE FALSE
  <2>1. PICK k \in T : \A y \in T : k <= y
    <3>1. T \in SUBSET Nat
      OBVIOUS
    <3>. QED BY <3>1, <1>4, NatMin
  <2>2. k # 0
    BY <1>2, SizedKeeps
  <2>3. k \in 1..N /\ k - 1 \in 0..N /\ k - 1 \notin T
    BY <2>1, <2>2, <1>3
  <2>4. Keeps(s, w[k - 1])
    BY <2>3
  <2>5. Shape(w[k - 1])
    BY <2>4 DEF Keeps
  <2>6. Keeps(w[k - 1], w[k])
    BY <2>3, <2>5, <1>2, WriteStepKeeps
  <2>7. Keeps(s, w[k])
    BY <2>4, <2>6, KeepsChain
  <2>. QED BY <2>1, <2>7
<1>5. Keeps(s, w[N])
  BY <1>3, <1>4
<1>6. Keeps(s, Fail(s, "past_end")) /\ Keeps(s, Fail(s, "too_big"))
  BY FailKeeps
<1>. QED BY <1>1, <1>5, <1>6

\* inode_insert and inode_read.
LEMMA InsertKeeps ==
  ASSUME NEW s, Shape(s), NEW i, NEW name, NEW no
  PROVE  Keeps(s, Insert(s, i, name, no))
<1> DEFINE x == <<[n |-> no, t |-> name]>>
<1>1. Insert(s, i, name, no) = s \/ Insert(s, i, name, no) = InodeWrite(s, i, s.ic[i].entry.bytes, x)
  BY DEF Insert
<1> HIDE DEF x
<1>. QED BY <1>1, InodeWriteKeeps, KeepsSelf

\* A result is returned.
LEMMA ReturnKeeps ==
  ASSUME NEW s, Shape(s), NEW v
  PROVE  Keeps(s, Return(s, v)) /\ Return(s, v).ret = v /\ Return(s, v).bad = s.bad
BY SetRest DEF Return

\* inode_read.
LEMMA InodeReadKeeps ==
  ASSUME NEW s, Shape(s), NEW i, NEW off, NEW count
  PROVE  Keeps(s, InodeRead(s, i, off, count))
<1> DEFINE v == [k \in 1..Min({count, s.ic[i].entry.bytes - off}) |-> UnitAt(s.data, s.ic[i].entry, off + k - 1)]
<1>1. InodeRead(s, i, off, count) = Fail(s, "assert_offset") \/ InodeRead(s, i, off, count) = Return(s, v)
  BY DEF InodeRead
<1> HIDE DEF v
<1>2. Keeps(s, Fail(s, "assert_offset"))
  BY FailKeeps
<1>. QED BY <1>1, <1>2, ReturnKeeps

-----------------------------------------------------------------------------
(* Paths: the walk of namex holds one reference, at the inode it is at. *)

\* From s to t one reference moves from inode i to inode k, if t is no failure.
Shifts(s, t, i, k) ==
    /\ Shape(t)
    /\ t.bad = "ok" =>
        /\ s.bad = "ok"
        /\ \A j \in Inos : t.ic[j].rc = s.ic[j].rc - (IF j = i THEN 1 ELSE 0) + (IF j = k THEN 1 ELSE 0)

\* A reference was taken at i and moved on to k.
LEMMA ShiftMoved ==
  ASSUME NEW s, Shape(s), NEW t, NEW u, NEW i, NEW k, Moves(s, t, i, 1), Shifts(t, u, i, k)
  PROVE  Moves(s, u, k, 1)
<1>1. \A j \in Inos : s.ic[j].rc \in Int
  BY DEF Shape, IcOK, CellOK
<1>. QED BY <1>1 DEF Moves, Shifts

\* A reference is given back; or taken, and another given back.
LEMMA ShiftTo ==
  ASSUME NEW s, Shape(s), NEW t, NEW u, NEW i, NEW k
  PROVE  /\ Moves(s, u, i, -1) => Shifts(s, u, i, 0)
         /\ Moves(s, t, k, 1) /\ Moves(t, u, i, -1) => Shifts(s, u, i, k)
         /\ Keeps(s, u) => Shifts(s, u, i, i)
<1>1. \A j \in Inos : s.ic[j].rc \in Int
  BY DEF Shape, IcOK, CellOK
<1>2. Moves(s, u, i, -1) => Shifts(s, u, i, 0)
  BY <1>1, ZeroNoInode DEF Moves, Shifts
<1>3. Moves(s, t, k, 1) /\ Moves(t, u, i, -1) => Shifts(s, u, i, k)
  BY <1>1 DEF Moves, Shifts
<1>4. Keeps(s, u) => Shifts(s, u, i, i)
  BY <1>1 DEF Keeps, Shifts
<1>. QED BY <1>2, <1>3, <1>4

\* Steps before and after that keep the counts.
LEMMA ShiftKeeps ==
  ASSUME NEW s, NEW t, NEW u, NEW i, NEW k
  PROVE  /\ Keeps(s, t) /\ Shifts(t, u, i, k) => Shifts(s, u, i, k)
         /\ Shifts(s, t, i, k) /\ Keeps(t, u) => Shifts(s, u, i, k)
BY DEF Keeps, Shifts

\* The walk ends.
LEMMA StopKeeps ==
  ASSUME NEW s, Shape(s), NEW r
  PROVE  Keeps(s, Stop(s, r)) /\ Stop(s, r).ret.cur = r
<1> DEFINE v == [cur |-> r, done |-> TRUE]
           t == [s EXCEPT !.ret = v]
<1>1. Stop(s, r) = t /\ v.cur = r
  BY DEF Stop
<1> HIDE DEF v
<1>2. Keeps(s, t) /\ t.ret = v
  BY SetRest
<1> HIDE DEF t
<1>. QED BY <1>1, <1>2

\* namex goes on to the next inode and gives the one it leaves up.
LEMMA NamexNextShifts ==
  ASSUME NEW s, Shape(s), NEW c, NEW next, NEW t, t = NamexNext(s, c, next)
  PROVE  Shifts(s, t, c, t.ret.cur)
<1>1. CASE next = 0
  <2> DEFINE u == UnlockPut(s, c)
  <2>1. t = Stop(u, 0)
    BY <1>1 DEF NamexNext
  <2>2. Moves(s, u, c, -1)
    BY UnlockPutMoves DEF MovesRet
  <2> HIDE DEF u
  <2>3. Shape(u)
    BY <2>2 DEF Moves
  <2>4. Keeps(u, t) /\ t.ret.cur = 0
    BY <2>1, <2>3, StopKeeps
  <2>5. Shifts(s, u, c, 0)
    BY <2>2, ShiftTo
  <2>. QED BY <2>4, <2>5, ShiftKeeps
<1>2. CASE next # 0
  <2> DEFINE g == InodeGet(s, next)
             u == UnlockPut(g, c)
             v == [cur |-> next, done |-> FALSE]
  <2>1. t = Return(u, v) /\ v.cur = next
    BY <1>2 DEF NamexNext
  <2>2. Moves(s, g, next, 1)
    BY InodeGetMoves DEF MovesRet
  <2> HIDE DEF g, v
  <2>3. Shape(g)
    BY <2>2 DEF Moves
  <2>4. Moves(g, u, c, -1)
    BY <2>3, UnlockPutMoves DEF MovesRet
  <2> HIDE DEF u
  <2>5. Shape(u)
    BY <2>4 DEF Moves
  <2>6. Shifts(s, u, c, next)
    BY <2>2, <2>4, ShiftTo
  <2>7. Keeps(u, t) /\ t.ret.cur = next
    BY <2>1, <2>5, ReturnKeeps
  <2>. QED BY <2>6, <2>7, ShiftKeeps
<1>. QED BY <1>1, <1>2

\* namex, one element of the path.
LEMMA NamexStepShifts ==
  ASSUME NEW s, Shape(s), NEW c, NEW name, NEW last, NEW t, t = NamexStep(s, c, name, last)
  PROVE  Shifts(s, t, c, t.ret.cur)
<1> DEFINE l == Lock(s, c)
           n == Lookup(l, c, name)
<1>1. \/ t = l /\ l.bad # "ok"
      \/ t = Stop(UnlockPut(l, c), 0)
      \/ t = Stop(Unlock(l, c), c)
      \/ t = NamexNext(l, c, n)
  BY DEF NamexStep, Then
<1>2. Keeps(s, l)
  BY LockKeeps DEF KeepsRet
<1> HIDE DEF l, n
<1>3. Shape(l)
  BY <1>2 DEF Keeps
<1>4. CASE t = Stop(UnlockPut(l, c), 0)
  <2> DEFINE u == UnlockPut(l, c)
  <2>2. Moves(l, u, c, -1)
    BY <1>3, UnlockPutMoves DEF MovesRet
  <2>1. t = Stop(u, 0)
    BY <1>4
  <2> HIDE DEF u
  <2>3. Shape(u)
    BY <2>2 DEF Moves
  <2>4. Keeps(u, t) /\ t.ret.cur = 0
    BY <2>1, <2>3, StopKeeps
  <2>5. Shifts(l, u, c, 0)
    BY <1>3, <2>2, ShiftTo
  <2>. QED BY <1>2, <2>4, <2>5, ShiftKeeps
<1>5. CASE t = Stop(Unlock(l, c), c)
  <2> DEFINE u == Unlock(l, c)
  <2>2. Keeps(l, u)
    BY <1>3, LockKeeps DEF KeepsRet
  <2>1. t = Stop(u, c)
    BY <1>5
  <2> HIDE DEF u
  <2>3. Shape(u)
    BY <2>2 DEF Keeps
  <2>4. Keeps(u, t) /\ t.ret.cur = c
    BY <2>1, <2>3, StopKeeps
  <2>5. Keeps(s, t)
    BY <1>2, <2>2, <2>4, KeepsChain
  <2>6. Shifts(s, t, c, c)
    BY <2>5, ShiftTo
  <2>. QED BY <2>4, <2>6
<1>6. CASE t = NamexNext(l, c, n)
  BY <1>2, <1>3, <1>6, NamexNextShifts, ShiftKeeps
<1>7. CASE t = l /\ l.bad # "ok"
  BY <1>3, <1>7 DEF Shifts
<1>. QED BY <1>1, <1>4, <1>5, <1>6, <1>7

\* The walk so far has one reference, at the inode it is at.
LEMMA NamexStartMoves ==
  ASSUME NEW s, Shape(s), NEW c, NEW path, NEW t, t = NamexStart(s, c, path)
  PROVE  Moves(s, t, t.ret.cur, 1)
<1> DEFINE i == IF path.abs THEN RootNo ELSE c
           u == IF path.abs THEN InodeGet(s, RootNo) ELSE InodeShare(s, c)
           v == [cur |-> i, done |-> FALSE]
<1>1. t = Return(u, v) /\ v.cur = i
  BY DEF NamexStart
<1>2. Moves(s, u, i, 1)
  BY InodeGetMoves DEF MovesRet
<1> HIDE DEF i, u, v
<1>3. Shape(u)
  BY <1>2 DEF Moves
<1>4. Keeps(u, t) /\ t.ret.cur = i
  BY <1>1, <1>3, ReturnKeeps
<1>. QED BY <1>2, <1>4, KeepsTrans

\* namex, one turn of its loop: one reference is held, where the walk is.
LEMMA NamexWalkMoves ==
  ASSUME NEW s, Shape(s), NEW t, Moves(s, t, t.ret.cur, 1), NEW name, NEW last,
         NEW u, u = NamexWalk(t, name, last)
  PROVE  Moves(s, u, u.ret.cur, 1)
<1>1. u = t \/ u = NamexStep(t, t.ret.cur, name, last)
  BY DEF NamexWalk, Then
<1>2. Shape(t)
  BY DEF Moves
<1>3. CASE u = NamexStep(t, t.ret.cur, name, last)
  <2>1. Shifts(t, u, t.ret.cur, u.ret.cur)
    BY <1>2, <1>3, NamexStepShifts
  <2>. QED BY <2>1, ShiftMoved
<1>. QED BY <1>1, <1>3

\* The elements of a path, one after the other.
LEMMA NamexLoopIs ==
  ASSUME NEW s, NEW c, NEW path, NEW parent, Len(path.elems) \in Nat
  PROVE  LET w == NamexLoop(s, c, path, parent)
         IN  w[0] = NamexStart(s, c, path) /\ \A k \in 1..Len(path.elems) : w[k] = NamexWalk(w[k - 1], path.elems[k], parent /\ k = Len(path.elems))
<1> DEFINE N == Len(path.elems)
           St(p, k) == NamexWalk(p, path.elems[k], parent /\ k = Len(path.elems))
           Def(m, f) == [k \in 0..m |-> IF k = 0 THEN NamexStart(s, c, path) ELSE St(f[k - 1], k)]
<1>0. N \in Nat
  OBVIOUS
<1> HIDE DEF N
<1>1. ASSUME NEW m \in Nat PROVE \E g : g = Def(m, g)
  <2> DEFINE T == {k \in Nat : ~\E g : g = Def(k, g)}
  <2>1. SUFFICES ASSUME T # {} PROVE FALSE
    OBVIOUS
  <2>2. PICK k \in T : \A y \in T : k <= y
    <3>1. T \in SUBSET Nat
      OBVIOUS
    <3>. QED BY <3>1, <2>1, NatMin
  <2>3. k # 0
    <3> DEFINE g == [x \in 0..0 |-> NamexStart(s, c, path)]
    <3>1. ASSUME NEW x \in 0..0 PROVE g[x] = Def(0, g)[x]
      OBVIOUS
    <3>2. g = Def(0, g)
      BY <3>1
    <3>. QED BY <3>2
  <2>t. T \subseteq Nat
    OBVIOUS
  <2>4. k - 1 \in Nat /\ k - 1 \notin T
    <3> HIDE DEF T
    <3>. QED BY <2>2, <2>3, <2>t
  <2>5. PICK g : g = Def(k - 1, g)
    BY <2>4
  <2> DEFINE h == [x \in 0..k |-> IF x = k THEN St(g[k - 1], k) ELSE g[x]]
  <2>6. h = Def(k, h)
    <3>1. ASSUME NEW x \in 0..k PROVE h[x] = Def(k, h)[x]
      <4>1. CASE x = k
        BY <4>1, <2>3, <2>4
      <4>2. CASE x # k
        <5>1. x \in 0..(k - 1) /\ h[x] = g[x] /\ (x # 0 => x - 1 \in 0..(k - 1) /\ h[x - 1] = g[x - 1])
          BY <4>2, <2>4
        <5>2. g[x] = Def(k - 1, g)[x]
          BY <2>5
        <5>. QED BY <5>1, <5>2
      <4>. QED BY <4>1, <4>2
    <3>. QED BY <3>1
  <2>. QED BY <2>2, <2>6
<1>2. PICK g : g = Def(N, g)
  BY <1>0, <1>1
<1> DEFINE w == NamexLoop(s, c, path, parent)
<1>3. w = Def(N, w)
  BY <1>2 DEF NamexLoop, N
<1> HIDE DEF w
<1>4. w[0] = NamexStart(s, c, path)
  <2>1. w[0] = Def(N, w)[0]
    BY <1>3
  <2>. QED BY <2>1, <1>0
<1>5. ASSUME NEW k \in 1..N PROVE w[k] = NamexWalk(w[k - 1], path.elems[k], parent /\ k = Len(path.elems))
  <2>1. w[k] = Def(N, w)[k]
    BY <1>3
  <2>. QED BY <2>1, <1>0
<1>. QED BY <1>4, <1>5 DEF w, N

\* namex: the inode it returns is referenced once more, and no other count changes.
LEMMA NamexMoves ==
  ASSUME NEW s, Shape(s), NEW c, NEW path, Len(path.elems) \in Nat, NEW parent,
         NEW r, r = Namex(s, c, path, parent)
  PROVE  Moves(s, r, r.ret, 1)
<1> DEFINE N == Len(path.elems)
           w == NamexLoop(s, c, path, parent)
           t == w[N]
<1>1. w[0] = NamexStart(s, c, path) /\ \A k \in 1..N : w[k] = NamexWalk(w[k - 1], path.elems[k], parent /\ k = N)
  BY NamexLoopIs
<1>2. N \in Nat
  OBVIOUS
<1>3. r = IF t.bad = "ok" THEN NamexEnd(t, parent) ELSE t
  BY DEF Namex, Then
<1> HIDE DEF N, w
<1> DEFINE T == {k \in 0..N : ~Moves(s, w[k], w[k].ret.cur, 1)}
<1>4. ASSUME T # {} PROVE FALSE
  <2>1. PICK k \in T : \A y \in T : k <= y
    <3>1. T \in SUBSET Nat
      OBVIOUS
    <3>. QED BY <3>1, <1>4, NatMin
  <2>2. k # 0
    BY <1>1, NamexStartMoves
  <2>3. k \in 1..N /\ k - 1 \in 0..N /\ k - 1 \notin T
    BY <2>1, <2>2, <1>2
  <2>4. Moves(s, w[k - 1], w[k - 1].ret.cur, 1)
    BY <2>3
  <2>5. Moves(s, w[k], w[k].ret.cur, 1)
    BY <2>3, <2>4, <1>1, NamexWalkMoves
  <2>. QED BY <2>1, <2>5
<1>5. Moves(s, t, t.ret.cur, 1)
  BY <1>2, <1>4
<1> HIDE DEF t
<1>6. Shape(t)
  BY <1>5 DEF Moves
<1> DEFINE i == t.ret.cur
           p == InodePut(t, i)
<1>7. CASE t.bad = "ok" /\ parent /\ ~t.ret.done
  <2>1. r = Return(p, 0)
    BY <1>3, <1>7 DEF NamexEnd
  <2>2. Moves(t, p, i, -1)
    BY <1>6, InodePutMoves DEF MovesRet
  <2>3. Shifts(t, p, i, 0)
    BY <1>6, <2>2, ShiftTo
  <2> HIDE DEF i, p
  <2>4. Moves(s, p, 0, 1)
    BY <1>5, <2>3, ShiftMoved DEF i
  <2>5. Shape(p)
    BY <2>4 DEF Moves
  <2>6. Keeps(p, r) /\ r.ret = 0
    BY <2>1, <2>5, ReturnKeeps
  <2>. QED BY <2>4, <2>6, KeepsTrans
<1>8. CASE t.bad = "ok" /\ ~(parent /\ ~t.ret.done)
  <2>1. r = Return(t, i)
    BY <1>3, <1>8 DEF NamexEnd
  <2>2. Keeps(t, r) /\ r.ret = i
    BY <2>1, <1>6, ReturnKeeps
  <2>. QED BY <1>5, <2>2, KeepsTrans
<1>9. CASE t.bad # "ok"
  BY <1>3, <1>6, <1>9 DEF Moves
<1>. QED BY <1>7, <1>8, <1>9

-----------------------------------------------------------------------------
(* create, and the calls over it. *)

\* A failure is a step of any kind.
LEMMA FailedAny ==
  ASSUME NEW s, NEW t, Shape(t), t.bad # "ok"
  PROVE  Keeps(s, t) /\ \A i, k : Moves(s, t, i, k) /\ Shifts(s, t, i, k)
BY DEF Keeps, Moves, Shifts

\* A reference moved from i to k and was given up there.
LEMMA ShiftBack ==
  ASSUME NEW s, Shape(s), NEW t, NEW u, NEW i, NEW k, Shifts(s, t, i, k), Moves(t, u, k, -1)
  PROVE  Shifts(s, u, i, 0)
<1>1. \A j \in Inos : s.ic[j].rc \in Int
  BY DEF Shape, IcOK, CellOK
<1>. QED BY <1>1, ZeroNoInode DEF Moves, Shifts

\* create of a name that exists: the reference on the parent becomes one on what is
\* returned, or is given back.
LEMMA CreateExistingShifts ==
  ASSUME NEW s, Shape(s), NEW dp, NEW ip, NEW type, NEW r, r = CreateExisting(s, dp, ip, type)
  PROVE  Shifts(s, r, dp, r.ret)
<1> DEFINE a == InodeGet(s, ip)
           b == UnlockPut(a, dp)
           l == Lock(b, ip)
           u == UnlockPut(l, ip)
<1>1. \/ r = b /\ b.bad # "ok"
      \/ r = l /\ l.bad # "ok"
      \/ r = Return(l, ip)
      \/ r = Return(u, 0)
  BY DEF CreateExisting, Then
<1>2. Moves(s, a, ip, 1)
  BY InodeGetMoves DEF MovesRet
<1> HIDE DEF a
<1>3. Shape(a)
  BY <1>2 DEF Moves
<1>4. Moves(a, b, dp, -1)
  BY <1>3, UnlockPutMoves DEF MovesRet
<1> HIDE DEF b
<1>5. Shifts(s, b, dp, ip) /\ Shape(b)
  BY <1>2, <1>4, ShiftTo DEF Moves
<1>6. Keeps(b, l)
  BY <1>5, LockKeeps DEF KeepsRet
<1> HIDE DEF l
<1>7. Shifts(s, l, dp, ip) /\ Shape(l)
  BY <1>5, <1>6, ShiftKeeps DEF Keeps
<1>8. Moves(l, u, ip, -1)
  BY <1>7, UnlockPutMoves DEF MovesRet
<1> HIDE DEF u
<1>9. Shifts(s, u, dp, 0) /\ Shape(u)
  BY <1>7, <1>8, ShiftBack DEF Moves
<1>10. CASE r = Return(l, ip)
  <2>1. Keeps(l, r) /\ r.ret = ip
    BY <1>7, <1>10, ReturnKeeps
  <2>. QED BY <2>1, <1>7, ShiftKeeps
<1>11. CASE r = Return(u, 0)
  <2>1. Keeps(u, r) /\ r.ret = 0
    BY <1>9, <1>11, ReturnKeeps
  <2>. QED BY <2>1, <1>9, ShiftKeeps
<1>12. CASE r.bad # "ok" /\ Shape(r)
  BY <1>12, FailedAny
<1>. QED BY <1>1, <1>5, <1>7, <1>10, <1>11, <1>12

\* The link count of an inode is changed, and the inode synced.
LEMMA LinksSync ==
  ASSUME NEW s, Shape(s), NEW i, NEW n
  PROVE  KeepsRet(s, InodeSync([s EXCEPT !.ic[i].entry.links = n], i))
<1> DEFINE x == [s.ic[i].entry EXCEPT !.links = n]
<1>1. [s EXCEPT !.ic[i].entry.links = n] = [s EXCEPT !.ic[i].entry = x]
  OBVIOUS
<1> HIDE DEF x
<1>2. KeepsRet(s, InodeSync([s EXCEPT !.ic[i].entry = x], i))
  BY EntrySync
<1>. QED BY <1>1, <1>2

\* create, where it inserts . and .. into a new directory.
LEMMA MakeDotsKeeps ==
  ASSUME NEW s, Shape(s), NEW dp, NEW ip
  PROVE  Keeps(s, MakeDots(s, dp, ip))
<1> DEFINE n == s.ic[dp].entry.links + 1
           a == InodeSync([s EXCEPT !.ic[dp].entry.links = n], dp)
           b == Insert(a, ip, ".", ip)
           c == Insert(b, ip, "..", dp)
           r == MakeDots(s, dp, ip)
<1>1. r = a \/ r = b \/ r = c
  BY DEF MakeDots, Then
<1> HIDE DEF n, r
<1>2. Keeps(s, a)
  BY LinksSync DEF KeepsRet
<1> HIDE DEF a
<1>3. Keeps(a, b)
  BY <1>2, InsertKeeps DEF Keeps
<1> HIDE DEF b
<1>4. Keeps(b, c)
  BY <1>3, InsertKeeps DEF Keeps
<1> HIDE DEF c
<1>5. Keeps(s, b)
  BY <1>2, <1>3, KeepsChain
<1>6. Keeps(s, c)
  BY <1>4, <1>5, KeepsChain
<1>. QED BY <1>1, <1>2, <1>5, <1>6 DEF r

\* create of a new inode: the reference on the parent becomes one on the new inode.
LEMMA CreateNewShifts ==
  ASSUME NEW s, Shape(s), NEW dp, NEW name, NEW ip, NEW type, NEW r, r = CreateNew(s, dp, name, ip, type)
  PROVE  Shifts(s, r, dp, r.ret)
<1> DEFINE g == InodeGet(s, ip)
           t == Lock(g, ip)
           u == InodeSync([t EXCEPT !.ic[ip].entry.links = 1], ip)
           v == IF type = "dir" THEN MakeDots(u, dp, ip) ELSE u
           w == Insert(v, dp, name, ip)
           x == UnlockPut(w, dp)
<1>1. \/ \E y \in {t, u, v, w} : r = y /\ y.bad # "ok"
      \/ r = Return(x, ip)
  BY DEF CreateNew, Then
<1>2. Moves(s, g, ip, 1)
  BY InodeGetMoves DEF MovesRet
<1> HIDE DEF g
<1>3. Shape(g)
  BY <1>2 DEF Moves
<1>4. Keeps(g, t)
  BY <1>3, LockKeeps DEF KeepsRet
<1> HIDE DEF t
<1>5. Shape(t)
  BY <1>4 DEF Keeps
<1>6. Keeps(t, u)
  BY <1>5, LinksSync DEF KeepsRet
<1> HIDE DEF u
<1>7. Shape(u)
  BY <1>6 DEF Keeps
<1>8. Keeps(u, v)
  BY <1>7, MakeDotsKeeps, KeepsSelf
<1> HIDE DEF v
<1>9. Shape(v)
  BY <1>8 DEF Keeps
<1>10. Keeps(v, w)
  BY <1>9, InsertKeeps
<1> HIDE DEF w
<1>11. Shape(w)
  BY <1>10 DEF Keeps
<1>12. Moves(w, x, dp, -1)
  BY <1>11, UnlockPutMoves DEF MovesRet
<1> HIDE DEF x
<1>13. Moves(s, w, ip, 1)
  <2>1. Keeps(g, u)
    BY <1>4, <1>6, KeepsChain
  <2>2. Keeps(g, v)
    BY <2>1, <1>8, KeepsChain
  <2>3. Keeps(g, w)
    BY <2>2, <1>10, KeepsChain
  <2>. QED BY <2>3, <1>2, KeepsTrans
<1>14. Shifts(s, x, dp, ip) /\ Shape(x)
  BY <1>12, <1>13, ShiftTo DEF Moves
<1>15. CASE r = Return(x, ip)
  <2>1. Keeps(x, r) /\ r.ret = ip
    BY <1>14, <1>15, ReturnKeeps
  <2>. QED BY <2>1, <1>14, ShiftKeeps
<1>16. CASE \E y \in {t, u, v, w} : r = y /\ y.bad # "ok"
  <2>1. Shape(r) /\ r.bad # "ok"
    BY <1>16, <1>5, <1>7, <1>9, <1>11
  <2>. QED BY <2>1, FailedAny
<1>. QED BY <1>1, <1>15, <1>16

\* create returns an inode with one more reference, or 0.
LEMMA CreateMoves ==
  ASSUME NEW s, Shape(s), NEW p, NEW path, Len(path.elems) \in Nat, NEW type,
         NEW r, r = Create(s, p, path, type)
  PROVE  Moves(s, r, r.ret, 1)
<1> DEFINE t == Namex(s, cwd[p], path, TRUE)
           name == Last(path.elems)
           ip == Lookup(t, t.ret, name)
           u == InodeAlloc(t, type)
<1>1. \/ r = t /\ (t.bad # "ok" \/ t.ret = 0)
      \/ r = CreateExisting(t, t.ret, ip, type)
      \/ r = u /\ u.bad # "ok"
      \/ r = CreateNew(u, t.ret, name, u.ret, type)
  BY DEF Create, Then
<1>2. Moves(s, t, t.ret, 1)
  BY NamexMoves
<1> HIDE DEF t, name, ip
<1>3. Shape(t)
  BY <1>2 DEF Moves
<1>4. Keeps(t, u)
  BY <1>3, InodeAllocKeeps
<1> HIDE DEF u
<1>5. Shape(u)
  BY <1>4 DEF Keeps
<1>6. CASE r = CreateExisting(t, t.ret, ip, type)
  <2>1. Shifts(t, r, t.ret, r.ret)
    BY <1>3, <1>6, CreateExistingShifts
  <2>. QED BY <2>1, <1>2, ShiftMoved
<1>7. CASE r = CreateNew(u, t.ret, name, u.ret, type)
  <2>1. Shifts(u, r, t.ret, r.ret)
    BY <1>5, <1>7, CreateNewShifts
  <2>2. Shifts(t, r, t.ret, r.ret)
    BY <2>1, <1>4, ShiftKeeps
  <2>. QED BY <2>2, <1>2, ShiftMoved
<1>8. CASE r = u /\ u.bad # "ok"
  BY <1>5, <1>8, FailedAny
<1>. QED BY <1>1, <1>2, <1>6, <1>7, <1>8

\* openat, up to the file.
LEMMA OpenInodeMoves ==
  ASSUME NEW s, Shape(s), NEW p, NEW path, Len(path.elems) \in Nat, NEW create,
         NEW r, r = OpenInode(s, p, path, create)
  PROVE  Moves(s, r, r.ret, 1)
<1> DEFINE t == Namex(s, cwd[p], path, FALSE)
<1>1. r = Create(s, p, path, "file") \/ r = t \/ r = Lock(t, t.ret)
  BY DEF OpenInode, Then
<1>2. Moves(s, t, t.ret, 1)
  BY NamexMoves
<1> HIDE DEF t
<1>3. Shape(t)
  BY <1>2 DEF Moves
<1>4. CASE r = Lock(t, t.ret)
  <2>1. Keeps(t, r) /\ r.ret = t.ret
    BY <1>3, <1>4, LockKeeps DEF KeepsRet
  <2>. QED BY <2>1, <1>2, KeepsTrans
<1>5. CASE r = Create(s, p, path, "file")
  BY <1>5, CreateMoves
<1>. QED BY <1>1, <1>2, <1>4, <1>5

\* A reference that moved to no inode is given up.
LEMMA ShiftGone ==
  ASSUME NEW s, Shape(s), NEW t, NEW i, Shifts(s, t, i, 0)
  PROVE  Moves(s, t, i, -1)
<1>1. \A j \in Inos : s.ic[j].rc \in Int
  BY DEF Shape, IcOK, CellOK
<1>. QED BY <1>1, ZeroNoInode DEF Moves, Shifts

\* A reference is taken and given up.
LEMMA MovesBack ==
  ASSUME NEW s, Shape(s), NEW t, NEW u, NEW i, Moves(s, t, i, 1), Moves(t, u, i, -1)
  PROVE  Keeps(s, u)
<1>1. \A j \in Inos : s.ic[j].rc \in Int
  BY DEF Shape, IcOK, CellOK
<1>. QED BY <1>1 DEF Moves, Keeps

\* unlinkat of an entry: the references on both inodes are given back.
LEMMA UnlinkEntryMoves ==
  ASSUME NEW s, Shape(s), NEW t, NEW dp, NEW ip, NEW o, NEW r,
         Moves(s, t, ip, 1), r = UnlinkEntry(t, dp, ip, o)
  PROVE  Moves(s, r, dp, -1)
<1> DEFINE a == InodeWrite(t, dp, o, <<Zero>>)
           n == a.ic[dp].entry.links - 1
           b == IF a.ic[ip].entry.type = "dir" THEN InodeSync([a EXCEPT !.ic[dp].entry.links = n], dp) ELSE a
           c == UnlockPut(b, dp)
           m == c.ic[ip].entry.links - 1
           d == InodeSync([c EXCEPT !.ic[ip].entry.links = m], ip)
           e == UnlockPut(d, ip)
<1>1. (\E y \in {a, b, c, d} : r = y /\ y.bad # "ok") \/ r = e
  BY DEF UnlinkEntry, Then
<1>2. Shape(t)
  BY DEF Moves
<1>3. Keeps(t, a)
  BY <1>2, InodeWriteKeeps
<1> HIDE DEF a, n
<1>4. Shape(a)
  BY <1>3 DEF Keeps
<1>5. Keeps(a, b)
  <2>1. Keeps(a, InodeSync([a EXCEPT !.ic[dp].entry.links = n], dp))
    BY <1>4, LinksSync DEF KeepsRet
  <2>. QED BY <2>1, <1>4, KeepsSelf
<1> HIDE DEF b
<1>6. Shape(b)
  BY <1>5 DEF Keeps
<1>7. Moves(b, c, dp, -1)
  BY <1>6, UnlockPutMoves DEF MovesRet
<1> HIDE DEF c, m
<1>8. Shape(c)
  BY <1>7 DEF Moves
<1>9. Keeps(c, d)
  BY <1>8, LinksSync DEF KeepsRet
<1> HIDE DEF d
<1>10. Shape(d)
  BY <1>9 DEF Keeps
<1>11. Moves(d, e, ip, -1)
  BY <1>10, UnlockPutMoves DEF MovesRet
<1> HIDE DEF e
<1>12. Moves(s, b, ip, 1)
  <2>1. Keeps(t, b)
    BY <1>3, <1>5, KeepsChain
  <2>. QED BY <2>1, KeepsTrans
<1>13. Shifts(s, c, dp, ip)
  BY <1>7, <1>12, ShiftTo
<1>14. Shifts(s, d, dp, ip)
  BY <1>9, <1>13, ShiftKeeps
<1>15. Shifts(s, e, dp, 0)
  BY <1>11, <1>14, ShiftBack
<1>16. Moves(s, e, dp, -1)
  BY <1>15, ShiftGone
<1>17. CASE \E y \in {a, b, c, d} : r = y /\ y.bad # "ok"
  <2>1. Shape(r) /\ r.bad # "ok"
    BY <1>17, <1>4, <1>6, <1>8, <1>10
  <2>. QED BY <2>1, FailedAny
<1>. QED BY <1>1, <1>16, <1>17

\* sys_unlinkat from where it has found the entry: the parent is given up, and the
\* file is taken by inode_get and given up again.
LEMMA UnlinkFoundMoves ==
  ASSUME NEW s, Shape(s), NEW dp, NEW ip, NEW o, NEW r, r = UnlinkFound(s, dp, ip, o)
  PROVE  Moves(s, r, dp, -1)
<1> DEFINE g == InodeGet(s, ip)
           t == Lock(g, ip)
           a == UnlockPut(t, ip)
           b == UnlockPut(a, dp)
<1>1. \/ r = t /\ t.bad # "ok"
      \/ r = Fail(t, "links")
      \/ r = a /\ a.bad # "ok"
      \/ r = b
      \/ r = UnlinkEntry(t, dp, ip, o)
  BY DEF UnlinkFound, Then
<1>2. Moves(s, g, ip, 1)
  BY InodeGetMoves DEF MovesRet
<1> HIDE DEF g
<1>3. Shape(g)
  BY <1>2 DEF Moves
<1>4. Keeps(g, t)
  BY <1>3, LockKeeps DEF KeepsRet
<1> HIDE DEF t
<1>5. Moves(s, t, ip, 1) /\ Shape(t)
  BY <1>2, <1>4, KeepsTrans DEF Keeps
<1>6. Moves(t, a, ip, -1)
  BY <1>5, UnlockPutMoves DEF MovesRet
<1> HIDE DEF a
<1>7. Shape(a)
  BY <1>6 DEF Moves
<1>8. Moves(a, b, dp, -1)
  BY <1>7, UnlockPutMoves DEF MovesRet
<1> HIDE DEF b
<1>9. Keeps(s, a)
  BY <1>5, <1>6, MovesBack
<1>10. Moves(s, b, dp, -1)
  BY <1>8, <1>9, MovesAfter
<1>11. CASE r = UnlinkEntry(t, dp, ip, o)
  BY <1>5, <1>11, UnlinkEntryMoves
<1>12. CASE r = Fail(t, "links")
  <2>1. Keeps(t, r) /\ r.bad # "ok"
    BY <1>5, <1>12, FailKeeps
  <2>2. Shape(r)
    BY <2>1 DEF Keeps
  <2>. QED BY <2>1, <2>2, FailedAny
<1>13. CASE r.bad # "ok" /\ Shape(r)
  BY <1>13, FailedAny
<1>. QED BY <1>1, <1>5, <1>7, <1>10, <1>11, <1>12, <1>13

\* unlinkat gives back the reference on the parent.
LEMMA UnlinkMoves ==
  ASSUME NEW s, Shape(s), NEW dp, NEW name, NEW r, r = Unlink(s, dp, name)
  PROVE  Moves(s, r, dp, -1)
<1> DEFINE l == Lock(s, dp)
           ip == Lookup(l, dp, name)
           o == Min(Matches(l, dp, name))
<1>1. \/ r = l /\ l.bad # "ok"
      \/ r = UnlockPut(l, dp)
      \/ r = UnlinkFound(l, dp, ip, o)
  BY DEF Unlink, Then
<1>2. Keeps(s, l)
  BY LockKeeps DEF KeepsRet
<1> HIDE DEF l, ip, o
<1>3. Shape(l)
  BY <1>2 DEF Keeps
<1>4. CASE r = UnlockPut(l, dp)
  <2>1. Moves(l, r, dp, -1)
    BY <1>3, <1>4, UnlockPutMoves DEF MovesRet
  <2>. QED BY <2>1, <1>2, MovesAfter
<1>5. CASE r = UnlinkFound(l, dp, ip, o)
  <2>1. Moves(l, r, dp, -1)
    BY <1>3, <1>5, UnlinkFoundMoves
  <2>. QED BY <2>1, <1>2, MovesAfter
<1>6. CASE r = l /\ l.bad # "ok"
  BY <1>3, <1>6, FailedAny
<1>. QED BY <1>1, <1>4, <1>5, <1>6

\* file_read.
LEMMA FileReadKeeps ==
  ASSUME NEW s, Shape(s), NEW f, NEW n, NEW r, r = FileRead(s, f, n)
  PROVE  Keeps(s, r)
<1> DEFINE i == f.ip
           t == Lock(s, i)
           m == Min({n, MaxBytes - f.off})
           x == InodeRead(t, i, f.off, n)
           v == IF IsDev(t, i) THEN Return(t, m) ELSE IF x.bad = "ok" THEN Return(x, Len(x.ret)) ELSE x
           u == Unlock(v, i)
<1>1. r = t \/ r = v \/ r = u
  BY DEF FileRead, Then
<1>2. Keeps(s, t)
  BY LockKeeps DEF KeepsRet
<1> HIDE DEF t, m
<1>3. Shape(t)
  BY <1>2 DEF Keeps
<1>4. Keeps(t, x)
  BY <1>3, InodeReadKeeps
<1> HIDE DEF x
<1>5. Shape(x)
  BY <1>4 DEF Keeps
<1>6. Keeps(t, Return(t, m)) /\ Keeps(x, Return(x, Len(x.ret)))
  BY <1>3, <1>5, ReturnKeeps
<1>7. Keeps(t, v)
  BY <1>4, <1>6, KeepsChain
<1> HIDE DEF v
<1>8. Keeps(s, v) /\ Shape(v)
  BY <1>2, <1>7, KeepsChain DEF Keeps
<1>9. Keeps(v, u)
  BY <1>8, LockKeeps DEF KeepsRet
<1> HIDE DEF u
<1>. QED BY <1>1, <1>2, <1>8, <1>9, KeepsChain

\* file_stat.
LEMMA FileStatKeeps ==
  ASSUME NEW s, Shape(s), NEW i, NEW r, r = FileStat(s, i)
  PROVE  KeepsRet(s, r)
<1> DEFINE t == Lock(s, i)
           u == Stati(t, i)
           v == Unlock(u, i)
<1>1. r = t \/ r = u \/ r = v
  BY DEF FileStat, Then
<1>2. KeepsRet(s, t)
  BY LockKeeps
<1> HIDE DEF t
<1>3. Shape(t)
  BY <1>2 DEF KeepsRet, Keeps
<1>4. KeepsRet(t, u)
  <2>1. u = t \/ u = Fail(t, "stat")
    BY DEF Stati
  <2>2. KeepsRet(t, t) /\ KeepsRet(t, Fail(t, "stat"))
    BY <1>3, KeepsSelf, FailKeeps DEF KeepsRet
  <2>. QED BY <2>1, <2>2
<1> HIDE DEF u
<1>5. KeepsRet(s, u)
  BY <1>2, <1>4, RetTrans
<1>6. Shape(u)
  BY <1>5 DEF KeepsRet, Keeps
<1>7. KeepsRet(u, v)
  BY <1>6, LockKeeps
<1> HIDE DEF v
<1>8. KeepsRet(s, v)
  BY <1>5, <1>7, RetTrans
<1>. QED BY <1>1, <1>2, <1>5, <1>8

-----------------------------------------------------------------------------
(* Atomic operations. *)

\* cache_begin_op.
LEMMA BeginOpKeeps ==
  ASSUME NEW s, Shape(s)
  PROVE  Keeps(s, BeginOp(s))
<1> DEFINE a == [s EXCEPT !.ctx = TRUE]
           b == [a EXCEPT !.log = {}]
<1>1. BeginOp(s) = b
  BY DEF BeginOp
<1>2. Keeps(s, a)
  BY SetRest
<1> HIDE DEF a
<1>3. Shape(a)
  BY <1>2 DEF Keeps
<1>4. Keeps(a, b)
  BY <1>3, SetRest
<1> HIDE DEF b
<1>. QED BY <1>1, <1>2, <1>4, KeepsChain

\* cache_end_op.
LEMMA EndOpKeeps ==
  ASSUME NEW s, Shape(s)
  PROVE  Keeps(s, EndOp(s))
<1> DEFINE a == [s EXCEPT !.ctx = FALSE]
           b == [a EXCEPT !.log = {}]
           c == [b EXCEPT !.ret = 0]
<1>1. EndOp(s) = c
  BY DEF EndOp
<1>2. Keeps(s, a)
  BY SetRest
<1> HIDE DEF a
<1>3. Shape(a)
  BY <1>2 DEF Keeps
<1>4. Keeps(a, b)
  BY <1>3, SetRest
<1> HIDE DEF b
<1>5. Keeps(s, b) /\ Shape(b)
  BY <1>2, <1>4, KeepsChain DEF Keeps
<1>6. Keeps(b, c)
  BY <1>5, SetRest
<1> HIDE DEF c
<1>. QED BY <1>1, <1>5, <1>6, KeepsChain

\* An atomic operation counts as what it does.
LEMMA OpMoves ==
  ASSUME NEW s, Shape(s), NEW t, Shape(t), NEW r, r = Op(s, t)
  PROVE  /\ Keeps(s, t) => Keeps(s, r)
         /\ \A i, d : Moves(s, t, i, d) => Moves(s, r, i, d)
         /\ r.bad = "ok" => t.bad = "ok"
<1>1. CASE t.bad = "ok"
  <2>1. r = EndOp(t)
    BY <1>1 DEF Op
  <2>2. Keeps(t, r)
    BY <2>1, EndOpKeeps
  <2>. QED BY <2>2, <1>1, KeepsTrans
<1>2. CASE t.bad # "ok"
  <2>1. r = Fail(s, t.bad)
    BY <1>2 DEF Op, Fail
  <2>2. r.bad # "ok" /\ Keeps(s, r)
    BY <2>1, <1>2, FailKeeps
  <2>3. Shape(r)
    BY <2>2 DEF Keeps
  <2>. QED BY <2>2, <2>3, FailedAny
<1>. QED BY <1>1, <1>2

\* One atomic operation of file_write.
LEMMA ChunkKeeps ==
  ASSUME NEW acc, Shape(acc.s), NEW ip, NEW len
  PROVE  Keeps(acc.s, NextChunk(acc, ip, len).s)
<1> DEFINE s == acc.s
           z == BeginOp(s)
           t == Lock(z, ip)
           src == [k \in 1..len |-> Datum(ip, acc.off + k - 1)]
           w == InodeWrite(t, ip, acc.off, src)
           u == IF IsDev(t, ip) THEN t ELSE w
           v == Unlock(u, ip)
           y == IF t.bad = "ok" THEN IF u.bad = "ok" THEN v ELSE u ELSE t
           r == NextChunk(acc, ip, len).s
<1>1. r = s \/ r = Op(s, y)
  BY DEF NextChunk, WriteChunk, Then
<1>2. Keeps(s, z)
  BY BeginOpKeeps
<1> HIDE DEF s, z, src, r
<1>3. Shape(z)
  BY <1>2 DEF Keeps
<1>4. Keeps(z, t)
  BY <1>3, LockKeeps DEF KeepsRet
<1> HIDE DEF t
<1>5. Keeps(s, t) /\ Shape(t)
  BY <1>2, <1>4, KeepsChain DEF Keeps
<1>6. Keeps(t, w)
  BY <1>5, InodeWriteKeeps
<1> HIDE DEF w
<1>7. Keeps(s, u)
  BY <1>5, <1>6, KeepsChain
<1> HIDE DEF u
<1>8. Shape(u)
  BY <1>7 DEF Keeps
<1>9. Keeps(u, v)
  BY <1>8, LockKeeps DEF KeepsRet
<1> HIDE DEF v
<1>10. Keeps(s, v)
  BY <1>7, <1>9, KeepsChain
<1>11. Keeps(s, y)
  BY <1>5, <1>7, <1>10
<1> HIDE DEF y
<1>12. Shape(y) /\ Shape(s)
  BY <1>11 DEF Keeps, s
<1>13. Keeps(s, Op(s, y))
  BY <1>11, <1>12, OpMoves
<1>14. Keeps(s, r)
  BY <1>1, <1>12, <1>13, KeepsSelf
<1>. QED BY <1>14 DEF r, s

\* The atomic operations of a file_write, one after the other.
LEMMA FileWriteLoopIs ==
  ASSUME NEW acc, NEW ip, NEW n, NEW top \in Nat
  PROVE  LET w == FileWriteLoop(acc, ip, n, top)
         IN  w[0] = acc /\ \A k \in 1..top : w[k] = NextChunk(w[k - 1], ip, Min({MaxChunk, n - (k - 1) * MaxChunk}))
<1> DEFINE N == top
           St(p, k) == NextChunk(p, ip, Min({MaxChunk, n - (k - 1) * MaxChunk}))
           Def(m, f) == [k \in 0..m |-> IF k = 0 THEN acc ELSE St(f[k - 1], k)]
<1>0. N \in Nat
  OBVIOUS
<1> HIDE DEF N
<1>1. ASSUME NEW m \in Nat PROVE \E g : g = Def(m, g)
  <2> DEFINE T == {k \in Nat : ~\E g : g = Def(k, g)}
  <2>1. SUFFICES ASSUME T # {} PROVE FALSE
    OBVIOUS
  <2>2. PICK k \in T : \A y \in T : k <= y
    <3>1. T \in SUBSET Nat
      OBVIOUS
    <3>. QED BY <3>1, <2>1, NatMin
  <2>3. k # 0
    <3> DEFINE g == [x \in 0..0 |-> acc]
    <3>1. ASSUME NEW x \in 0..0 PROVE g[x] = Def(0, g)[x]
      OBVIOUS
    <3>2. g = Def(0, g)
      BY <3>1
    <3>. QED BY <3>2
  <2>t. T \subseteq Nat
    OBVIOUS
  <2>4. k - 1 \in Nat /\ k - 1 \notin T
    <3> HIDE DEF T
    <3>. QED BY <2>2, <2>3, <2>t
  <2>5. PICK g : g = Def(k - 1, g)
    BY <2>4
  <2> DEFINE h == [x \in 0..k |-> IF x = k THEN St(g[k - 1], k) ELSE g[x]]
  <2>6. h = Def(k, h)
    <3>1. ASSUME NEW x \in 0..k PROVE h[x] = Def(k, h)[x]
      <4>1. CASE x = k
        BY <4>1, <2>3, <2>4
      <4>2. CASE x # k
        <5>1. x \in 0..(k - 1) /\ h[x] = g[x] /\ (x # 0 => x - 1 \in 0..(k - 1) /\ h[x - 1] = g[x - 1])
          BY <4>2, <2>4
        <5>2. g[x] = Def(k - 1, g)[x]
          BY <2>5
        <5>. QED BY <5>1, <5>2
      <4>. QED BY <4>1, <4>2
    <3>. QED BY <3>1
  <2>. QED BY <2>2, <2>6
<1>2. PICK g : g = Def(N, g)
  BY <1>0, <1>1
<1> DEFINE w == FileWriteLoop(acc, ip, n, top)
<1>3. w = Def(N, w)
  BY <1>2 DEF FileWriteLoop, N
<1> HIDE DEF w
<1>4. w[0] = acc
  <2>1. w[0] = Def(N, w)[0]
    BY <1>3
  <2>. QED BY <2>1, <1>0
<1>5. ASSUME NEW k \in 1..N PROVE w[k] = NextChunk(w[k - 1], ip, Min({MaxChunk, n - (k - 1) * MaxChunk}))
  <2>1. w[k] = Def(N, w)[k]
    BY <1>3
  <2>. QED BY <2>1, <1>0
<1>. QED BY <1>4, <1>5 DEF w, N

\* The buffers of a writev, one after the other.
LEMMA WriteBuffersIs ==
  ASSUME NEW acc, NEW ip, NEW ns, Len(ns) \in Nat
  PROVE  LET w == WriteBuffers(acc, ip, ns)
         IN  w[0] = acc /\ \A k \in 1..Len(ns) : w[k] = FileWrite(w[k - 1], ip, ns[k])
<1> DEFINE N == Len(ns)
           St(p, k) == FileWrite(p, ip, ns[k])
           Def(m, f) == [k \in 0..m |-> IF k = 0 THEN acc ELSE St(f[k - 1], k)]
<1>0. N \in Nat
  OBVIOUS
<1> HIDE DEF N
<1>1. ASSUME NEW m \in Nat PROVE \E g : g = Def(m, g)
  <2> DEFINE T == {k \in Nat : ~\E g : g = Def(k, g)}
  <2>1. SUFFICES ASSUME T # {} PROVE FALSE
    OBVIOUS
  <2>2. PICK k \in T : \A y \in T : k <= y
    <3>1. T \in SUBSET Nat
      OBVIOUS
    <3>. QED BY <3>1, <2>1, NatMin
  <2>3. k # 0
    <3> DEFINE g == [x \in 0..0 |-> acc]
    <3>1. ASSUME NEW x \in 0..0 PROVE g[x] = Def(0, g)[x]
      OBVIOUS
    <3>2. g = Def(0, g)
      BY <3>1
    <3>. QED BY <3>2
  <2>t. T \subseteq Nat
    OBVIOUS
  <2>4. k - 1 \in Nat /\ k - 1 \notin T
    <3> HIDE DEF T
    <3>. QED BY <2>2, <2>3, <2>t
  <2>5. PICK g : g = Def(k - 1, g)
    BY <2>4
  <2> DEFINE h == [x \in 0..k |-> IF x = k THEN St(g[k - 1], k) ELSE g[x]]
  <2>6. h = Def(k, h)
    <3>1. ASSUME NEW x \in 0..k PROVE h[x] = Def(k, h)[x]
      <4>1. CASE x = k
        BY <4>1, <2>3, <2>4
      <4>2. CASE x # k
        <5>1. x \in 0..(k - 1) /\ h[x] = g[x] /\ (x # 0 => x - 1 \in 0..(k - 1) /\ h[x - 1] = g[x - 1])
          BY <4>2, <2>4
        <5>2. g[x] = Def(k - 1, g)[x]
          BY <2>5
        <5>. QED BY <5>1, <5>2
      <4>. QED BY <4>1, <4>2
    <3>. QED BY <3>1
  <2>. QED BY <2>2, <2>6
<1>2. PICK g : g = Def(N, g)
  BY <1>0, <1>1
<1> DEFINE w == WriteBuffers(acc, ip, ns)
<1>3. w = Def(N, w)
  BY <1>2 DEF WriteBuffers, N
<1> HIDE DEF w
<1>4. w[0] = acc
  <2>1. w[0] = Def(N, w)[0]
    BY <1>3
  <2>. QED BY <2>1, <1>0
<1>5. ASSUME NEW k \in 1..N PROVE w[k] = FileWrite(w[k - 1], ip, ns[k])
  <2>1. w[k] = Def(N, w)[k]
    BY <1>3
  <2>. QED BY <2>1, <1>0
<1>. QED BY <1>4, <1>5 DEF w, N

\* One operation of file_write takes at least one unit.
LEMMA MaxChunkIs == MaxChunk \in Nat /\ MaxChunk > 0
<1>1. OpMax \in Nat /\ OpMax > 5 /\ BlockSize \in Nat /\ BlockSize > 0
  BY InodeAssumption, FileSysAssumption
<1> DEFINE h == (OpMax - 4) \div 2
<1>2. h \in Nat /\ h > 0
  BY <1>1
<1> HIDE DEF h
<1>3. h * BlockSize \in Nat /\ h * BlockSize > 0
  BY <1>1, <1>2
<1>. QED BY <1>3 DEF MaxChunk, h

\* file_write, and writev.
LEMMA FileWriteKeeps ==
  ASSUME NEW acc, Shape(acc.s), NEW ip, NEW n \in Nat
  PROVE  Keeps(acc.s, FileWrite(acc, ip, n).s)
<1> DEFINE m == (n + MaxChunk - 1) \div MaxChunk
           w == FileWriteLoop(acc, ip, n, m)
<1>1. MaxChunk \in Nat /\ MaxChunk > 0
  BY MaxChunkIs
<1>2. m \in Nat
  BY <1>1
<1>3. FileWrite(acc, ip, n) = w[m]
  BY DEF FileWrite
<1> HIDE DEF m
<1>4. w[0] = acc /\ \A k \in 1..m : w[k] = NextChunk(w[k - 1], ip, Min({MaxChunk, n - (k - 1) * MaxChunk}))
  BY <1>2, FileWriteLoopIs
<1> HIDE DEF w
<1> DEFINE T == {k \in 0..m : ~Keeps(acc.s, w[k].s)}
<1>5. ASSUME T # {} PROVE FALSE
  <2>1. PICK k \in T : \A y \in T : k <= y
    <3>1. T \in SUBSET Nat
      OBVIOUS
    <3>. QED BY <3>1, <1>5, NatMin
  <2>2. k # 0
    BY <1>4, KeepsSelf
  <2>3. k \in 1..m /\ k - 1 \in 0..m /\ k - 1 \notin T
    BY <2>1, <2>2, <1>2
  <2>4. Keeps(acc.s, w[k - 1].s)
    BY <2>3
  <2>5. Shape(w[k - 1].s)
    BY <2>4 DEF Keeps
  <2>6. Keeps(w[k - 1].s, w[k].s)
    BY <2>3, <2>5, <1>4, ChunkKeeps
  <2>7. Keeps(acc.s, w[k].s)
    BY <2>4, <2>6, KeepsChain
  <2>. QED BY <2>1, <2>7
<1>6. Keeps(acc.s, w[m].s)
  BY <1>2, <1>5
<1>. QED BY <1>3, <1>6

\* writev over all the buffers.
LEMMA WriteBuffersKeeps ==
  ASSUME NEW acc, Shape(acc.s), NEW ip, NEW ns \in Seq(Nat)
  PROVE  Keeps(acc.s, WriteBuffers(acc, ip, ns)[Len(ns)].s)
<1> DEFINE m == Len(ns)
           w == WriteBuffers(acc, ip, ns)
<1>1. m \in Nat /\ \A k \in 1..m : ns[k] \in Nat
  OBVIOUS
<1>2. w[0] = acc /\ \A k \in 1..m : w[k] = FileWrite(w[k - 1], ip, ns[k])
  BY <1>1, WriteBuffersIs
<1> HIDE DEF m, w
<1> DEFINE T == {k \in 0..m : ~Keeps(acc.s, w[k].s)}
<1>3. ASSUME T # {} PROVE FALSE
  <2>1. PICK k \in T : \A y \in T : k <= y
    <3>1. T \in SUBSET Nat
      OBVIOUS
    <3>. QED BY <3>1, <1>3, NatMin
  <2>2. k # 0
    BY <1>2, KeepsSelf
  <2>3. k \in 1..m /\ k - 1 \in 0..m /\ k - 1 \notin T
    BY <2>1, <2>2, <1>1
  <2>4. Keeps(acc.s, w[k - 1].s)
    BY <2>3
  <2>5. Shape(w[k - 1].s) /\ ns[k] \in Nat
    BY <2>3, <2>4, <1>1 DEF Keeps
  <2>6. Keeps(w[k - 1].s, FileWrite(w[k - 1], ip, ns[k]).s)
    BY <2>5, FileWriteKeeps
  <2>7. Keeps(acc.s, w[k].s)
    BY <2>3, <2>4, <2>6, <1>2, KeepsChain
  <2>. QED BY <2>1, <2>7
<1>4. Keeps(acc.s, w[m].s)
  BY <1>1, <1>3
<1>. QED BY <1>4 DEF w, m

-----------------------------------------------------------------------------
(* The file table. *)

\* The end of the pipe the file has.
End(x) == IF x.wr THEN "w" ELSE "r"

\* The fields of a file.
IsFile(x) == x = [ref |-> x.ref, type |-> x.type, ip |-> x.ip, pipe |-> x.pipe,
                  off |-> x.off, rd |-> x.rd, wr |-> x.wr]

\* A file counts on an inode or a pipe only by its type and while it is open.
FileOK(x) ==
    /\ IsFile(x) /\ x.ref \in Nat
    /\ x.ref = 0 => x.ip = 0 /\ x.pipe = None
    /\ x.type # "inode" => x.ip = 0
    /\ x.type # "pipe" => x.pipe = None

\* File f has claims[f] references; a pipe has a file for each open end, and one.
FilesOK(ft, pp, claims) ==
    /\ ft = [f \in Files |-> ft[f]]
    /\ \A f \in Files : FileOK(ft[f]) /\ ft[f].ref = claims[f]
    /\ \A f, g \in Files : f # g /\ ft[f].pipe = ft[g].pipe /\ ft[f].pipe # None
            => End(ft[f]) # End(ft[g])
    /\ pp = [q \in Pipes |-> pp[q]]
    /\ \A q \in Pipes : pp[q] = {End(ft[f]) : f \in {g \in Files : ft[g].pipe = q}}

\* The constants.
LEMMA Sizes == /\ NFile \in Nat /\ OpenFile \in Nat /\ None \notin Pipes /\ IsFiniteSet(Procs)
               /\ 0 \notin Files /\ InitProc \in Procs /\ OpenFile > 0
BY FileSysAssumption DEF Files

\* The number of items of D that have the value i.
Count(D, f, i) == Cardinality({y \in D : f[y] = i})

\* f and g agree but at x.
Differ(D, f, g, x) == \A y \in D : y # x => g[y] = f[y]

\* One value changes: the numbers change by one at most.
LEMMA CountMove ==
  ASSUME NEW D, IsFiniteSet(D), NEW f, NEW g, NEW x \in D, Differ(D, f, g, x), NEW i
  PROVE  /\ Count(D, f, i) \in Nat
         /\ Count(D, g, i) = Count(D, f, i) - (IF f[x] = i THEN 1 ELSE 0) + (IF g[x] = i THEN 1 ELSE 0)
<1> DEFINE S == {y \in D : f[y] = i}
           T == {y \in D : g[y] = i}
           R == {y \in D : y # x /\ f[y] = i}
<1>1. IsFiniteSet(R) /\ Cardinality(R) \in Nat
  <2>1. R \subseteq D
    OBVIOUS
  <2> HIDE DEF R
  <2>. QED BY <2>1, FS_Subset, FS_CardinalityType
<1>2. x \notin R
  OBVIOUS
<1>3. S = (IF f[x] = i THEN R \cup {x} ELSE R) /\ T = (IF g[x] = i THEN R \cup {x} ELSE R)
  BY DEF Differ
<1> HIDE DEF R, S, T
<1>4. Cardinality(R \cup {x}) = Cardinality(R) + 1
  BY <1>1, <1>2, FS_AddElement
<1>5. Cardinality(S) \in Nat /\ Cardinality(T) = Cardinality(S) - (IF f[x] = i THEN 1 ELSE 0) + (IF g[x] = i THEN 1 ELSE 0)
  BY <1>1, <1>3, <1>4
<1>. QED BY <1>5 DEF S, T, Count

\* The descriptors that hold file f, and the references the table owes for them.
Holders(of, f) == {x \in Procs \X Fds : of[x[1]][x[2]] = f}

\* How many they are.
Held(of, f) == Cardinality(Holders(of, f))

\* The references of file f: its descriptors and, when a failed sys_pipe2 lost it, one
\* more.
Claims(of, orph) == [f \in Files |-> Held(of, f) + (IF f \in orph THEN 1 ELSE 0)]

\* One descriptor changes.
OneFd(of, of2, p, d, a, b) ==
    /\ of[p][d] = a /\ of2[p][d] = b
    /\ \A q \in Procs, e \in Fds : q # p \/ e # d => of2[q][e] = of[q][e]

\* A descriptor changes from file a to file b.
LEMMA HoldersMove ==
  ASSUME NEW of, NEW of2, NEW p \in Procs, NEW d \in Fds, NEW a, NEW b, OneFd(of, of2, p, d, a, b), NEW f
  PROVE  /\ Held(of, f) \in Nat
         /\ Held(of2, f) =
              Held(of, f) - (IF a = f THEN 1 ELSE 0) + (IF b = f THEN 1 ELSE 0)
<1> DEFINE D == Procs \X Fds
           g == [x \in D |-> of[x[1]][x[2]]]
           h == [x \in D |-> of2[x[1]][x[2]]]
           z == <<p, d>>
<1>1. IsFiniteSet(D)
  <2>1. OpenFile - 1 \in Int
    BY Sizes
  <2>2. IsFiniteSet(Fds)
    BY <2>1, FS_Interval DEF Fds
  <2>. QED BY <2>2, Sizes, FS_Product
<1>2. z \in D /\ g[z] = a /\ h[z] = b
  BY DEF OneFd
<1>3. ASSUME NEW y \in D, y # z PROVE h[y] = g[y]
  <2>1. y = <<y[1], y[2]>> /\ y[1] \in Procs /\ y[2] \in Fds
    OBVIOUS
  <2>2. y[1] # p \/ y[2] # d
    BY <2>1, <1>3
  <2>. QED BY <2>1, <2>2 DEF OneFd
<1>4. Held(of, f) = Count(D, g, f) /\ Held(of2, f) = Count(D, h, f)
  <2>1. Holders(of, f) = {y \in D : g[y] = f} /\ Holders(of2, f) = {y \in D : h[y] = f}
    BY DEF Holders
  <2>. QED BY <2>1 DEF Count, Held
<1> HIDE DEF D, g, h, z
<1>d. Differ(D, g, h, z)
  BY <1>3 DEF Differ
<1>5. /\ Count(D, g, f) \in Nat
      /\ Count(D, h, f) = Count(D, g, f) - (IF g[z] = f THEN 1 ELSE 0) + (IF h[z] = f THEN 1 ELSE 0)
  BY <1>1, <1>2, <1>d, CountMove
<1>. QED BY <1>2, <1>4, <1>5

\* The descriptors are finitely many, and one counts.
LEMMA HoldersType ==
  ASSUME NEW of, NEW f
  PROVE  /\ IsFiniteSet(Holders(of, f)) /\ Held(of, f) \in Nat
         /\ \A p \in Procs, d \in Fds : of[p][d] = f => Held(of, f) > 0
<1>1. IsFiniteSet(Procs \X Fds)
  <2>1. OpenFile - 1 \in Int
    BY Sizes
  <2>2. IsFiniteSet(Fds)
    BY <2>1, FS_Interval DEF Fds
  <2>. QED BY <2>2, Sizes, FS_Product
<1>2. IsFiniteSet(Holders(of, f))
  <2>1. Holders(of, f) \in SUBSET (Procs \X Fds)
    BY DEF Holders
  <2>. QED BY <2>1, <1>1, FS_Subset
<1>3. Held(of, f) \in Nat
  BY <1>2, FS_CardinalityType DEF Held
<1>4. ASSUME NEW p \in Procs, NEW d \in Fds, of[p][d] = f
      PROVE  Held(of, f) > 0
  <2>1. <<p, d>> \in Holders(of, f)
    BY <1>4 DEF Holders
  <2>2. Held(of, f) # 0
    BY <2>1, <1>2, FS_EmptySet DEF Held
  <2>. QED BY <2>2, <1>3
<1>. QED BY <1>2, <1>3, <1>4

\* The files that refer to inode i.
IpCount(ft, i) == Cardinality({f \in Files : ft[f].ip = i})

\* One file changes.
OneFile(ft, ft2, x) == \A f \in Files : f # x => ft2[f].ip = ft[f].ip

\* One file changes its inode.
LEMMA IpMove ==
  ASSUME NEW ft, NEW ft2, NEW x \in Files, OneFile(ft, ft2, x), NEW i
  PROVE  /\ IpCount(ft, i) \in Nat
         /\ IpCount(ft2, i) =
              IpCount(ft, i) - (IF ft[x].ip = i THEN 1 ELSE 0) + (IF ft2[x].ip = i THEN 1 ELSE 0)
<1> DEFINE D == Files
           g == [f \in D |-> ft[f].ip]
           h == [f \in D |-> ft2[f].ip]
<1>1. IsFiniteSet(D)
  BY Sizes, FS_Interval DEF Files
<1>2. x \in D /\ g[x] = ft[x].ip /\ h[x] = ft2[x].ip /\ \A y \in D : y # x => h[y] = g[y]
  BY DEF OneFile
<1>4. IpCount(ft, i) = Count(D, g, i) /\ IpCount(ft2, i) = Count(D, h, i)
  <2>1. {f \in Files : ft[f].ip = i} = {y \in D : g[y] = i} /\ {f \in Files : ft2[f].ip = i} = {y \in D : h[y] = i}
    OBVIOUS
  <2>. QED BY <2>1 DEF IpCount, Count
<1> HIDE DEF D, g, h
<1>d. Differ(D, g, h, x)
  BY <1>2 DEF Differ
<1>5. /\ Count(D, g, i) \in Nat
      /\ Count(D, h, i) = Count(D, g, i) - (IF g[x] = i THEN 1 ELSE 0) + (IF h[x] = i THEN 1 ELSE 0)
  BY <1>1, <1>2, <1>d, CountMove
<1>. QED BY <1>2, <1>4, <1>5

\* No file changes its inode.
LEMMA IpSame ==
  ASSUME NEW ft, NEW ft2, \A f \in Files : ft2[f].ip = ft[f].ip, NEW i
  PROVE  IpCount(ft, i) \in Nat /\ IpCount(ft2, i) = IpCount(ft, i)
<1>1. {f \in Files : ft2[f].ip = i} = {f \in Files : ft[f].ip = i}
  OBVIOUS
<1>2. IsFiniteSet(Files)
  BY Sizes, FS_Interval DEF Files
<1>3. {f \in Files : ft[f].ip = i} \in SUBSET Files
  OBVIOUS
<1>4. IpCount(ft, i) \in Nat
  BY <1>2, <1>3, FS_Subset, FS_CardinalityType DEF IpCount
<1>. QED BY <1>1, <1>4 DEF IpCount

\* From s and ft to t and ft2 the counts move with the files that refer to the
\* inodes, if t is no failure.
Balance(s, ft, t, ft2) ==
    /\ Shape(t)
    /\ t.bad = "ok" => /\ s.bad = "ok"
                       /\ \A i \in Inos : t.ic[i].rc + IpCount(ft, i) = s.ic[i].rc + IpCount(ft2, i)

\* One file is changed, and not the pipe end it stands for.
LEMMA FileUpdate ==
  ASSUME NEW ft, NEW pp, NEW cl, FilesOK(ft, pp, cl), NEW f \in Files, NEW y, FileOK(y),
         y.pipe = ft[f].pipe, y.pipe = None \/ End(y) = End(ft[f]),
         NEW cl2, cl2[f] = y.ref, \A g \in Files : g # f => cl2[g] = cl[g]
  PROVE  FilesOK([ft EXCEPT ![f] = y], pp, cl2)
<1> DEFINE u == [ft EXCEPT ![f] = y]
<1>1. u = [g \in Files |-> u[g]] /\ \A g \in Files : u[g] = IF g = f THEN y ELSE ft[g]
  BY DEF FilesOK
<1> HIDE DEF u
<1>2. \A g \in Files : FileOK(u[g]) /\ u[g].ref = cl2[g]
  BY <1>1 DEF FilesOK
<1>3. \A g \in Files : u[g].pipe = ft[g].pipe /\ (u[g].pipe = None \/ End(u[g]) = End(ft[g]))
  BY <1>1
<1>4. \A g, h \in Files : g # h /\ u[g].pipe = u[h].pipe /\ u[g].pipe # None => End(u[g]) # End(u[h])
  BY <1>3 DEF FilesOK
<1>5. ASSUME NEW q \in Pipes PROVE pp[q] = {End(u[g]) : g \in {h \in Files : u[h].pipe = q}}
  <2>1. q # None
    BY Sizes
  <2>2. {h \in Files : u[h].pipe = q} = {h \in Files : ft[h].pipe = q}
    BY <1>3
  <2>3. \A g \in {h \in Files : u[h].pipe = q} : End(u[g]) = End(ft[g])
    BY <2>1, <1>3
  <2>4. pp[q] = {End(ft[g]) : g \in {h \in Files : ft[h].pipe = q}}
    BY DEF FilesOK
  <2>. QED BY <2>2, <2>3, <2>4
<1>6. pp = [q \in Pipes |-> pp[q]]
  BY DEF FilesOK
<1>7. FilesOK(u, pp, cl2)
  BY <1>1, <1>2, <1>4, <1>5, <1>6 DEF FilesOK
<1>. QED BY <1>7 DEF u

\* The last reference to a pipe end is gone.
LEMMA PipeClosed ==
  ASSUME NEW ft, NEW pp, NEW cl, FilesOK(ft, pp, cl), NEW f \in Files,
         NEW cl2, cl2[f] = 0, \A g \in Files : g # f => cl2[g] = cl[g],
         NEW p2, p2 = [pp EXCEPT ![ft[f].pipe] = @ \ {End(ft[f])}], ft[f].pipe # None
  PROVE  FilesOK([ft EXCEPT ![f] = NoFile], p2, cl2)
<1> DEFINE u == [ft EXCEPT ![f] = NoFile]
<1>1. u = [g \in Files |-> u[g]] /\ \A g \in Files : u[g] = IF g = f THEN NoFile ELSE ft[g]
  BY DEF FilesOK
<1>n. FileOK(NoFile) /\ NoFile.ref = 0 /\ NoFile.pipe = None
  BY DEF FileOK, NoFile, IsFile
<1> HIDE DEF u
<1>2. \A g \in Files : FileOK(u[g]) /\ u[g].ref = cl2[g]
  BY <1>1, <1>n DEF FilesOK
<1>4. \A g, h \in Files : g # h /\ u[g].pipe = u[h].pipe /\ u[g].pipe # None => End(u[g]) # End(u[h])
  BY <1>1, <1>n DEF FilesOK
<1>6. p2 = [q \in Pipes |-> p2[q]] /\ \A q \in Pipes : p2[q] = IF q = ft[f].pipe THEN pp[q] \ {End(ft[f])} ELSE pp[q]
  <2>1. pp = [q \in Pipes |-> pp[q]]
    BY DEF FilesOK
  <2>. QED BY <2>1
<1>5. ASSUME NEW q \in Pipes PROVE p2[q] = {End(u[g]) : g \in {h \in Files : u[h].pipe = q}}
  <2>1. q # None
    BY Sizes
  <2>2. {h \in Files : u[h].pipe = q} = {h \in Files : ft[h].pipe = q} \ {f}
    BY <2>1, <1>1, <1>n
  <2>3. \A g \in {h \in Files : u[h].pipe = q} : u[g] = ft[g]
    BY <2>2, <1>1
  <2>4. pp[q] = {End(ft[g]) : g \in {h \in Files : ft[h].pipe = q}}
    BY DEF FilesOK
  <2>5. \A g \in Files : g # f /\ ft[f].pipe = q /\ ft[g].pipe = q => End(ft[g]) # End(ft[f])
    BY <2>1 DEF FilesOK
  <2>. QED BY <2>2, <2>3, <2>4, <2>5, <1>6
<1>7. FilesOK(u, p2, cl2)
  BY <1>1, <1>2, <1>4, <1>5, <1>6 DEF FilesOK
<1>. QED BY <1>7 DEF u

\* The fields of what file_close works on.
IsTables(st) == st = [s |-> st.s, ft |-> st.ft, pp |-> st.pp]

\* file_close: one claim less, and the inode's count with the file.
LEMMA FileCloseOK ==
  ASSUME NEW st, IsTables(st), Shape(st.s), NEW cl, FilesOK(st.ft, st.pp, cl),
         NEW f \in Files, cl[f] # 0,
         NEW cl2, cl2[f] = cl[f] - 1, \A g \in Files : g # f => cl2[g] = cl[g],
         NEW c, c = FileClose(st, f)
  PROVE  IsTables(c) /\ FilesOK(c.ft, c.pp, cl2) /\ Balance(st.s, st.ft, c.s, c.ft)
<1> DEFINE old == st.ft[f]
           ip == old.ip
           y == [old EXCEPT !.ref = old.ref - 1]
           b == BeginOp(st.s)
           t == InodePut(b, ip)
           r == Op(st.s, t)
           p2 == [st.pp EXCEPT ![old.pipe] = @ \ {End(old)}]
<1>1. FileOK(old) /\ old.ref = cl[f] /\ old.ref \in Nat
  BY DEF FilesOK, FileOK
<1>2. /\ IsTables(c)
      /\ c.ft = [st.ft EXCEPT ![f] = IF old.ref = 1 THEN NoFile ELSE y]
      /\ c.s = IF old.ref = 1 /\ old.type = "inode" THEN r ELSE st.s
      /\ c.pp = IF old.ref = 1 /\ old.type = "pipe" THEN p2 ELSE st.pp
  BY DEF FileClose, IsTables, End
<1>3. Moves(st.s, r, ip, -1)
  <2>1. Keeps(st.s, b)
    BY BeginOpKeeps
  <2>2. Shape(b)
    BY <2>1 DEF Keeps
  <2>3. Moves(b, t, ip, -1)
    BY <2>2, InodePutMoves DEF MovesRet
  <2> HIDE DEF b
  <2>4. Moves(st.s, t, ip, -1)
    BY <2>1, <2>3, MovesAfter
  <2>5. Shape(t)
    BY <2>3 DEF Moves
  <2>. QED BY <2>4, <2>5, OpMoves
<1> HIDE DEF r, t, b, p2
<1>n. FileOK(NoFile) /\ NoFile.ref = 0 /\ NoFile.pipe = None /\ NoFile.ip = 0
  BY DEF FileOK, NoFile, IsFile
<1>4. st.ft = [g \in Files |-> st.ft[g]]
  BY DEF FilesOK
<1>i. \A i \in Inos : st.s.ic[i].rc \in Int
  BY DEF Shape, IcOK, CellOK
<1>5. CASE old.ref # 1
  <2>1. FileOK(y) /\ y.ref = old.ref - 1 /\ y.ip = ip /\ y.pipe = old.pipe /\ y.wr = old.wr
    <3>1. IsFile(old)
      BY <1>1 DEF FileOK
    <3>2. IsFile(y) /\ y.ref = old.ref - 1 /\ y.ip = ip /\ y.pipe = old.pipe /\ y.wr = old.wr /\ y.type = old.type
      BY <3>1 DEF IsFile
    <3>3. old.ref - 1 \in Nat /\ old.ref - 1 # 0
      BY <1>1, <1>5
    <3> HIDE DEF y
    <3>. QED BY <3>2, <3>3, <1>1 DEF FileOK
  <2> HIDE DEF y
  <2>2. c.s = st.s /\ c.pp = st.pp /\ c.ft = [st.ft EXCEPT ![f] = y]
    BY <1>2, <1>5
  <2>3. End(y) = End(old)
    BY <2>1 DEF End
  <2>4. FilesOK([st.ft EXCEPT ![f] = y], st.pp, cl2)
    BY <2>1, <2>3, <1>1, FileUpdate
  <2>5. \A g \in Files : c.ft[g].ip = st.ft[g].ip
    BY <2>1, <2>2, <1>4
  <2>6. \A i : IpCount(c.ft, i) = IpCount(st.ft, i)
    BY <2>5, IpSame
  <2>7. Balance(st.s, st.ft, c.s, c.ft)
    BY <2>2, <2>6 DEF Balance
  <2>. QED BY <1>2, <2>2, <2>4, <2>7
<1>6. CASE old.ref = 1
  <2>1. c.ft = [st.ft EXCEPT ![f] = NoFile]
    BY <1>2, <1>6
  <2>2. c.ft[f] = NoFile /\ OneFile(st.ft, c.ft, f)
    BY <2>1, <1>4 DEF OneFile
  <2>3. ASSUME NEW i \in Inos
        PROVE  /\ IpCount(st.ft, i) \in Nat
               /\ IpCount(c.ft, i) = IpCount(st.ft, i) - (IF ip = i THEN 1 ELSE 0)
    <3>1. /\ IpCount(st.ft, i) \in Nat
          /\ IpCount(c.ft, i) = IpCount(st.ft, i) - (IF st.ft[f].ip = i THEN 1 ELSE 0) + (IF c.ft[f].ip = i THEN 1 ELSE 0)
      BY <2>2, IpMove
    <3>2. c.ft[f].ip = 0 /\ i # 0
      BY <2>2, <1>n, ZeroNoInode
    <3>. QED BY <3>1, <3>2
  <2>4. cl2[f] = 0
    BY <1>1, <1>6
  <2>5. CASE old.type = "inode"
    <3>1. old.pipe = None
      BY <2>5, <1>1 DEF FileOK
    <3>2. c.s = r /\ c.pp = st.pp
      BY <1>2, <1>6, <2>5
    <3>3. FilesOK([st.ft EXCEPT ![f] = NoFile], st.pp, cl2)
      BY <3>1, <1>n, <2>4, FileUpdate
    <3>4. Balance(st.s, st.ft, c.s, c.ft)
      BY <3>2, <2>3, <1>3, <1>i DEF Balance, Moves
    <3>. QED BY <1>2, <2>1, <3>2, <3>3, <3>4
  <2>6. CASE old.type # "inode"
    <3>1. ip = 0
      BY <2>6, <1>1 DEF FileOK
    <3>2. c.s = st.s
      BY <1>2, <2>6
    <3>3. \A i \in Inos : IpCount(st.ft, i) \in Nat /\ IpCount(c.ft, i) = IpCount(st.ft, i)
      BY <2>3, <3>1, ZeroNoInode
    <3>4. Balance(st.s, st.ft, c.s, c.ft)
      BY <3>2, <3>3 DEF Balance
    <3>5. FilesOK([st.ft EXCEPT ![f] = NoFile], c.pp, cl2)
      <4>1. CASE old.type = "pipe" /\ old.pipe # None
        <5>1. c.pp = p2
          BY <1>2, <1>6, <4>1
        <5>. QED BY <5>1, <4>1, <2>4, PipeClosed DEF p2
      <4>2. CASE old.pipe = None
        <5>1. None \notin Pipes
          BY Sizes
        <5>2. st.pp = [q \in Pipes |-> st.pp[q]]
          BY DEF FilesOK
        <5>3. p2 = st.pp
          BY <5>1, <5>2, <4>2 DEF p2
        <5>4. c.pp = st.pp
          BY <5>3, <1>2
        <5>. QED BY <5>4, <4>2, <1>n, <2>4, FileUpdate
      <4>3. old.type # "pipe" => old.pipe = None
        BY <1>1 DEF FileOK
      <4>. QED BY <4>1, <4>2, <4>3
    <3>. QED BY <1>2, <2>1, <3>4, <3>5
  <2>. QED BY <2>5, <2>6
<1>. QED BY <1>5, <1>6

\* fdalloc and file_alloc find something free or nothing.
LEMMA FdAllocIs ==
  ASSUME NEW table, NEW d, d = FdAlloc(table)
  PROVE  d = -1 \/ (d \in Fds /\ table[d] = 0)
<1> DEFINE S == {e \in Fds : table[e] = 0}
<1>1. CASE S = {}
  BY <1>1 DEF FdAlloc
<1>2. CASE S # {}
  <2>1. S \in SUBSET Nat
    BY Sizes DEF Fds
  <2>2. d = Min(S)
    BY <1>2 DEF FdAlloc
  <2>3. \A e \in S : e \in Fds /\ table[e] = 0
    OBVIOUS
  <2> HIDE DEF S
  <2>4. \E x \in S : \A y \in S : x <= y
    BY <2>1, <1>2, NatMin
  <2>5. Min(S) \in S
    BY <2>4 DEF Min
  <2>. QED BY <2>2, <2>3, <2>5
<1>. QED BY <1>1, <1>2

\* file_alloc returns no file, or a free one.
LEMMA FileAllocIs ==
  ASSUME NEW ft, NEW f, f = FileAlloc(ft)
  PROVE  f = 0 \/ (f \in Files /\ ft[f].ref = 0)
<1> DEFINE S == {e \in Files : ft[e].ref = 0}
<1>1. CASE S = {}
  BY <1>1 DEF FileAlloc
<1>2. CASE S # {}
  <2>1. S \in SUBSET Nat
    BY Sizes DEF Files
  <2>2. f = Min(S)
    BY <1>2 DEF FileAlloc
  <2>3. \A e \in S : e \in Files /\ ft[e].ref = 0
    OBVIOUS
  <2> HIDE DEF S
  <2>4. \E x \in S : \A y \in S : x <= y
    BY <2>1, <1>2, NatMin
  <2>5. Min(S) \in S
    BY <2>4 DEF Min
  <2>. QED BY <2>2, <2>3, <2>5
<1>. QED BY <1>1, <1>2

\* pipe_alloc takes two free files and a free pipe, which no file refers to.
SameIps(ft, ft2) == \A f \in Files : ft2[f].ip = ft[f].ip

\* A file for one end of pipe q.
NewEnd(x, q, end) == FileOK(x) /\ x.ref = 1 /\ x.ip = 0 /\ x.pipe = q /\ End(x) = end

\* What pipe_alloc did.
PipeMade(ft, ft2, pp, p2, r, w, q) ==
    /\ r \in Files /\ w \in Files /\ r # w /\ ft[r].ref = 0 /\ ft[w].ref = 0
    /\ q \in Pipes /\ pp[q] = {} /\ p2 = [pp EXCEPT ![q] = {"r", "w"}]
    /\ \E x, y : NewEnd(x, q, "r") /\ NewEnd(y, q, "w") /\ ft2 = [ft EXCEPT ![r] = x, ![w] = y]

\* The two files have a descriptor each.
TwoClaims(cl, cl2, r, w) == cl2[r] = 1 /\ cl2[w] = 1 /\ \A g \in Files : g = r \/ g = w \/ cl2[g] = cl[g]

\* pipe_alloc: both ends are open and each has its file.
LEMMA PipeOpened ==
  ASSUME NEW ft, NEW pp, NEW cl, FilesOK(ft, pp, cl), NEW ft2, NEW p2, NEW r, NEW w, NEW q,
         PipeMade(ft, ft2, pp, p2, r, w, q), NEW cl2, TwoClaims(cl, cl2, r, w)
  PROVE  FilesOK(ft2, p2, cl2) /\ SameIps(ft, ft2) /\ ft2[r].pipe = q
<1>p. PICK x, y : NewEnd(x, q, "r") /\ NewEnd(y, q, "w") /\ ft2 = [ft EXCEPT ![r] = x, ![w] = y]
  BY DEF PipeMade
<1>u. /\ r \in Files /\ w \in Files /\ r # w /\ ft[r].ref = 0 /\ ft[w].ref = 0
      /\ q \in Pipes /\ pp[q] = {} /\ p2 = [pp EXCEPT ![q] = {"r", "w"}]
  BY DEF PipeMade
<1> USE <1>u
<1>1. /\ FileOK(x) /\ x.ref = 1 /\ x.ip = 0 /\ x.pipe = q /\ End(x) = "r"
      /\ FileOK(y) /\ y.ref = 1 /\ y.ip = 0 /\ y.pipe = q /\ End(y) = "w"
      /\ cl2[r] = 1 /\ cl2[w] = 1 /\ \A g \in Files : g = r \/ g = w \/ cl2[g] = cl[g]
      /\ ft2 = [ft EXCEPT ![r] = x, ![w] = y]
  BY <1>p DEF NewEnd, TwoClaims
<1>2. ft = [g \in Files |-> ft[g]]
  BY DEF FilesOK
<1>3. ft2 = [g \in Files |-> ft2[g]] /\ ft2[r] = x /\ ft2[w] = y /\ \A g \in Files : g = r \/ g = w \/ ft2[g] = ft[g]
  BY <1>1, <1>2
<1>4. \A g \in Files : FileOK(ft2[g]) /\ ft2[g].ref = cl2[g]
  BY <1>1, <1>3 DEF FilesOK
<1>5. ASSUME NEW g \in Files PROVE ft[g].pipe # q
  <2>1. pp[q] = {End(ft[f]) : f \in {h \in Files : ft[h].pipe = q}}
    BY DEF FilesOK
  <2>2. ft[g].pipe = q => End(ft[g]) \in pp[q]
    BY <2>1
  <2>. QED BY <2>2
<1>6. q # None
  BY Sizes
<1>7. pp = [z \in Pipes |-> pp[z]]
  BY DEF FilesOK
<1>8. p2 = [z \in Pipes |-> p2[z]] /\ p2[q] = {"r", "w"} /\ \A z \in Pipes : z # q => p2[z] = pp[z]
  BY <1>7
<1>9. ft[r].ip = 0 /\ ft[w].ip = 0 /\ ft[r].pipe = None /\ ft[w].pipe = None
  BY DEF FilesOK, FileOK
<1>10. \A f, g \in Files : f # g /\ ft2[f].pipe = ft2[g].pipe /\ ft2[f].pipe # None => End(ft2[f]) # End(ft2[g])
  <2>1. ASSUME NEW f \in Files, NEW g \in Files, f # g, ft2[f].pipe = ft2[g].pipe, ft2[f].pipe # None
        PROVE  End(ft2[f]) # End(ft2[g])
    <3>1. \A h \in Files : ft2[h].pipe = q => h = r \/ h = w
      BY <1>1, <1>3, <1>5
    <3>2. CASE ft2[f].pipe = q
      <4>1. (f = r /\ g = w) \/ (f = w /\ g = r)
        BY <3>1, <3>2, <2>1
      <4>2. End(ft2[r]) = "r" /\ End(ft2[w]) = "w"
        BY <1>1, <1>3
      <4>. QED BY <4>1, <4>2
    <3>3. CASE ft2[f].pipe # q
      <4>1. ft2[f] = ft[f] /\ ft2[g] = ft[g]
        BY <3>3, <2>1, <1>1, <1>3
      <4>2. ft[f].pipe = ft[g].pipe /\ ft[f].pipe # None
        BY <4>1, <2>1
      <4>3. End(ft[f]) # End(ft[g])
        BY <4>2, <2>1 DEF FilesOK
      <4>. QED BY <4>1, <4>3
    <3>. QED BY <3>2, <3>3
  <2>. QED BY <2>1
<1>11. ASSUME NEW z \in Pipes PROVE p2[z] = {End(ft2[f]) : f \in {g \in Files : ft2[g].pipe = z}}
  <2>1. CASE z = q
    <3>1. {g \in Files : ft2[g].pipe = z} = {r, w}
      BY <2>1, <1>1, <1>3, <1>5
    <3>2. End(ft2[r]) = "r" /\ End(ft2[w]) = "w"
      BY <1>1, <1>3
    <3>3. {End(ft2[f]) : f \in {r, w}} = {"r", "w"}
      BY <3>2
    <3>. QED BY <3>1, <3>3, <2>1, <1>8
  <2>2. CASE z # q
    <3>0. z # None
      BY Sizes
    <3>1. {g \in Files : ft2[g].pipe = z} = {g \in Files : ft[g].pipe = z}
      BY <3>0, <2>2, <1>1, <1>3, <1>9
    <3>2. \A g \in {h \in Files : ft[h].pipe = z} : ft2[g] = ft[g]
      BY <3>0, <1>1, <1>3, <1>9
    <3>3. pp[z] = {End(ft[f]) : f \in {g \in Files : ft[g].pipe = z}}
      BY DEF FilesOK
    <3> DEFINE H == {g \in Files : ft[g].pipe = z}
    <3>4. {End(ft2[f]) : f \in H} = {End(ft[f]) : f \in H}
      <4> HIDE DEF H
      <4>1. \A f \in H : End(ft2[f]) = End(ft[f])
        BY <3>2 DEF H
      <4>. QED BY <4>1
    <3>. QED BY <3>1, <3>3, <3>4, <2>2, <1>8
  <2>. QED BY <2>1, <2>2
<1>12. FilesOK(ft2, p2, cl2)
  BY <1>1, <1>3, <1>4, <1>8, <1>10, <1>11 DEF FilesOK
<1>. QED BY <1>12, <1>1, <1>3, <1>9 DEF SameIps

\* The descriptors of a process are closed one by one.
LEMMA CloseLoopIs ==
  ASSUME NEW st, NEW table
  PROVE  LET w == CloseLoop(st, table)
         IN  w[0] = st /\ \A k \in 1..OpenFile : w[k] = CloseOpen(w[k - 1], table[k - 1])
<1> DEFINE N == OpenFile
           St(p, k) == CloseOpen(p, table[k - 1])
           Def(m, f) == [k \in 0..m |-> IF k = 0 THEN st ELSE St(f[k - 1], k)]
<1>0. N \in Nat
  BY Sizes
<1> HIDE DEF N
<1>1. ASSUME NEW m \in Nat PROVE \E g : g = Def(m, g)
  <2> DEFINE T == {k \in Nat : ~\E g : g = Def(k, g)}
  <2>1. SUFFICES ASSUME T # {} PROVE FALSE
    OBVIOUS
  <2>2. PICK k \in T : \A y \in T : k <= y
    <3>1. T \in SUBSET Nat
      OBVIOUS
    <3>. QED BY <3>1, <2>1, NatMin
  <2>3. k # 0
    <3> DEFINE g == [x \in 0..0 |-> st]
    <3>1. ASSUME NEW x \in 0..0 PROVE g[x] = Def(0, g)[x]
      OBVIOUS
    <3>2. g = Def(0, g)
      BY <3>1
    <3>. QED BY <3>2
  <2>t. T \subseteq Nat
    OBVIOUS
  <2>4. k - 1 \in Nat /\ k - 1 \notin T
    <3> HIDE DEF T
    <3>. QED BY <2>2, <2>3, <2>t
  <2>5. PICK g : g = Def(k - 1, g)
    BY <2>4
  <2> DEFINE h == [x \in 0..k |-> IF x = k THEN St(g[k - 1], k) ELSE g[x]]
  <2>6. h = Def(k, h)
    <3>1. ASSUME NEW x \in 0..k PROVE h[x] = Def(k, h)[x]
      <4>1. CASE x = k
        BY <4>1, <2>3, <2>4
      <4>2. CASE x # k
        <5>1. x \in 0..(k - 1) /\ h[x] = g[x] /\ (x # 0 => x - 1 \in 0..(k - 1) /\ h[x - 1] = g[x - 1])
          BY <4>2, <2>4
        <5>2. g[x] = Def(k - 1, g)[x]
          BY <2>5
        <5>. QED BY <5>1, <5>2
      <4>. QED BY <4>1, <4>2
    <3>. QED BY <3>1
  <2>. QED BY <2>2, <2>6
<1>2. PICK g : g = Def(N, g)
  BY <1>0, <1>1
<1> DEFINE w == CloseLoop(st, table)
<1>3. w = Def(N, w)
  BY <1>2 DEF CloseLoop, N
<1> HIDE DEF w
<1>4. w[0] = st
  <2>1. w[0] = Def(N, w)[0]
    BY <1>3
  <2>. QED BY <2>1, <1>0
<1>5. ASSUME NEW k \in 1..N PROVE w[k] = CloseOpen(w[k - 1], table[k - 1])
  <2>1. w[k] = Def(N, w)[k]
    BY <1>3
  <2>. QED BY <2>1, <1>0
<1>. QED BY <1>4, <1>5 DEF w, N

\* What a process that exits leaves of the tables: the descriptors below k are
\* closed.
Closed(of, p, k) == [of EXCEPT ![p] = [d \in Fds |-> IF d < k THEN 0 ELSE of[p][d]]]

\* Two steps, each of which moves the counts as it changes the files.
LEMMA BalanceTrans ==
  ASSUME NEW s, Shape(s), NEW ft, NEW t, NEW ft2, NEW u, NEW ft3, Balance(s, ft, t, ft2), Balance(t, ft2, u, ft3)
  PROVE  Balance(s, ft, u, ft3)
<1>1. Shape(t) /\ Shape(u)
  BY DEF Balance
<1>2. ASSUME NEW i \in Inos, u.bad = "ok"
      PROVE  u.ic[i].rc + IpCount(ft, i) = s.ic[i].rc + IpCount(ft3, i)
  <2>1. t.bad = "ok"
    BY <1>2 DEF Balance
  <2>2. t.ic[i].rc + IpCount(ft, i) = s.ic[i].rc + IpCount(ft2, i)
    BY <2>1 DEF Balance
  <2>3. u.ic[i].rc + IpCount(ft2, i) = t.ic[i].rc + IpCount(ft3, i)
    BY <1>2 DEF Balance
  <2>4. s.ic[i].rc \in Int /\ t.ic[i].rc \in Int /\ u.ic[i].rc \in Int
    BY <1>1 DEF Shape, IcOK, CellOK
  <2>5. IpCount(ft, i) \in Nat /\ IpCount(ft2, i) \in Nat /\ IpCount(ft3, i) \in Nat
    BY IpSame
  <2>. QED BY <2>2, <2>3, <2>4, <2>5
<1>. QED BY <1>1, <1>2 DEF Balance

\* exit closes every descriptor of the process: its claims go, the others stay.
LEMMA CloseLoopOK ==
  ASSUME NEW st, IsTables(st), Shape(st.s), NEW of \in [Procs -> [Fds -> 0..NFile]], NEW orph,
         FilesOK(st.ft, st.pp, Claims(of, orph)), NEW p \in Procs,
         NEW c, c = CloseLoop(st, of[p])[OpenFile]
  PROVE  /\ IsTables(c) /\ FilesOK(c.ft, c.pp, Claims([of EXCEPT ![p] = [d \in Fds |-> 0]], orph))
         /\ Balance(st.s, st.ft, c.s, c.ft)
<1> DEFINE w == CloseLoop(st, of[p])
           Good(k) == /\ IsTables(w[k]) /\ FilesOK(w[k].ft, w[k].pp, Claims(Closed(of, p, k), orph))
                      /\ Balance(st.s, st.ft, w[k].s, w[k].ft)
<1>1. w[0] = st /\ \A k \in 1..OpenFile : w[k] = CloseOpen(w[k - 1], of[p][k - 1])
  BY CloseLoopIs
<1>2. OpenFile \in Nat
  BY Sizes
<1> HIDE DEF w
<1>3. Good(0)
  <2>1. Closed(of, p, 0) = of
    <3>1. [d \in Fds |-> IF d < 0 THEN 0 ELSE of[p][d]] = of[p]
      BY Sizes DEF Fds
    <3>. QED BY <3>1 DEF Closed
  <2>2. Balance(st.s, st.ft, st.s, st.ft)
    BY DEF Balance
  <2>. QED BY <1>1, <2>1, <2>2
<1>4. ASSUME NEW k \in 1..OpenFile, Good(k - 1) PROVE Good(k)
  <2> DEFINE d == k - 1
             f == of[p][d]
             o1 == Closed(of, p, k - 1)
             o2 == Closed(of, p, k)
  <2>1. d \in Fds /\ f \in 0..NFile
    BY Sizes DEF Fds
  <2>2. OneFd(o1, o2, p, d, f, 0)
    BY <2>1 DEF Closed, Fds, OneFd
  <2> HIDE DEF o1, o2
  <2>3. \A g : /\ Held(o1, g) \in Nat
               /\ Held(o2, g) = Held(o1, g) - (IF f = g THEN 1 ELSE 0) + (IF 0 = g THEN 1 ELSE 0)
    <3> HIDE DEF f, d
    <3>. QED BY <2>1, <2>2, HoldersMove
  <2>4. w[k] = CloseOpen(w[k - 1], f)
    BY <1>1
  <2>5. ASSUME NEW g \in Files
        PROVE  Claims(o2, orph)[g] = Claims(o1, orph)[g] - (IF f = g THEN 1 ELSE 0)
    <3>1. g # 0
      BY Sizes
    <3>2. /\ Held(o1, g) \in Nat
          /\ Held(o2, g) = Held(o1, g) - (IF f = g THEN 1 ELSE 0)
      BY <2>3, <3>1
    <3>. QED BY <3>2 DEF Claims
  <2>6. CASE f = 0
    <3>1. w[k] = w[k - 1]
      BY <2>4, <2>6 DEF CloseOpen
    <3>2. Claims(o2, orph) = Claims(o1, orph)
      <4>1. \A g \in Files : Claims(o2, orph)[g] = Claims(o1, orph)[g]
        <5>1. \A g \in Files : Claims(o1, orph)[g] \in Int /\ g # 0
          BY <2>3, Sizes DEF Claims
        <5>. QED BY <5>1, <2>5, <2>6
      <4>. QED BY <4>1 DEF Claims
    <3>. QED BY <3>1, <3>2, <1>4 DEF o1, o2
  <2>7. CASE f # 0
    <3>1. f \in Files
      BY <2>1, <2>7, Sizes DEF Files
    <3>2. w[k] = FileClose(w[k - 1], f)
      BY <2>4, <2>7 DEF CloseOpen
    <3>3. Claims(o1, orph)[f] # 0
      <4>1. Held(o1, f) > 0
        BY <2>1, <2>2, HoldersType DEF OneFd
      <4>. QED BY <4>1, <3>1, <2>3 DEF Claims
    <3>4. Claims(o2, orph)[f] = Claims(o1, orph)[f] - 1
      BY <3>1, <2>5
    <3>5. \A g \in Files : g # f => Claims(o2, orph)[g] = Claims(o1, orph)[g]
      <4>1. \A g \in Files : Claims(o1, orph)[g] \in Int
        BY <2>3 DEF Claims
      <4>. QED BY <4>1, <2>5
    <3>6. IsTables(w[k - 1]) /\ FilesOK(w[k - 1].ft, w[k - 1].pp, Claims(o1, orph)) /\ Shape(w[k - 1].s)
      BY <1>4 DEF o1, Balance
    <3>7. /\ IsTables(w[k]) /\ FilesOK(w[k].ft, w[k].pp, Claims(o2, orph))
          /\ Balance(w[k - 1].s, w[k - 1].ft, w[k].s, w[k].ft)
      BY <3>1, <3>2, <3>3, <3>4, <3>5, <3>6, FileCloseOK
    <3>8. Balance(st.s, st.ft, w[k].s, w[k].ft)
      BY <3>7, <1>4, BalanceTrans
    <3>. QED BY <3>7, <3>8 DEF o2
  <2>. QED BY <2>6, <2>7
<1> HIDE DEF Good
<1> DEFINE T == {k \in 0..OpenFile : ~Good(k)}
<1>5. ASSUME T # {} PROVE FALSE
  <2>1. PICK k \in T : \A y \in T : k <= y
    <3>1. T \in SUBSET Nat
      OBVIOUS
    <3>. QED BY <3>1, <1>5, NatMin
  <2>2. k # 0
    BY <1>3
  <2>3. k \in 1..OpenFile /\ k - 1 \in 0..OpenFile /\ k - 1 \notin T
    BY <2>1, <2>2, <1>2
  <2>4. Good(k - 1)
    BY <2>3
  <2>5. Good(k)
    BY <2>3, <2>4, <1>4
  <2>. QED BY <2>1, <2>5
<1>6. Good(OpenFile)
  BY <1>2, <1>5
<1>7. Closed(of, p, OpenFile) = [of EXCEPT ![p] = [d \in Fds |-> 0]]
  <2>1. [d \in Fds |-> IF d < OpenFile THEN 0 ELSE of[p][d]] = [d \in Fds |-> 0]
    BY Sizes DEF Fds
  <2>. QED BY <2>1 DEF Closed
<1>. QED BY <1>6, <1>7 DEF Good, w

-----------------------------------------------------------------------------
(* The invariant. *)

\* The counts of the inodes are those of the files, of the processes and of
\* inodes.root.
RcExact(s, ft, counts) ==
    \A i \in Inos : s.ic[i].rc = IpCount(ft, i) + Count(Procs, counts, i) + (IF i = RootNo THEN 1 ELSE 0)

\* A process that is not there holds nothing.
ProcsOK(of, cw, counts) ==
    /\ of \in [Procs -> [Fds -> 0..NFile]]
    /\ cw = [p \in Procs |-> cw[p]]
    /\ counts = [p \in Procs |-> counts[p]]
    /\ \A p \in Procs : cw[p] = 0 => counts[p] = 0 /\ \A d \in Fds : of[p][d] = 0

\* The inductive invariant.  After a failure the table and the pipes still agree,
\* while the counts of the inodes say nothing.
FsInv ==
    /\ Shape(fs)
    /\ FilesOK(ftable, pipes, Claims(ofiles, orphans))
    /\ ProcsOK(ofiles, cwd, counted)
    /\ ~strayed /\ fs.bad = "ok" => RcExact(fs, ftable, counted)

\* A move at no inode moves nothing.
LEMMA MovesNone ==
  ASSUME NEW s, Shape(s), NEW t, NEW d, Moves(s, t, 0, d)
  PROVE  Keeps(s, t)
<1>1. \A j \in Inos : s.ic[j].rc \in Int
  BY DEF Shape, IcOK, CellOK
<1>. QED BY <1>1, ZeroNoInode DEF Moves, Keeps

\* No count and no file changes.
LEMMA BalanceKeeps ==
  ASSUME NEW s, Shape(s), NEW t, NEW ft, NEW ft2, Keeps(s, t), SameIps(ft, ft2)
  PROVE  Balance(s, ft, t, ft2)
<1>1. \A i : IpCount(ft, i) \in Nat /\ IpCount(ft2, i) = IpCount(ft, i)
  BY IpSame DEF SameIps
<1>. QED BY <1>1 DEF Keeps, Balance

\* A reference is taken for the file that is opened.
LEMMA BalanceOpen ==
  ASSUME NEW s, Shape(s), NEW t, NEW ft, NEW ft2, NEW f \in Files, Moves(s, t, ft2[f].ip, 1),
         OneFile(ft, ft2, f), ft[f].ip = 0
  PROVE  Balance(s, ft, t, ft2)
<1>1. ASSUME NEW i \in Inos
      PROVE  IpCount(ft, i) \in Nat /\ IpCount(ft2, i) = IpCount(ft, i) + (IF i = ft2[f].ip THEN 1 ELSE 0)
  <2>1. /\ IpCount(ft, i) \in Nat
        /\ IpCount(ft2, i) = IpCount(ft, i) - (IF ft[f].ip = i THEN 1 ELSE 0) + (IF ft2[f].ip = i THEN 1 ELSE 0)
    BY IpMove
  <2>. QED BY <2>1, ZeroNoInode
<1>2. \A j \in Inos : s.ic[j].rc \in Int
  BY DEF Shape, IcOK, CellOK
<1>3. Shape(t)
  BY DEF Moves
<1>4. ASSUME t.bad = "ok", NEW i \in Inos
      PROVE  t.ic[i].rc + IpCount(ft, i) = s.ic[i].rc + IpCount(ft2, i)
  <2>1. t.ic[i].rc = s.ic[i].rc + (IF i = ft2[f].ip THEN 1 ELSE 0)
    BY <1>4 DEF Moves
  <2>. QED BY <2>1, <1>1, <1>2
<1>5. t.bad = "ok" => s.bad = "ok"
  BY DEF Moves
<1>. QED BY <1>3, <1>4, <1>5 DEF Balance

\* A step that moves the counts as it changes the files keeps them exact.
LEMMA RcBalance ==
  ASSUME NEW s, Shape(s), NEW t, NEW ft, NEW ft2, NEW counts, Balance(s, ft, t, ft2), t.bad = "ok",
         RcExact(s, ft, counts)
  PROVE  RcExact(t, ft2, counts)
<1>1. ASSUME NEW i \in Inos
      PROVE  t.ic[i].rc = IpCount(ft2, i) + Count(Procs, counts, i) + (IF i = RootNo THEN 1 ELSE 0)
  <2>1. t.ic[i].rc + IpCount(ft, i) = s.ic[i].rc + IpCount(ft2, i)
    BY DEF Balance
  <2>2. s.ic[i].rc = IpCount(ft, i) + Count(Procs, counts, i) + (IF i = RootNo THEN 1 ELSE 0)
    BY DEF RcExact
  <2>3. IpCount(ft, i) \in Nat /\ IpCount(ft2, i) \in Nat
    BY IpSame
  <2>4. Shape(t)
    BY DEF Balance
  <2>5. t.ic[i].rc \in Int
    BY <2>4 DEF Shape, IcOK, CellOK
  <2>6. Count(Procs, counts, i) \in Nat
    <3>1. {p \in Procs : counts[p] = i} \in SUBSET Procs
      OBVIOUS
    <3>. QED BY <3>1, Sizes, FS_Subset, FS_CardinalityType DEF Count
  <2>7. PICK k \in Nat : k = IF i = RootNo THEN 1 ELSE 0
    OBVIOUS
  <2>8. s.ic[i].rc \in Int /\ s.ic[i].rc = IpCount(ft, i) + Count(Procs, counts, i) + k
    BY <2>2, <2>7 DEF Shape, IcOK, CellOK
  <2>9. t.ic[i].rc = IpCount(ft2, i) + Count(Procs, counts, i) + k
    <3>1. \A x, y, a, b, c \in Int : x + a = y + b /\ y = a + c + k => x = b + c + k
      OBVIOUS
    <3>2. /\ t.ic[i].rc \in Int /\ s.ic[i].rc \in Int /\ IpCount(ft, i) \in Int /\ IpCount(ft2, i) \in Int
          /\ Count(Procs, counts, i) \in Int
      BY <2>3, <2>5, <2>6, <2>8
    <3>3. s.ic[i].rc = IpCount(ft, i) + Count(Procs, counts, i) + k
      BY <2>8
    <3>. QED BY <3>1, <3>2, <3>3, <2>1
  <2>. QED BY <2>7, <2>9
<1>. QED BY <1>1 DEF RcExact

\* A call that leaves the processes in their directories.
LEMMA CallInv ==
  ASSUME FsInv, Balance(fs, ftable, fs', ftable'), FilesOK(ftable', pipes', Claims(ofiles', orphans')),
         ProcsOK(ofiles', cwd', counted'), counted' = counted, strayed => strayed'
  PROVE  FsInv'
<1>1. Shape(fs) /\ Shape(fs') /\ (fs'.bad = "ok" => fs.bad = "ok")
  BY DEF FsInv, Balance
<1>2. ASSUME ~strayed', fs'.bad = "ok" PROVE RcExact(fs', ftable', counted')
  <2>1. RcExact(fs, ftable, counted)
    BY <1>1, <1>2 DEF FsInv
  <2>2. RcExact(fs', ftable', counted)
    BY <2>1, <1>1, <1>2, RcBalance
  <2>. QED BY <2>2
<1>. QED BY <1>1, <1>2 DEF FsInv

\* A call that changes the file system and no table.
LEMMA FsOnly ==
  ASSUME FsInv, Keeps(fs, fs'), UNCHANGED <<ftable, ofiles, pipes, counted, orphans>>,
         ProcsOK(ofiles, cwd', counted), strayed => strayed'
  PROVE  FsInv'
<1>1. SameIps(ftable, ftable')
  BY DEF SameIps
<1>2. Shape(fs)
  BY DEF FsInv
<1>3. Balance(fs, ftable, fs', ftable')
  BY <1>1, <1>2, BalanceKeeps
<1>4. FilesOK(ftable', pipes', Claims(ofiles', orphans'))
  BY DEF FsInv
<1>. QED BY <1>3, <1>4, CallInv

\* A move between cache_begin_op and cache_end_op.
LEMMA BeginMoves ==
  ASSUME NEW s, Shape(s), NEW b, b = BeginOp(s), NEW t, NEW i, NEW d, Moves(b, t, i, d), NEW r, r = Op(s, t)
  PROVE  Shape(t) /\ Moves(s, t, i, d) /\ Moves(s, r, i, d)
<1>1. Keeps(s, b)
  BY BeginOpKeeps
<1>2. Shape(t)
  BY DEF Moves
<1>3. Moves(s, t, i, d)
  BY <1>1, MovesAfter
<1>. QED BY <1>2, <1>3, OpMoves

-----------------------------------------------------------------------------
(* Every call preserves the invariant. *)

\* What the table owes when one descriptor changes from file a to file b.
Owed(of, orph, g) == Held(of, g) + (IF g \in orph THEN 1 ELSE 0)

\* One descriptor changes: the claims change by one at most.
LEMMA ClaimsMove ==
  ASSUME NEW of, NEW of2, NEW p \in Procs, NEW d \in Fds, NEW a, NEW b, OneFd(of, of2, p, d, a, b),
         NEW orph, NEW g \in Files
  PROVE  /\ Owed(of, orph, g) \in Nat
         /\ Owed(of2, orph, g) = Owed(of, orph, g) - (IF a = g THEN 1 ELSE 0) + (IF b = g THEN 1 ELSE 0)
<1>1. /\ Held(of, g) \in Nat
      /\ Held(of2, g) = Held(of, g) - (IF a = g THEN 1 ELSE 0) + (IF b = g THEN 1 ELSE 0)
  BY HoldersMove
<1>. QED BY <1>1 DEF Owed

\* The claims, one by one.
LEMMA ClaimsAre ==
  ASSUME NEW of, NEW orph
  PROVE  \A g \in Files : Claims(of, orph)[g] = Owed(of, orph, g)
BY DEF Claims, Owed

\* A file that a descriptor holds has a claim.
LEMMA ClaimsType ==
  ASSUME NEW of, NEW orph, NEW g \in Files
  PROVE  /\ Claims(of, orph)[g] \in Nat
         /\ Claims(of, orph)[g] = Held(of, g) + (IF g \in orph THEN 1 ELSE 0)
         /\ \A p \in Procs, d \in Fds : of[p][d] = g => Claims(of, orph)[g] > 0
<1>1. Held(of, g) \in Nat /\ \A p \in Procs, d \in Fds : of[p][d] = g => Held(of, g) > 0
  BY HoldersType
<1>. QED BY <1>1 DEF Claims

\* A running process opens or closes descriptor d.
LEMMA ProcsSet ==
  ASSUME NEW of, NEW cw, NEW counts, ProcsOK(of, cw, counts), NEW p \in Procs, cw[p] # 0,
         NEW d \in Fds, NEW v \in 0..NFile, NEW of2, of2 = [of EXCEPT ![p][d] = v]
  PROVE  ProcsOK(of2, cw, counts) /\ OneFd(of, of2, p, d, of[p][d], v)
<1>1. of \in [Procs -> [Fds -> 0..NFile]]
  BY DEF ProcsOK
<1>2. of2 \in [Procs -> [Fds -> 0..NFile]] /\ of2[p][d] = v /\ \A q \in Procs : q # p => of2[q] = of[q]
  BY <1>1
<1>3. \A e \in Fds : e # d => of2[p][e] = of[p][e]
  BY <1>1
<1>4. OneFd(of, of2, p, d, of[p][d], v)
  BY <1>2, <1>3 DEF OneFd
<1>. QED BY <1>2, <1>4 DEF ProcsOK

\* The references of a free file are none.
LEMMA FreeFile ==
  ASSUME FsInv, NEW f \in Files, ftable[f].ref = 0
  PROVE  /\ ftable[f].ip = 0 /\ ftable[f].pipe = None /\ Claims(ofiles, orphans)[f] = 0 /\ f \notin orphans
         /\ Held(ofiles, f) = 0
<1>1. FileOK(ftable[f]) /\ Claims(ofiles, orphans)[f] = 0
  BY DEF FsInv, FilesOK
<1>2. Held(ofiles, f) \in Nat /\ Held(ofiles, f) + (IF f \in orphans THEN 1 ELSE 0) = 0
  BY <1>1, ClaimsType, HoldersType
<1>. QED BY <1>1, <1>2 DEF FileOK

\* openat puts the inode it found, or a new file keeps it.
LEMMA OpenatInv ==
  ASSUME FsInv, NEW p \in Procs, NEW path \in Paths, NEW create, NEW omode, Openat(p, path, create, omode)
  PROVE  FsInv'
<1> DEFINE b == BeginOp(fs)
           s == OpenInode(b, p, path, create)
           f == FileAlloc(ftable)
           d == FdAlloc(ofiles[p])
           u == UnlockPut(s, s.ret)
           v == Unlock(s, s.ret)
<1>0. Shape(fs) /\ ProcsOK(ofiles, cwd, counted) /\ FilesOK(ftable, pipes, Claims(ofiles, orphans))
  BY DEF FsInv
<1>1. UNCHANGED <<cwd, pipes, counted, strayed, orphans>> /\ cwd[p] # 0
  BY DEF Openat, Running
<1>2. PICK y : y = [NoFile EXCEPT !.ref = 1, !.type = "inode", !.ip = s.ret,
                                  !.rd = omode # "w", !.wr = omode # "r"]
  OBVIOUS
<1>3. \/ (s.bad # "ok" \/ s.ret = 0) /\ fs' = Op(fs, s) /\ UNCHANGED <<ftable, ofiles>>
      \/ fs' = Op(fs, u) /\ UNCHANGED <<ftable, ofiles>>
      \/ /\ f # 0 /\ d >= 0 /\ fs' = Op(fs, v)
         /\ ofiles' = [ofiles EXCEPT ![p][d] = f]
         /\ ftable' = [ftable EXCEPT ![f] = y]
  BY <1>2 DEF Openat, Finish, OpenFits
<1>4. IsFile(y) /\ y.ref = 1 /\ y.type = "inode" /\ y.ip = s.ret /\ y.pipe = None
  <2> HIDE DEF s
  <2>. QED BY <1>2 DEF NoFile, IsFile
<1>5. Keeps(fs, b)
  BY <1>0, BeginOpKeeps
<1>6. Moves(b, s, s.ret, 1)
  <2>1. Shape(b)
    BY <1>5 DEF Keeps
  <2>2. Len(path.elems) \in Nat
    BY FileSysAssumption
  <2> HIDE DEF b
  <2>. QED BY <2>1, <2>2, OpenInodeMoves
<1> HIDE DEF b, s
<1>7. Moves(fs, s, s.ret, 1)
  BY <1>5, <1>6, MovesAfter
<1>8. Shape(s)
  BY <1>7 DEF Moves
<1>9. CASE (s.bad # "ok" \/ s.ret = 0) /\ fs' = Op(fs, s) /\ UNCHANGED <<ftable, ofiles>>
  <2>1. Keeps(fs, s)
    BY <1>9, <1>7, <1>8, <1>0, MovesNone, FailedAny
  <2>2. Keeps(fs, fs')
    BY <2>1, <1>0, <1>8, <1>9, OpMoves
  <2>. QED BY <2>2, <1>0, <1>1, <1>9, FsOnly
<1>10. CASE fs' = Op(fs, u) /\ UNCHANGED <<ftable, ofiles>>
  <2>1. Moves(s, u, s.ret, -1)
    BY <1>8, UnlockPutMoves DEF MovesRet
  <2>2. Shape(u)
    BY <2>1 DEF Moves
  <2> HIDE DEF u
  <2>3. Keeps(fs, u)
    BY <2>1, <1>0, <1>7, MovesBack
  <2>4. Keeps(fs, fs')
    BY <2>2, <2>3, <1>0, <1>10, OpMoves
  <2>. QED BY <2>4, <1>0, <1>1, <1>10, FsOnly
<1>11. CASE /\ f # 0 /\ d >= 0 /\ fs' = Op(fs, v)
            /\ ofiles' = [ofiles EXCEPT ![p][d] = f]
            /\ ftable' = [ftable EXCEPT ![f] = y]
  <2>1. f \in Files /\ ftable[f].ref = 0
    BY <1>11, FileAllocIs
  <2>2. d \in Fds /\ ofiles[p][d] = 0
    BY <1>11, FdAllocIs
  <2> HIDE DEF f, d
  <2>3. Moves(fs, fs', s.ret, 1)
    <3>1. Keeps(s, v)
      BY <1>8, LockKeeps DEF KeepsRet
    <3>2. Shape(v)
      BY <3>1 DEF Keeps
    <3> HIDE DEF v
    <3>3. Moves(fs, v, s.ret, 1)
      BY <3>1, <1>7, KeepsTrans
    <3>. QED BY <3>2, <3>3, <1>0, <1>11, OpMoves
  <2>4. ftable[f].ip = 0 /\ ftable[f].pipe = None /\ Claims(ofiles, orphans)[f] = 0
    BY <2>1, FreeFile
  <2>5. ftable' = [g \in Files |-> IF g = f THEN y ELSE ftable[g]]
    BY <1>0, <1>11 DEF FilesOK
  <2>6. OneFile(ftable, ftable', f) /\ ftable'[f].ip = s.ret
    BY <2>1, <2>5, <1>4 DEF OneFile
  <2>7. Balance(fs, ftable, fs', ftable')
    BY <2>1, <2>3, <2>4, <2>6, <1>0, BalanceOpen
  <2>8. f \in 0..NFile
    BY <2>1, Sizes DEF Files
  <2>9. ProcsOK(ofiles', cwd, counted) /\ OneFd(ofiles, ofiles', p, d, 0, f)
    BY <2>2, <2>8, <1>0, <1>1, <1>11, ProcsSet
  <2>10. ASSUME NEW g \in Files
         PROVE  Claims(ofiles', orphans)[g] = IF g = f THEN 1 ELSE Claims(ofiles, orphans)[g]
    <3>1. /\ Owed(ofiles, orphans, g) \in Nat
          /\ Owed(ofiles', orphans, g) = Owed(ofiles, orphans, g) - (IF 0 = g THEN 1 ELSE 0) + (IF f = g THEN 1 ELSE 0)
      BY <2>2, <2>9, ClaimsMove
    <3>2. g # 0
      BY Sizes
    <3>3. Claims(ofiles, orphans)[g] = Owed(ofiles, orphans, g) /\ Claims(ofiles', orphans)[g] = Owed(ofiles', orphans, g)
      BY ClaimsAre
    <3>. QED BY <3>1, <3>2, <3>3, <2>4
  <2>11. FileOK(y)
    BY <1>4 DEF FileOK
  <2>12. FilesOK([ftable EXCEPT ![f] = y], pipes, Claims(ofiles', orphans))
    BY <2>1, <2>4, <2>10, <2>11, <1>0, <1>4, FileUpdate
  <2>13. FilesOK(ftable', pipes', Claims(ofiles', orphans')) /\ ProcsOK(ofiles', cwd', counted')
    BY <2>9, <2>12, <1>1, <1>11
  <2>. QED BY <2>7, <2>13, <1>1, CallInv
<1>. QED BY <1>3, <1>9, <1>10, <1>11

\* mkdirat and mknodat put the inode they made.
LEMMA MakeNodeInv ==
  ASSUME FsInv, NEW p \in Procs, NEW path \in Paths, NEW type, MakeNode(p, path, type)
  PROVE  FsInv'
<1> DEFINE b == BeginOp(fs)
           s == Create(b, p, path, type)
           u == UnlockPut(s, s.ret)
<1>0. Shape(fs) /\ ProcsOK(ofiles, cwd, counted)
  BY DEF FsInv
<1>1. UNCHANGED <<ftable, ofiles, cwd, pipes, counted, strayed, orphans>>
  BY DEF MakeNode
<1>2. ((s.bad # "ok" \/ s.ret = 0) /\ fs' = Op(fs, s)) \/ fs' = Op(fs, u)
  BY DEF MakeNode, Finish, Then
<1>5. Keeps(fs, b)
  BY <1>0, BeginOpKeeps
<1>6. Moves(b, s, s.ret, 1)
  <2>1. Shape(b)
    BY <1>5 DEF Keeps
  <2>2. Len(path.elems) \in Nat
    BY FileSysAssumption
  <2> HIDE DEF b
  <2>. QED BY <2>1, <2>2, CreateMoves
<1> HIDE DEF b, s
<1>7. Moves(fs, s, s.ret, 1)
  BY <1>5, <1>6, MovesAfter
<1>8. Shape(s)
  BY <1>7 DEF Moves
<1>9. CASE (s.bad # "ok" \/ s.ret = 0) /\ fs' = Op(fs, s)
  <2>1. Keeps(fs, s)
    BY <1>9, <1>7, <1>8, <1>0, MovesNone, FailedAny
  <2>2. Keeps(fs, fs')
    BY <2>1, <1>0, <1>8, <1>9, OpMoves
  <2>. QED BY <2>2, <1>0, <1>1, FsOnly
<1>10. CASE fs' = Op(fs, u)
  <2>1. Moves(s, u, s.ret, -1)
    BY <1>8, UnlockPutMoves DEF MovesRet
  <2>2. Shape(u)
    BY <2>1 DEF Moves
  <2> HIDE DEF u
  <2>3. Keeps(fs, u)
    BY <2>1, <1>0, <1>7, MovesBack
  <2>4. Keeps(fs, fs')
    BY <2>2, <2>3, <1>0, <1>10, OpMoves
  <2>. QED BY <2>4, <1>0, <1>1, FsOnly
<1>. QED BY <1>2, <1>9, <1>10

\* The walk that newfstatat, unlinkat and chdir start with.
LEMMA WalkMoves ==
  ASSUME FsInv, NEW p \in Procs, NEW path \in Paths, NEW parent,
         NEW t, t = Namex(BeginOp(fs), cwd[p], path, parent)
  PROVE  /\ Shape(t) /\ Moves(fs, t, t.ret, 1)
         /\ t.bad # "ok" \/ t.ret = 0 => Keeps(fs, t)
<1> DEFINE b == BeginOp(fs)
<1>0. Shape(fs)
  BY DEF FsInv
<1>1. Keeps(fs, b)
  BY <1>0, BeginOpKeeps
<1>2. Moves(b, t, t.ret, 1)
  <2>1. Shape(b)
    BY <1>1 DEF Keeps
  <2>2. Len(path.elems) \in Nat
    BY FileSysAssumption
  <2>3. t = Namex(b, cwd[p], path, parent)
    OBVIOUS
  <2> HIDE DEF b
  <2>. QED BY <2>1, <2>2, <2>3, NamexMoves
<1> HIDE DEF b
<1>3. Moves(fs, t, t.ret, 1)
  BY <1>1, <1>2, MovesAfter
<1>4. Shape(t)
  BY <1>3 DEF Moves
<1>. QED BY <1>0, <1>3, <1>4, MovesNone, FailedAny

\* sys_newfstatat.
LEMMA NewfstatatInv ==
  ASSUME FsInv, NEW p \in Procs, NEW path \in Paths, Newfstatat(p, path)
  PROVE  FsInv'
<1> DEFINE t == Namex(BeginOp(fs), cwd[p], path, FALSE)
           u == FileStat(t, t.ret)
           v == InodePut(u, u.ret)
<1>0. Shape(fs) /\ ProcsOK(ofiles, cwd, counted)
  BY DEF FsInv
<1>1. UNCHANGED <<ftable, ofiles, cwd, pipes, counted, strayed, orphans>>
  BY DEF Newfstatat
<1>2. \/ (t.bad # "ok" \/ t.ret = 0) /\ fs' = Op(fs, t)
      \/ u.bad # "ok" /\ fs' = Op(fs, u)
      \/ fs' = Op(fs, v)
  BY DEF Newfstatat, Finish, Then
<1>3. Shape(t) /\ Moves(fs, t, t.ret, 1) /\ (t.bad # "ok" \/ t.ret = 0 => Keeps(fs, t))
  BY WalkMoves
<1> HIDE DEF t
<1>4. Keeps(t, u) /\ u.ret = t.ret
  BY <1>3, FileStatKeeps DEF KeepsRet
<1>5. Shape(u)
  BY <1>4 DEF Keeps
<1> HIDE DEF u
<1>6. Moves(u, v, t.ret, -1)
  BY <1>4, <1>5, InodePutMoves DEF MovesRet
<1>7. Shape(v)
  BY <1>6 DEF Moves
<1> HIDE DEF v
<1>8. Keeps(fs, v)
  <2>1. Moves(fs, u, t.ret, 1)
    BY <1>3, <1>4, KeepsTrans
  <2>. QED BY <2>1, <1>0, <1>6, MovesBack
<1>9. Keeps(fs, fs')
  <2>1. CASE (t.bad # "ok" \/ t.ret = 0) /\ fs' = Op(fs, t)
    BY <2>1, <1>0, <1>3, OpMoves
  <2>2. CASE u.bad # "ok" /\ fs' = Op(fs, u)
    <3>1. Keeps(fs, u)
      BY <2>2, <1>5, FailedAny
    <3>. QED BY <3>1, <2>2, <1>0, <1>5, OpMoves
  <2>3. CASE fs' = Op(fs, v)
    BY <2>3, <1>0, <1>7, <1>8, OpMoves
  <2>. QED BY <1>2, <2>1, <2>2, <2>3
<1>. QED BY <1>0, <1>1, <1>9, FsOnly

\* sys_unlinkat.
LEMMA UnlinkatInv ==
  ASSUME FsInv, NEW p \in Procs, NEW path \in Paths, Unlinkat(p, path)
  PROVE  FsInv'
<1> DEFINE t == Namex(BeginOp(fs), cwd[p], path, TRUE)
           u == Unlink(t, t.ret, Last(path.elems))
<1>0. Shape(fs) /\ ProcsOK(ofiles, cwd, counted)
  BY DEF FsInv
<1>1. UNCHANGED <<ftable, ofiles, cwd, pipes, counted, orphans>> /\ (strayed => strayed')
  BY DEF Unlinkat
<1>2. ((t.bad # "ok" \/ t.ret = 0) /\ fs' = Op(fs, t)) \/ fs' = Op(fs, u)
  BY DEF Unlinkat, Finish, Then
<1>3. Shape(t) /\ Moves(fs, t, t.ret, 1) /\ (t.bad # "ok" \/ t.ret = 0 => Keeps(fs, t))
  BY WalkMoves
<1> HIDE DEF t
<1>4. Moves(t, u, t.ret, -1)
  BY <1>3, UnlinkMoves
<1>5. Shape(u)
  BY <1>4 DEF Moves
<1> HIDE DEF u
<1>6. Keeps(fs, u)
  BY <1>0, <1>3, <1>4, MovesBack
<1>7. Keeps(fs, fs')
  <2>1. CASE (t.bad # "ok" \/ t.ret = 0) /\ fs' = Op(fs, t)
    BY <2>1, <1>0, <1>3, OpMoves
  <2>2. CASE fs' = Op(fs, u)
    BY <2>2, <1>0, <1>5, <1>6, OpMoves
  <2>. QED BY <1>2, <2>1, <2>2
<1>. QED BY <1>0, <1>1, <1>7, FsOnly

\* chdir puts the new directory as well: no count changes.
LEMMA ChdirInv ==
  ASSUME FsInv, NEW p \in Procs, NEW path \in Paths, Chdir(p, path)
  PROVE  FsInv'
<1> DEFINE t == Namex(BeginOp(fs), cwd[p], path, FALSE)
           u == Lock(t, t.ret)
           v == UnlockPut(u, u.ret)
           s == IF t.bad = "ok" THEN IF t.ret = 0 THEN t ELSE IF u.bad = "ok" THEN v ELSE u ELSE t
<1>0. Shape(fs) /\ ProcsOK(ofiles, cwd, counted)
  BY DEF FsInv
<1>1. UNCHANGED <<ftable, ofiles, pipes, counted, strayed, orphans>> /\ cwd[p] # 0
  BY DEF Chdir, Running
<1>2. /\ fs' = Op(fs, s)
      /\ cwd' = IF s.bad = "ok" /\ s.ret # 0 /\ s.ent[s.ret].type = "dir" THEN [cwd EXCEPT ![p] = s.ret] ELSE cwd
  BY DEF Chdir, Finish, Then
<1>d. \/ (t.bad # "ok" \/ t.ret = 0) /\ s = t
      \/ u.bad # "ok" /\ s = u
      \/ s = v
  OBVIOUS
<1> HIDE DEF s
<1>3. Shape(t) /\ Moves(fs, t, t.ret, 1) /\ (t.bad # "ok" \/ t.ret = 0 => Keeps(fs, t))
  BY WalkMoves
<1> HIDE DEF t
<1>4. Keeps(t, u) /\ u.ret = t.ret
  BY <1>3, LockKeeps DEF KeepsRet
<1>5. Shape(u)
  BY <1>4 DEF Keeps
<1> HIDE DEF u
<1>6. Moves(u, v, t.ret, -1)
  BY <1>4, <1>5, UnlockPutMoves DEF MovesRet
<1>7. Shape(v)
  BY <1>6 DEF Moves
<1> HIDE DEF v
<1>8. Keeps(fs, v)
  <2>1. Moves(fs, u, t.ret, 1)
    BY <1>3, <1>4, KeepsTrans
  <2>. QED BY <2>1, <1>0, <1>6, MovesBack
<1>9. Keeps(fs, s) /\ Shape(s)
  BY <1>d, <1>3, <1>5, <1>7, <1>8, FailedAny
<1>10. Keeps(fs, fs')
  BY <1>0, <1>2, <1>9, OpMoves
<1>11. ProcsOK(ofiles, cwd', counted)
  <2>1. cwd = [q \in Procs |-> cwd[q]]
    BY <1>0 DEF ProcsOK
  <2>2. cwd' = [q \in Procs |-> cwd'[q]] /\ \A q \in Procs : cwd'[q] = 0 => cwd[q] = 0
    BY <2>1, <1>1, <1>2
  <2>. QED BY <2>2, <1>0 DEF ProcsOK
<1>. QED BY <1>0, <1>1, <1>10, <1>11, FsOnly

\* sys_fstat.
LEMMA FstatInv ==
  ASSUME FsInv, NEW p \in Procs, NEW d \in Fds, Fstat(p, d)
  PROVE  FsInv'
<1> DEFINE i == ftable[ofiles[p][d]].ip
           t == FileStat(fs, i)
<1>0. Shape(fs) /\ ProcsOK(ofiles, cwd, counted)
  BY DEF FsInv
<1>1. UNCHANGED <<ftable, ofiles, cwd, pipes, counted, strayed, orphans>> /\ fs' = Op(fs, t)
  BY DEF Fstat, Finish
<1>2. Keeps(fs, t)
  BY <1>0, FileStatKeeps DEF KeepsRet
<1>3. Shape(t)
  BY <1>2 DEF Keeps
<1> HIDE DEF t
<1>4. Keeps(fs, fs')
  BY <1>0, <1>1, <1>2, <1>3, OpMoves
<1>. QED BY <1>0, <1>1, <1>4, FsOnly

\* An open descriptor names a file that has it as a claim.
LEMMA OpenFd ==
  ASSUME FsInv, NEW p \in Procs, NEW d \in Fds, ofiles[p][d] # 0
  PROVE  /\ ofiles[p][d] \in Files /\ Claims(ofiles, orphans)[ofiles[p][d]] > 0
         /\ FileOK(ftable[ofiles[p][d]])
         /\ ftable[ofiles[p][d]].ref = Claims(ofiles, orphans)[ofiles[p][d]]
<1>1. ofiles[p][d] \in 0..NFile
  BY DEF FsInv, ProcsOK
<1>2. ofiles[p][d] \in Files
  BY <1>1, Sizes DEF Files
<1>3. Claims(ofiles, orphans)[ofiles[p][d]] > 0
  BY <1>2, ClaimsType
<1>. QED BY <1>2, <1>3 DEF FsInv, FilesOK

\* The offset of an open file moves.
LEMMA OffsetInv ==
  ASSUME FsInv, Keeps(fs, fs'), NEW p \in Procs, NEW d \in Fds, ofiles[p][d] # 0, NEW x,
         ftable' = [ftable EXCEPT ![ofiles[p][d]].off = x],
         UNCHANGED <<ofiles, cwd, pipes, counted, strayed, orphans>>
  PROVE  FsInv'
<1> DEFINE f == ofiles[p][d]
           y == [ftable[f] EXCEPT !.off = x]
<1>0. Shape(fs) /\ ProcsOK(ofiles, cwd, counted) /\ FilesOK(ftable, pipes, Claims(ofiles, orphans))
  BY DEF FsInv
<1>1. f \in Files /\ FileOK(ftable[f]) /\ ftable[f].ref = Claims(ofiles, orphans)[f]
  BY OpenFd
<1>2. ftable' = [ftable EXCEPT ![f] = y]
  OBVIOUS
<1> HIDE DEF f
<1>3. IsFile(y) /\ y.ref = ftable[f].ref /\ y.type = ftable[f].type /\ y.ip = ftable[f].ip
      /\ y.pipe = ftable[f].pipe /\ y.wr = ftable[f].wr
  BY <1>1 DEF FileOK, IsFile
<1> HIDE DEF y
<1>4. FileOK(y) /\ End(y) = End(ftable[f])
  BY <1>1, <1>3 DEF FileOK, End
<1>5. FilesOK([ftable EXCEPT ![f] = y], pipes, Claims(ofiles, orphans))
  BY <1>0, <1>1, <1>3, <1>4, FileUpdate
<1>6. FilesOK(ftable', pipes', Claims(ofiles', orphans'))
  BY <1>2, <1>5
<1>7. SameIps(ftable, ftable')
  <2>1. ftable = [g \in Files |-> ftable[g]]
    BY <1>0 DEF FilesOK
  <2>. QED BY <2>1, <1>2, <1>3 DEF SameIps
<1>8. Balance(fs, ftable, fs', ftable')
  BY <1>0, <1>7, BalanceKeeps
<1>. QED BY <1>0, <1>6, <1>8, CallInv

\* sys_read.
LEMMA ReadInv ==
  ASSUME FsInv, NEW p \in Procs, NEW d \in Fds, NEW n, Read(p, d, n)
  PROVE  FsInv'
<1> DEFINE f == ftable[ofiles[p][d]]
           s == FileRead(fs, f, n)
           x == IF s.bad # "ok" THEN f.off ELSE f.off + s.ret
<1>0. Shape(fs)
  BY DEF FsInv
<1>1. /\ UNCHANGED <<ofiles, cwd, pipes, counted, strayed, orphans>> /\ fs' = Op(fs, s)
      /\ ofiles[p][d] # 0 /\ ftable' = [ftable EXCEPT ![ofiles[p][d]].off = x]
  BY DEF Read, Finish
<1>2. Keeps(fs, s)
  BY <1>0, FileReadKeeps
<1>3. Shape(s)
  BY <1>2 DEF Keeps
<1> HIDE DEF s
<1>4. Keeps(fs, fs')
  BY <1>0, <1>1, <1>2, <1>3, OpMoves
<1> HIDE DEF x
<1>. QED BY <1>1, <1>4, OffsetInv

\* sys_write and sys_writev.
LEMMA WriteInv ==
  ASSUME FsInv, NEW p \in Procs, NEW d \in Fds, NEW ns \in Buffers, Write(p, d, ns)
  PROVE  FsInv'
<1> DEFINE f == ftable[ofiles[p][d]]
           acc == [s |-> fs, off |-> f.off]
           w == WriteBuffers(acc, f.ip, ns)[Len(ns)]
<1>0. Shape(fs) /\ ProcsOK(ofiles, cwd, counted)
  BY DEF FsInv
<1>1. /\ UNCHANGED <<ofiles, cwd, pipes, counted, strayed, orphans>> /\ fs' = w.s
      /\ ofiles[p][d] # 0
      /\ ftable' = [ftable EXCEPT ![ofiles[p][d]].off = w.off] \/ ftable' = ftable
  BY DEF Write
<1>2. acc.s = fs /\ ns \in Seq(Nat)
  BY FileSysAssumption
<1>3. Keeps(fs, w.s)
  <2> HIDE DEF acc
  <2>. QED BY <1>0, <1>2, WriteBuffersKeeps
<1> HIDE DEF w
<1>4. Keeps(fs, fs')
  BY <1>1, <1>3
<1>5. CASE ftable' = ftable
  BY <1>0, <1>1, <1>4, <1>5, FsOnly
<1>6. CASE ftable' = [ftable EXCEPT ![ofiles[p][d]].off = w.off]
  BY <1>1, <1>4, <1>6, OffsetInv
<1>. QED BY <1>1, <1>5, <1>6

\* sys_close.
LEMMA CloseInv ==
  ASSUME FsInv, NEW p \in Procs, NEW d \in Fds, Close(p, d)
  PROVE  FsInv'
<1> DEFINE st == [s |-> fs, ft |-> ftable, pp |-> pipes]
           f == ofiles[p][d]
           c == FileClose(st, f)
<1>0. Shape(fs) /\ ProcsOK(ofiles, cwd, counted) /\ FilesOK(ftable, pipes, Claims(ofiles, orphans))
  BY DEF FsInv
<1>1. /\ UNCHANGED <<cwd, counted, strayed, orphans>> /\ cwd[p] # 0 /\ f # 0
      /\ ofiles' = [ofiles EXCEPT ![p][d] = 0] /\ fs' = c.s /\ ftable' = c.ft /\ pipes' = c.pp
  BY DEF Close, Running
<1>2. f \in Files /\ Claims(ofiles, orphans)[f] > 0
  BY <1>1, OpenFd
<1>3. IsTables(st) /\ st.s = fs /\ st.ft = ftable /\ st.pp = pipes
  BY DEF IsTables
<1> HIDE DEF st
<1>4. 0 \in 0..NFile
  BY Sizes
<1>5. ProcsOK(ofiles', cwd, counted) /\ OneFd(ofiles, ofiles', p, d, f, 0)
  BY <1>0, <1>1, <1>4, ProcsSet
<1> HIDE DEF f
<1>6. ASSUME NEW g \in Files
      PROVE  Claims(ofiles', orphans)[g] = IF g = f THEN Claims(ofiles, orphans)[g] - 1 ELSE Claims(ofiles, orphans)[g]
  <2>1. /\ Owed(ofiles, orphans, g) \in Nat
        /\ Owed(ofiles', orphans, g) = Owed(ofiles, orphans, g) - (IF f = g THEN 1 ELSE 0) + (IF 0 = g THEN 1 ELSE 0)
    BY <1>5, ClaimsMove
  <2>2. g # 0
    BY Sizes
  <2>3. Claims(ofiles, orphans)[g] = Owed(ofiles, orphans, g) /\ Claims(ofiles', orphans)[g] = Owed(ofiles', orphans, g)
    BY ClaimsAre
  <2>. QED BY <2>1, <2>2, <2>3
<1>7. Claims(ofiles, orphans)[f] # 0
  BY <1>2
<1>8. FilesOK(c.ft, c.pp, Claims(ofiles', orphans)) /\ Balance(st.s, st.ft, c.s, c.ft)
  <2>1. Shape(st.s) /\ FilesOK(st.ft, st.pp, Claims(ofiles, orphans))
    BY <1>0, <1>3
  <2>2. /\ Claims(ofiles', orphans)[f] = Claims(ofiles, orphans)[f] - 1
        /\ \A g \in Files : g # f => Claims(ofiles', orphans)[g] = Claims(ofiles, orphans)[g]
    BY <1>2, <1>6
  <2>. QED BY <1>2, <1>3, <1>7, <2>1, <2>2, FileCloseOK
<1> HIDE DEF c
<1>9. /\ FilesOK(ftable', pipes', Claims(ofiles', orphans')) /\ Balance(fs, ftable, fs', ftable')
      /\ ProcsOK(ofiles', cwd', counted')
  BY <1>1, <1>3, <1>5, <1>8
<1>. QED BY <1>1, <1>9, CallInv

\* sys_dup.
LEMMA DupInv ==
  ASSUME FsInv, NEW p \in Procs, NEW d \in Fds, Dup(p, d)
  PROVE  FsInv'
<1> DEFINE f == ofiles[p][d]
           e == FdAlloc(ofiles[p])
           y == [ftable[f] EXCEPT !.ref = ftable[f].ref + 1]
<1>0. Shape(fs) /\ ProcsOK(ofiles, cwd, counted) /\ FilesOK(ftable, pipes, Claims(ofiles, orphans))
  BY DEF FsInv
<1>1. /\ UNCHANGED <<fs, pipes, cwd, counted, strayed, orphans>> /\ cwd[p] # 0 /\ f # 0 /\ e >= 0
      /\ ofiles' = [ofiles EXCEPT ![p][e] = f] /\ ftable' = FileDup(ftable, f)
  BY DEF Dup, Running
<1>2. f \in Files /\ Claims(ofiles, orphans)[f] > 0 /\ FileOK(ftable[f]) /\ ftable[f].ref = Claims(ofiles, orphans)[f]
  BY <1>1, OpenFd
<1>3. e \in Fds /\ ofiles[p][e] = 0
  BY <1>1, FdAllocIs
<1> HIDE DEF f, e
<1>4. ftable[f].ref \in Nat
  BY <1>2 DEF FileOK
<1>5. ftable' = [ftable EXCEPT ![f] = y]
  BY <1>1, <1>2, <1>4 DEF FileDup
<1>6. IsFile(y) /\ y.ref = ftable[f].ref + 1 /\ y.type = ftable[f].type /\ y.ip = ftable[f].ip
      /\ y.pipe = ftable[f].pipe /\ y.wr = ftable[f].wr
  BY <1>2 DEF FileOK, IsFile
<1> HIDE DEF y
<1>7. FileOK(y) /\ End(y) = End(ftable[f])
  <2>1. y.ref \in Nat /\ y.ref # 0
    BY <1>4, <1>6
  <2>. QED BY <2>1, <1>2, <1>6 DEF FileOK, End
<1>8. f \in 0..NFile
  BY <1>2, Sizes DEF Files
<1>9. ProcsOK(ofiles', cwd, counted) /\ OneFd(ofiles, ofiles', p, e, 0, f)
  BY <1>0, <1>1, <1>3, <1>8, ProcsSet
<1>10. ASSUME NEW g \in Files
       PROVE  Claims(ofiles', orphans)[g] = IF g = f THEN Claims(ofiles, orphans)[g] + 1 ELSE Claims(ofiles, orphans)[g]
  <2>1. /\ Owed(ofiles, orphans, g) \in Nat
        /\ Owed(ofiles', orphans, g) = Owed(ofiles, orphans, g) - (IF 0 = g THEN 1 ELSE 0) + (IF f = g THEN 1 ELSE 0)
    BY <1>3, <1>9, ClaimsMove
  <2>2. g # 0
    BY Sizes
  <2>3. Claims(ofiles, orphans)[g] = Owed(ofiles, orphans, g) /\ Claims(ofiles', orphans)[g] = Owed(ofiles', orphans, g)
    BY ClaimsAre
  <2>. QED BY <2>1, <2>2, <2>3
<1>11. Claims(ofiles', orphans)[f] = y.ref /\ \A g \in Files : g # f => Claims(ofiles', orphans)[g] = Claims(ofiles, orphans)[g]
  BY <1>2, <1>6, <1>10
<1>12. FilesOK([ftable EXCEPT ![f] = y], pipes, Claims(ofiles', orphans))
  BY <1>0, <1>2, <1>6, <1>7, <1>11, FileUpdate
<1>13. SameIps(ftable, ftable')
  <2>1. ftable = [g \in Files |-> ftable[g]]
    BY <1>0 DEF FilesOK
  <2>. QED BY <2>1, <1>5, <1>6 DEF SameIps
<1>14. Keeps(fs, fs')
  <2>1. Keeps(fs, fs)
    BY <1>0, KeepsSelf
  <2>. QED BY <2>1, <1>1
<1>15. Balance(fs, ftable, fs', ftable')
  BY <1>0, <1>13, <1>14, BalanceKeeps
<1>16. FilesOK(ftable', pipes', Claims(ofiles', orphans')) /\ ProcsOK(ofiles', cwd', counted')
  BY <1>1, <1>5, <1>9, <1>12
<1>. QED BY <1>1, <1>15, <1>16, CallInv

\* pipe2: both ends get a descriptor, or one is closed again and the other is an
\* orphan, or both are.
LEMMA PipeAllocIs ==
  ASSUME FsInv, NEW a, a = PipeAlloc(ftable), a.r # 0, a.w # 0, \E x \in Pipes : pipes[x] = {}
  PROVE  /\ a.r \in Files /\ a.w \in Files /\ a.r # a.w /\ ftable[a.r].ref = 0 /\ ftable[a.w].ref = 0
         /\ a.q \in Pipes /\ pipes[a.q] = {}
<1> DEFINE r == FileAlloc(ftable)
           h == [ftable EXCEPT ![r].ref = 1]
           w == FileAlloc(h)
           q == CHOOSE x \in Pipes : pipes[x] = {}
<1>1. a.r = r /\ a.w = (IF r = 0 THEN 0 ELSE w) /\ a.q = q
  BY DEF PipeAlloc
<1>2. r # 0 /\ a.w = w /\ w # 0
  BY <1>1
<1>3. q \in Pipes /\ pipes[q] = {}
  OBVIOUS
<1> HIDE DEF q
<1>4. r \in Files /\ ftable[r].ref = 0
  BY <1>2, FileAllocIs
<1> HIDE DEF r
<1>5. w \in Files /\ h[w].ref = 0
  <2> HIDE DEF h
  <2>. QED BY <1>2, FileAllocIs
<1> HIDE DEF w
<1>6. ftable = [g \in Files |-> ftable[g]] /\ IsFile(ftable[r])
  BY <1>4 DEF FsInv, FilesOK, FileOK
<1>7. h[r].ref = 1 /\ \A g \in Files : g # r => h[g] = ftable[g]
  BY <1>4, <1>6 DEF IsFile
<1> HIDE DEF h
<1>8. w # r /\ ftable[w].ref = 0
  BY <1>5, <1>7
<1>. QED BY <1>1, <1>2, <1>3, <1>4, <1>5, <1>8

\* sys_pipe2: both descriptors, or none and the files closed.
LEMMA Pipe2Inv ==
  ASSUME FsInv, NEW p \in Procs, Pipe2(p)
  PROVE  FsInv'
<1> DEFINE a == PipeAlloc(ftable)
           r == a.r
           w == a.w
           q == a.q
           d0 == FdAlloc(ofiles[p])
           d1 == FdAlloc([ofiles[p] EXCEPT ![d0] = r])
           ft == [ftable EXCEPT ![r] = PipeEnd(q, FALSE), ![w] = PipeEnd(q, TRUE)]
           pp == [pipes EXCEPT ![q] = {"r", "w"}]
           st == [s |-> fs, ft |-> ft, pp |-> pp]
           c == FileClose(st, r)
           cl == Claims(ofiles, orphans)
<1>0. Shape(fs) /\ ProcsOK(ofiles, cwd, counted) /\ FilesOK(ftable, pipes, cl)
  BY DEF FsInv
<1>1. UNCHANGED <<fs, cwd, counted, strayed>> /\ cwd[p] # 0 /\ r # 0 /\ w # 0 /\ \E x \in Pipes : pipes[x] = {}
  BY DEF Pipe2, Running
<1>2. \/ /\ d0 >= 0 /\ d1 >= 0 /\ ofiles' = [ofiles EXCEPT ![p][d0] = r, ![p][d1] = w]
         /\ ftable' = ft /\ pipes' = pp /\ UNCHANGED orphans
      \/ ftable' = c.ft /\ pipes' = c.pp /\ orphans' = orphans \cup {w} /\ UNCHANGED ofiles
      \/ ftable' = ft /\ pipes' = pp /\ orphans' = orphans \cup {r, w} /\ UNCHANGED ofiles
  BY DEF Pipe2
<1>3. /\ r \in Files /\ w \in Files /\ r # w /\ ftable[r].ref = 0 /\ ftable[w].ref = 0
      /\ q \in Pipes /\ pipes[q] = {}
  <2>1. a = PipeAlloc(ftable) /\ a.r # 0 /\ a.w # 0
    BY <1>1
  <2> HIDE DEF a
  <2>. QED BY <2>1, <1>1, PipeAllocIs
<1> HIDE DEF a
<1>x. PICK x : x = PipeEnd(q, FALSE)
  OBVIOUS
<1>y. PICK y : y = PipeEnd(q, TRUE)
  OBVIOUS
<1>e. NewEnd(x, q, "r") /\ NewEnd(y, q, "w")
  <2>1. IsFile(x) /\ x.ref = 1 /\ x.ip = 0 /\ x.pipe = q /\ x.type = "pipe" /\ ~x.wr
    BY <1>x DEF PipeEnd, NoFile, IsFile
  <2>2. IsFile(y) /\ y.ref = 1 /\ y.ip = 0 /\ y.pipe = q /\ y.type = "pipe" /\ y.wr
    BY <1>y DEF PipeEnd, NoFile, IsFile
  <2>. QED BY <2>1, <2>2 DEF FileOK, End, NewEnd
<1>4. PipeMade(ftable, ft, pipes, pp, r, w, q)
  <2>1. ft = [ftable EXCEPT ![r] = x, ![w] = y] /\ pp = [pipes EXCEPT ![q] = {"r", "w"}]
    BY <1>x, <1>y
  <2> HIDE DEF r, w, q, ft, pp
  <2>. QED BY <2>1, <1>3, <1>e DEF PipeMade
<1>5. st.s = fs /\ st.ft = ft /\ st.pp = pp /\ IsTables(st)
  BY DEF IsTables
<1> HIDE DEF r, w, q, ft, pp, st, cl
<1>6. ASSUME NEW c2, TwoClaims(cl, c2, r, w)
      PROVE  FilesOK(ft, pp, c2) /\ SameIps(ftable, ft) /\ ft[r].pipe = q
  BY <1>0, <1>4, <1>6, PipeOpened
<1>7. Keeps(fs, fs)
  BY <1>0, KeepsSelf
<1>8. SameIps(ftable, ft)
  <2> DEFINE c2 == [g \in Files |-> IF g = r \/ g = w THEN 1 ELSE cl[g]]
  <2>1. TwoClaims(cl, c2, r, w)
    BY <1>3 DEF TwoClaims
  <2> HIDE DEF c2
  <2>. QED BY <2>1, <1>6
<1>9. Balance(fs, ftable, fs, ft)
  BY <1>0, <1>7, <1>8, BalanceKeeps
<1>10. /\ cl[r] = 0 /\ cl[w] = 0 /\ r \notin orphans /\ w \notin orphans
       /\ Held(ofiles, r) = 0 /\ Held(ofiles, w) = 0
  BY <1>3, FreeFile DEF cl
<1>11. CASE /\ d0 >= 0 /\ d1 >= 0 /\ ofiles' = [ofiles EXCEPT ![p][d0] = r, ![p][d1] = w]
            /\ ftable' = ft /\ pipes' = pp /\ UNCHANGED orphans
  <2> DEFINE o1 == [ofiles EXCEPT ![p][d0] = r]
  <2>1. r \in 0..NFile /\ w \in 0..NFile /\ 0 \notin Files
    BY <1>3, Sizes DEF Files
  <2>2. d0 \in Fds /\ ofiles[p][d0] = 0
    BY <1>11, FdAllocIs
  <2>3. d1 \in Fds /\ [ofiles[p] EXCEPT ![d0] = r][d1] = 0
    <3> DEFINE tb == [ofiles[p] EXCEPT ![d0] = r]
    <3>1. d1 = FdAlloc(tb) /\ d1 >= 0
      BY <1>11
    <3> HIDE DEF tb, d1
    <3>2. d1 \in Fds /\ tb[d1] = 0
      BY <3>1, FdAllocIs
    <3>. QED BY <3>2 DEF tb
  <2> HIDE DEF d0, d1
  <2>4. ofiles \in [Procs -> [Fds -> 0..NFile]]
    BY <1>0 DEF ProcsOK
  <2>5. o1[p] = [ofiles[p] EXCEPT ![d0] = r] /\ ofiles' = [o1 EXCEPT ![p][d1] = w]
    BY <2>4, <1>11
  <2>6. ProcsOK(o1, cwd, counted) /\ OneFd(ofiles, o1, p, d0, 0, r)
    BY <2>1, <2>2, <1>0, <1>1, ProcsSet
  <2>7. o1[p][d1] = 0
    BY <2>3, <2>5
  <2> HIDE DEF o1
  <2>8. ProcsOK(ofiles', cwd, counted) /\ OneFd(o1, ofiles', p, d1, 0, w)
    <3>1. ProcsOK(ofiles', cwd, counted) /\ OneFd(o1, ofiles', p, d1, o1[p][d1], w)
      <4>1. ofiles' = [o1 EXCEPT ![p][d1] = w]
        BY <2>5
      <4>. QED BY <4>1, <2>1, <2>3, <2>6, <1>1, ProcsSet
    <3>. QED BY <3>1, <2>7
  <2>9. ASSUME NEW g \in Files
        PROVE  Claims(ofiles', orphans)[g] = cl[g] + (IF r = g THEN 1 ELSE 0) + (IF w = g THEN 1 ELSE 0) /\ cl[g] \in Nat
    <3>1. /\ Owed(ofiles, orphans, g) \in Nat
          /\ Owed(o1, orphans, g) = Owed(ofiles, orphans, g) - (IF 0 = g THEN 1 ELSE 0) + (IF r = g THEN 1 ELSE 0)
      BY <2>2, <2>6, ClaimsMove
    <3>2. Owed(ofiles', orphans, g) = Owed(o1, orphans, g) - (IF 0 = g THEN 1 ELSE 0) + (IF w = g THEN 1 ELSE 0)
      BY <2>3, <2>8, ClaimsMove
    <3>3. cl[g] = Owed(ofiles, orphans, g) /\ Claims(ofiles', orphans)[g] = Owed(ofiles', orphans, g)
      BY ClaimsAre DEF cl
    <3>4. g # 0
      BY <2>1
    <3>. QED BY <3>1, <3>2, <3>3, <3>4
  <2>10. /\ Claims(ofiles', orphans)[r] = 1 /\ Claims(ofiles', orphans)[w] = 1
         /\ \A g \in Files : g = r \/ g = w \/ Claims(ofiles', orphans)[g] = cl[g]
    BY <2>9, <1>3, <1>10
  <2>11. FilesOK(ft, pp, Claims(ofiles', orphans))
    <3>1. TwoClaims(cl, Claims(ofiles', orphans), r, w)
      BY <2>10 DEF TwoClaims
    <3>. QED BY <3>1, <1>6
  <2>12. /\ FilesOK(ftable', pipes', Claims(ofiles', orphans')) /\ Balance(fs, ftable, fs', ftable')
         /\ ProcsOK(ofiles', cwd', counted')
    BY <2>8, <2>11, <1>1, <1>9, <1>11
  <2>. QED BY <2>12, <1>1, CallInv
<1>12. CASE ftable' = c.ft /\ pipes' = c.pp /\ orphans' = orphans \cup {w} /\ UNCHANGED ofiles
  <2> DEFINE c1 == [g \in Files |-> IF g = r \/ g = w THEN 1 ELSE cl[g]]
             c2 == Claims(ofiles, orphans \cup {w})
  <2>1. c1[r] = 1 /\ c1[w] = 1 /\ \A g \in Files : g = r \/ g = w \/ c1[g] = cl[g]
    BY <1>3
  <2>2. c2[r] = 0 /\ c2[w] = 1 /\ \A g \in Files : g = r \/ g = w \/ c2[g] = cl[g]
    BY <1>3, <1>10 DEF cl, Claims
  <2> HIDE DEF c1, c2
  <2>3. FilesOK(st.ft, st.pp, c1) /\ ft[r].pipe = q /\ Shape(st.s)
    <3>1. TwoClaims(cl, c1, r, w)
      BY <2>1 DEF TwoClaims
    <3>. QED BY <3>1, <1>0, <1>5, <1>6
  <2>4. c2[r] = c1[r] - 1 /\ c1[r] # 0 /\ \A g \in Files : g # r => c2[g] = c1[g]
    BY <2>1, <2>2
  <2>5. FilesOK(c.ft, c.pp, c2) /\ Balance(st.s, st.ft, c.s, c.ft)
    BY <2>3, <2>4, <1>3, <1>5, FileCloseOK
  <2>6. c.s = fs
    <3>1. q # None
      BY <1>3, Sizes
    <3>2. FileOK(st.ft[r])
      BY <2>3, <1>3 DEF FilesOK
    <3>3. st.ft[r].type = "pipe"
      BY <3>1, <3>2, <2>3, <1>5 DEF FileOK
    <3>4. c.s = st.s
      BY <3>3, <1>5 DEF FileClose, IsTables
    <3>. QED BY <3>4, <1>5
  <2> HIDE DEF c
  <2>7. Balance(fs, ftable, fs, c.ft)
    BY <2>5, <2>6, <1>0, <1>5, <1>9, BalanceTrans
  <2>8. /\ FilesOK(ftable', pipes', Claims(ofiles', orphans')) /\ Balance(fs, ftable, fs', ftable')
        /\ ProcsOK(ofiles', cwd', counted')
    BY <2>5, <2>7, <1>0, <1>1, <1>12 DEF c2
  <2>. QED BY <2>8, <1>1, CallInv
<1>13. CASE ftable' = ft /\ pipes' = pp /\ orphans' = orphans \cup {r, w} /\ UNCHANGED ofiles
  <2> DEFINE c2 == Claims(ofiles, orphans \cup {r, w})
  <2>1. c2[r] = 1 /\ c2[w] = 1 /\ \A g \in Files : g = r \/ g = w \/ c2[g] = cl[g]
    BY <1>3, <1>10 DEF cl, Claims
  <2> HIDE DEF c2
  <2>2. FilesOK(ft, pp, c2)
    <3>1. TwoClaims(cl, c2, r, w)
      BY <2>1 DEF TwoClaims
    <3>. QED BY <3>1, <1>6
  <2>3. /\ FilesOK(ftable', pipes', Claims(ofiles', orphans')) /\ Balance(fs, ftable, fs', ftable')
        /\ ProcsOK(ofiles', cwd', counted')
    BY <2>2, <1>0, <1>1, <1>9, <1>13 DEF c2
  <2>. QED BY <2>3, <1>1, CallInv
<1>. QED BY <1>2, <1>11, <1>12, <1>13

\* One process begins or ends to count on a directory.
RcMoved(s, t, from, to) ==
    \A j \in Inos : t.ic[j].rc = s.ic[j].rc - (IF from = j THEN 1 ELSE 0) + (IF to = j THEN 1 ELSE 0)

\* One process changes the directory it counts on.
LEMMA RcProc ==
  ASSUME NEW s, Shape(s), NEW t, NEW ft, NEW ft2, SameIps(ft, ft2), NEW counts, NEW counts2,
         NEW p \in Procs, Differ(Procs, counts, counts2, p), RcMoved(s, t, counts[p], counts2[p]),
         RcExact(s, ft, counts)
  PROVE  RcExact(t, ft2, counts2)
<1>1. ASSUME NEW i \in Inos
      PROVE  t.ic[i].rc = IpCount(ft2, i) + Count(Procs, counts2, i) + (IF i = RootNo THEN 1 ELSE 0)
  <2>1. IpCount(ft, i) \in Nat /\ IpCount(ft2, i) = IpCount(ft, i)
    BY IpSame DEF SameIps
  <2>2. /\ Count(Procs, counts, i) \in Nat
        /\ Count(Procs, counts2, i) =
             Count(Procs, counts, i) - (IF counts[p] = i THEN 1 ELSE 0) + (IF counts2[p] = i THEN 1 ELSE 0)
    BY Sizes, CountMove
  <2>3. PICK a \in Nat : a = IF counts[p] = i THEN 1 ELSE 0
    OBVIOUS
  <2>4. PICK b \in Nat : b = IF counts2[p] = i THEN 1 ELSE 0
    OBVIOUS
  <2>5. PICK k \in Nat : k = IF i = RootNo THEN 1 ELSE 0
    OBVIOUS
  <2>6. t.ic[i].rc = s.ic[i].rc - a + b
    BY <2>3, <2>4 DEF RcMoved
  <2>7. s.ic[i].rc = IpCount(ft, i) + Count(Procs, counts, i) + k
    BY <2>5 DEF RcExact
  <2>8. Count(Procs, counts2, i) = Count(Procs, counts, i) - a + b
    BY <2>2, <2>3, <2>4
  <2>9. t.ic[i].rc = IpCount(ft2, i) + Count(Procs, counts2, i) + k
    <3>1. \A x, y \in Nat : x + y + k - a + b = x + (y - a + b) + k
      OBVIOUS
    <3>. QED BY <3>1, <2>1, <2>2, <2>6, <2>7, <2>8
  <2>. QED BY <2>5, <2>9
<1>. QED BY <1>1 DEF RcExact

\* The references of open files go up, those of free files do not.
LEMMA FilesRaise ==
  ASSUME NEW ft, NEW pp, NEW cl, FilesOK(ft, pp, cl), NEW cl2,
         \A f \in Files : cl2[f] \in Nat /\ (cl2[f] = 0 => cl[f] = 0),
         NEW ft2, ft2 = [f \in Files |-> [ft[f] EXCEPT !.ref = cl2[f]]]
  PROVE  FilesOK(ft2, pp, cl2) /\ SameIps(ft, ft2)
<1>1. ASSUME NEW f \in Files
      PROVE  /\ FileOK(ft2[f]) /\ ft2[f].ref = cl2[f] /\ ft2[f].pipe = ft[f].pipe /\ ft2[f].ip = ft[f].ip
             /\ End(ft2[f]) = End(ft[f])
  <2>1. FileOK(ft[f]) /\ ft[f].ref = cl[f]
    BY DEF FilesOK
  <2> DEFINE x == ft[f]
             y == [x EXCEPT !.ref = cl2[f]]
  <2>2. ft2[f] = y
    OBVIOUS
  <2>3. IsFile(x)
    BY <2>1 DEF FileOK
  <2> HIDE DEF x
  <2>4. /\ IsFile(y) /\ y.ref = cl2[f] /\ y.pipe = x.pipe /\ y.ip = x.ip /\ y.type = x.type /\ y.wr = x.wr
    BY <2>3 DEF IsFile
  <2> HIDE DEF y
  <2>5. FileOK(y)
    BY <2>1, <2>4 DEF FileOK, x
  <2>. QED BY <2>2, <2>4, <2>5 DEF End, x
<1>2. ft2 = [f \in Files |-> ft2[f]]
  OBVIOUS
<1>3. \A f, g \in Files : f # g /\ ft2[f].pipe = ft2[g].pipe /\ ft2[f].pipe # None => End(ft2[f]) # End(ft2[g])
  BY <1>1 DEF FilesOK
<1>4. ASSUME NEW q \in Pipes PROVE pp[q] = {End(ft2[f]) : f \in {g \in Files : ft2[g].pipe = q}}
  <2> DEFINE H == {g \in Files : ft[g].pipe = q}
  <2>1. {g \in Files : ft2[g].pipe = q} = H
    BY <1>1
  <2>2. pp[q] = {End(ft[f]) : f \in H}
    BY DEF FilesOK
  <2>3. \A f \in H : End(ft2[f]) = End(ft[f])
    BY <1>1
  <2> HIDE DEF H
  <2>4. {End(ft2[f]) : f \in H} = {End(ft[f]) : f \in H}
    BY <2>3
  <2>. QED BY <2>1, <2>2, <2>4
<1>5. pp = [q \in Pipes |-> pp[q]]
  BY DEF FilesOK
<1>6. FilesOK(ft2, pp, cl2)
  BY <1>1, <1>2, <1>3, <1>4, <1>5 DEF FilesOK
<1>7. SameIps(ft, ft2)
  BY <1>1 DEF SameIps
<1>. QED BY <1>6, <1>7

\* A child has the descriptors of its parent.
LEMMA HoldersFork ==
  ASSUME NEW of \in [Procs -> [Fds -> 0..NFile]], NEW p \in Procs, NEW c \in Procs, p # c,
         \A d \in Fds : of[c][d] = 0, NEW f \in Files
  PROVE  /\ Cardinality({d \in Fds : of[p][d] = f}) \in Nat
         /\ Held(of, f) = 0 => Cardinality({d \in Fds : of[p][d] = f}) = 0
         /\ Held([of EXCEPT ![c] = of[p]], f) = Held(of, f) + Cardinality({d \in Fds : of[p][d] = f})
<1> DEFINE S == {d \in Fds : of[p][d] = f}
           A == Holders(of, f)
           B == {c} \X S
           of2 == [of EXCEPT ![c] = of[p]]
<1>1. IsFiniteSet(S) /\ Cardinality(S) \in Nat
  <2>1. OpenFile - 1 \in Int
    BY Sizes
  <2>2. IsFiniteSet(Fds)
    BY <2>1, FS_Interval DEF Fds
  <2>3. S \in SUBSET Fds
    OBVIOUS
  <2> HIDE DEF S
  <2>. QED BY <2>2, <2>3, FS_Subset, FS_CardinalityType
<1>2. f # 0
  BY Sizes
<1>3. Holders(of2, f) = A \cup B /\ A \cap B = {}
  <2>1. of2 \in [Procs -> [Fds -> 0..NFile]] /\ of2[c] = of[p] /\ \A q \in Procs : q # c => of2[q] = of[q]
    OBVIOUS
  <2> HIDE DEF of2
  <2>2. ASSUME NEW q \in Procs, NEW d \in Fds
        PROVE  /\ <<q, d>> \in Holders(of2, f) <=> <<q, d>> \in A \cup B
               /\ ~(<<q, d>> \in A /\ <<q, d>> \in B)
    <3>1. <<q, d>> \in Holders(of2, f) <=> of2[q][d] = f
      BY DEF Holders
    <3>2. <<q, d>> \in A <=> of[q][d] = f
      BY DEF Holders
    <3>3. <<q, d>> \in B <=> q = c /\ of[p][d] = f
      OBVIOUS
    <3> HIDE DEF A, B
    <3>. QED BY <3>1, <3>2, <3>3, <2>1, <1>2
  <2>3. Holders(of2, f) \subseteq Procs \X Fds /\ A \subseteq Procs \X Fds /\ B \subseteq Procs \X Fds
    BY DEF Holders
  <2> HIDE DEF A, B
  <2>. QED BY <2>2, <2>3
<1>4. IsFiniteSet(A) /\ Cardinality(A) \in Nat
  <2>1. IsFiniteSet(A)
    BY HoldersType
  <2>. QED BY <2>1, FS_CardinalityType
<1>5. IsFiniteSet(B) /\ Cardinality(B) = Cardinality(S)
  <2> HIDE DEF S
  <2>1. IsFiniteSet({c}) /\ Cardinality({c}) = 1
    BY FS_Singleton
  <2>2. IsFiniteSet(B) /\ Cardinality(B) = 1 * Cardinality(S)
    BY <2>1, <1>1, FS_Product
  <2>. QED BY <2>2, <1>1
<1>6. Cardinality(A \cup B) = Cardinality(A) + Cardinality(B)
  <2> HIDE DEF A, B
  <2>1. Cardinality(A \cup B) = Cardinality(A) + Cardinality(B) - Cardinality(A \cap B)
    BY <1>4, <1>5, FS_Union
  <2>2. Cardinality(A \cap B) = 0
    BY <1>3, FS_EmptySet
  <2>3. Cardinality(B) \in Nat
    BY <1>1, <1>5
  <2>. QED BY <2>1, <2>2, <2>3, <1>4
<1>7. Held(of2, f) = Held(of, f) + Cardinality(S)
  BY <1>3, <1>5, <1>6 DEF Held
<1>8. ASSUME Held(of, f) = 0 PROVE Cardinality(S) = 0
  <2>1. A = {}
    BY <1>4, <1>8, FS_EmptySet DEF Held
  <2>2. \A d \in Fds : of[p][d] # f
    <3>1. ASSUME NEW d \in Fds, of[p][d] = f PROVE FALSE
      <4>1. <<p, d>> \in A
        BY <3>1 DEF Holders
      <4>. QED BY <4>1, <2>1
    <3>. QED BY <3>1
  <2>3. S = {}
    BY <2>2
  <2>. QED BY <2>3, FS_EmptySet
<1>. QED BY <1>1, <1>7, <1>8

\* fork: file_dup for every descriptor, and inode_share of the directory.
LEMMA ForkInv ==
  ASSUME FsInv, NEW p \in Procs, NEW c \in Procs, Fork(p, c)
  PROVE  FsInv'
<1> DEFINE s == InodeShare(fs, cwd[p])
           n(f) == Cardinality({d \in Fds : ofiles[p][d] = f})
           cl == Claims(ofiles, orphans)
           cl2 == Claims(ofiles', orphans)
<1>0. Shape(fs) /\ ProcsOK(ofiles, cwd, counted) /\ FilesOK(ftable, pipes, cl)
  BY DEF FsInv
<1>1. /\ UNCHANGED <<pipes, strayed, orphans>> /\ cwd[p] # 0 /\ cwd[c] = 0 /\ fs' = Op(fs, s)
      /\ cwd' = [cwd EXCEPT ![c] = cwd[p]] /\ counted' = [counted EXCEPT ![c] = cwd[p]]
      /\ ofiles' = [ofiles EXCEPT ![c] = ofiles[p]]
      /\ ftable' = [f \in Files |-> [ftable[f] EXCEPT !.ref = ftable[f].ref + n(f)]]
  BY DEF Fork, Running, Finish
<1>2. Moves(fs, fs', cwd[p], 1)
  <2>1. Moves(fs, s, cwd[p], 1)
    BY <1>0, InodeGetMoves DEF MovesRet
  <2>2. Shape(s)
    BY <2>1 DEF Moves
  <2> HIDE DEF s
  <2>. QED BY <2>1, <2>2, <1>0, <1>1, OpMoves
<1> HIDE DEF s
<1>3. ofiles \in [Procs -> [Fds -> 0..NFile]] /\ counted[c] = 0 /\ (\A d \in Fds : ofiles[c][d] = 0) /\ p # c
  BY <1>0, <1>1 DEF ProcsOK
<1>4. ASSUME NEW f \in Files
      PROVE  cl2[f] \in Nat /\ (cl2[f] = 0 => cl[f] = 0) /\ cl2[f] = ftable[f].ref + n(f)
  <2>1. n(f) \in Nat /\ Held(ofiles', f) = Held(ofiles, f) + n(f)
    BY <1>1, <1>3, HoldersFork
  <2>2. ftable[f].ref = cl[f]
    BY <1>0 DEF FilesOK
  <2>3. cl[f] = Held(ofiles, f) + (IF f \in orphans THEN 1 ELSE 0) /\ cl2[f] = Held(ofiles', f) + (IF f \in orphans THEN 1 ELSE 0)
    BY DEF Claims
  <2>4. Held(ofiles, f) \in Nat
    BY HoldersType
  <2> HIDE DEF n, cl, cl2
  <2>. QED BY <2>1, <2>2, <2>3, <2>4
<1>5. ftable' = [f \in Files |-> [ftable[f] EXCEPT !.ref = cl2[f]]]
  <2> HIDE DEF n, cl, cl2
  <2>. QED BY <1>1, <1>4
<1>6. FilesOK(ftable', pipes, cl2) /\ SameIps(ftable, ftable')
  <2> HIDE DEF n, cl, cl2
  <2>. QED BY <1>0, <1>4, <1>5, FilesRaise
<1>7. ProcsOK(ofiles', cwd', counted')
  <2>1. cwd = [q \in Procs |-> cwd[q]] /\ counted = [q \in Procs |-> counted[q]]
    BY <1>0 DEF ProcsOK
  <2>2. /\ cwd' = [q \in Procs |-> cwd'[q]] /\ counted' = [q \in Procs |-> counted'[q]]
        /\ cwd'[c] = cwd[p] /\ \A q \in Procs : q # c => cwd'[q] = cwd[q] /\ counted'[q] = counted[q] /\ ofiles'[q] = ofiles[q]
    BY <2>1, <1>1, <1>3
  <2>3. ofiles' \in [Procs -> [Fds -> 0..NFile]]
    BY <1>1, <1>3
  <2>. QED BY <2>2, <2>3, <1>0, <1>1 DEF ProcsOK
<1>8. ASSUME ~strayed', fs'.bad = "ok" PROVE RcExact(fs', ftable', counted')
  <2>1. fs.bad = "ok" /\ \A j \in Inos : fs'.ic[j].rc = fs.ic[j].rc + (IF j = cwd[p] THEN 1 ELSE 0)
    BY <1>2, <1>8 DEF Moves
  <2>2. RcExact(fs, ftable, counted)
    BY <2>1, <1>1, <1>8 DEF FsInv
  <2>3. Differ(Procs, counted, counted', c) /\ counted'[c] = cwd[p]
    <3>1. counted = [q \in Procs |-> counted[q]]
      BY <1>0 DEF ProcsOK
    <3>. QED BY <3>1, <1>1 DEF Differ
  <2>4. RcMoved(fs, fs', counted[c], counted'[c])
    <3>1. \A j \in Inos : fs.ic[j].rc \in Int /\ j # 0
      BY <1>0, ZeroNoInode DEF Shape, IcOK, CellOK
    <3>. QED BY <3>1, <2>1, <2>3, <1>3 DEF RcMoved
  <2>. QED BY <2>2, <2>3, <2>4, <1>0, <1>6, RcProc
<1>9. Shape(fs')
  BY <1>2 DEF Moves
<1>. QED BY <1>1, <1>6, <1>7, <1>8, <1>9 DEF FsInv

\* A process that exits closes its files and puts its directory.
LEMMA ExitInv ==
  ASSUME FsInv, NEW p \in Procs, Exit(p)
  PROVE  FsInv'
<1> DEFINE st == [s |-> fs, ft |-> ftable, pp |-> pipes]
           c == CloseLoop(st, ofiles[p])[OpenFile]
           t == InodePut(c.s, cwd[p])
<1>0. Shape(fs) /\ ProcsOK(ofiles, cwd, counted) /\ FilesOK(ftable, pipes, Claims(ofiles, orphans))
  BY DEF FsInv
<1>1. /\ UNCHANGED orphans /\ fs' = (IF c.s.bad = "ok" THEN Op(c.s, t) ELSE c.s)
      /\ ftable' = c.ft /\ pipes' = c.pp /\ ofiles' = [ofiles EXCEPT ![p] = [d \in Fds |-> 0]]
      /\ cwd' = [cwd EXCEPT ![p] = 0] /\ counted' = [counted EXCEPT ![p] = 0]
      /\ strayed' = (strayed \/ cwd[p] # counted[p])
  BY DEF Exit
<1>2. IsTables(st) /\ st.s = fs /\ st.ft = ftable /\ st.pp = pipes
  BY DEF IsTables
<1> HIDE DEF st
<1>3. ofiles \in [Procs -> [Fds -> 0..NFile]]
  BY <1>0 DEF ProcsOK
<1>4. FilesOK(c.ft, c.pp, Claims([ofiles EXCEPT ![p] = [d \in Fds |-> 0]], orphans)) /\ Balance(st.s, st.ft, c.s, c.ft)
  BY <1>0, <1>2, <1>3, CloseLoopOK
<1> HIDE DEF c
<1>5. FilesOK(ftable', pipes', Claims(ofiles', orphans')) /\ Balance(fs, ftable, c.s, ftable')
  BY <1>1, <1>2, <1>4
<1>6. Shape(c.s)
  BY <1>5 DEF Balance
<1>7. Moves(c.s, fs', cwd[p], -1)
  <2>1. CASE c.s.bad = "ok"
    <3>1. Moves(c.s, t, cwd[p], -1)
      BY <1>6, InodePutMoves DEF MovesRet
    <3>2. Shape(t)
      BY <3>1 DEF Moves
    <3> HIDE DEF t
    <3>3. fs' = Op(c.s, t)
      BY <2>1, <1>1
    <3>. QED BY <3>1, <3>2, <3>3, <1>6, OpMoves
  <2>2. CASE c.s.bad # "ok"
    <3>1. fs' = c.s
      BY <2>2, <1>1
    <3>. QED BY <3>1, <2>2, <1>6, FailedAny
  <2>. QED BY <2>1, <2>2
<1>8. Shape(fs')
  BY <1>7 DEF Moves
<1>9. ProcsOK(ofiles', cwd', counted')
  <2>1. cwd = [q \in Procs |-> cwd[q]] /\ counted = [q \in Procs |-> counted[q]]
    BY <1>0 DEF ProcsOK
  <2>2. /\ cwd' = [q \in Procs |-> cwd'[q]] /\ counted' = [q \in Procs |-> counted'[q]]
        /\ counted'[p] = 0 /\ \A q \in Procs : q # p => cwd'[q] = cwd[q] /\ counted'[q] = counted[q]
    BY <2>1, <1>1
  <2>3. /\ ofiles' \in [Procs -> [Fds -> 0..NFile]] /\ ofiles'[p] = [d \in Fds |-> 0]
        /\ \A q \in Procs : q # p => ofiles'[q] = ofiles[q]
    BY <1>1, <1>3, Sizes
  <2>4. \A d \in Fds : ofiles'[p][d] = 0
    BY <2>3
  <2>. QED BY <2>2, <2>3, <2>4, <1>0 DEF ProcsOK
<1>10. ASSUME ~strayed', fs'.bad = "ok" PROVE RcExact(fs', ftable', counted')
  <2>1. c.s.bad = "ok" /\ \A j \in Inos : fs'.ic[j].rc = c.s.ic[j].rc + (IF j = cwd[p] THEN -1 ELSE 0)
    BY <1>7, <1>10 DEF Moves
  <2>2. ~strayed /\ cwd[p] = counted[p] /\ fs.bad = "ok"
    BY <2>1, <1>1, <1>5, <1>10 DEF Balance
  <2>3. RcExact(fs, ftable, counted)
    BY <2>2 DEF FsInv
  <2>4. RcExact(c.s, ftable', counted)
    BY <2>1, <2>3, <1>0, <1>5, RcBalance
  <2>5. Differ(Procs, counted, counted', p) /\ counted'[p] = 0
    <3>1. counted = [q \in Procs |-> counted[q]]
      BY <1>0 DEF ProcsOK
    <3>. QED BY <3>1, <1>1 DEF Differ
  <2>6. RcMoved(c.s, fs', counted[p], counted'[p])
    <3>1. \A j \in Inos : c.s.ic[j].rc \in Int /\ j # 0
      BY <1>6, ZeroNoInode DEF Shape, IcOK, CellOK
    <3>2. ASSUME NEW j \in Inos
          PROVE  fs'.ic[j].rc = c.s.ic[j].rc - (IF counted[p] = j THEN 1 ELSE 0) + (IF counted'[p] = j THEN 1 ELSE 0)
      BY <3>1, <2>1, <2>2, <2>5
    <3>. QED BY <3>2 DEF RcMoved
  <2>7. SameIps(ftable', ftable')
    BY DEF SameIps
  <2>. QED BY <2>4, <2>5, <2>6, <2>7, <1>6, RcProc
<1>. QED BY <1>5, <1>8, <1>9, <1>10 DEF FsInv

\* The tables and counts as they are at boot.
BootTables(ft, of, cw, pp, counts, orph) ==
    /\ ft = [f \in Files |-> NoFile]
    /\ of = [p \in Procs |-> [d \in Fds |-> 0]]
    /\ cw = [p \in Procs |-> IF p = InitProc THEN RootNo ELSE 0]
    /\ pp = [q \in Pipes |-> {}]
    /\ counts = cw /\ orph = {}

\* After a boot: inodes.root, and the directory of the first process.
LEMMA BootOK ==
  ASSUME NEW ent, NEW bm, NEW data, NEW s, s = Booted(ent, bm, data),
         NEW ft, NEW of, NEW cw, NEW pp, NEW counts, NEW orph, BootTables(ft, of, cw, pp, counts, orph)
  PROVE  Shape(s) /\ FilesOK(ft, pp, Claims(of, orph)) /\ ProcsOK(of, cw, counts) /\ RcExact(s, ft, counts)
<1>t. /\ ft = [f \in Files |-> NoFile] /\ of = [p \in Procs |-> [d \in Fds |-> 0]]
      /\ cw = [p \in Procs |-> IF p = InitProc THEN RootNo ELSE 0]
      /\ pp = [q \in Pipes |-> {}] /\ counts = cw /\ orph = {}
  BY DEF BootTables
<1> DEFINE root == [cached |-> TRUE, rc |-> 2, lock |-> 1, entry |-> ent[RootNo]]
<1>1. Shape(s) /\ \A i \in Inos : s.ic[i].rc = IF i = RootNo THEN 2 ELSE 0
  <2>1. IsState(s) /\ s.ic = [i \in Inos |-> IF i = RootNo THEN root ELSE NoInode]
    BY DEF Booted, IsState
  <2>2. CellOK(root) /\ root.rc = 2
    BY DEF CellOK, IsCell
  <2>3. CellOK(NoInode) /\ NoInode.rc = 0
    BY DEF CellOK, IsCell, NoInode
  <2> HIDE DEF root
  <2>4. IcOK(s.ic)
    BY <2>1, <2>2, <2>3 DEF IcOK
  <2>. QED BY <2>1, <2>2, <2>3, <2>4 DEF Shape
<1>n. FileOK(NoFile) /\ NoFile.ref = 0 /\ NoFile.pipe = None /\ NoFile.ip = 0
  BY DEF FileOK, NoFile, IsFile
<1>2. ASSUME NEW f \in Files PROVE Claims(of, orph)[f] = 0
  <2>1. f # 0
    BY Sizes
  <2>2. Holders(of, f) = {}
    <3>1. ASSUME NEW x \in Procs \X Fds PROVE of[x[1]][x[2]] = 0
      BY <1>t
    <3>. QED BY <3>1, <2>1 DEF Holders
  <2>3. Held(of, f) = 0
    BY <2>2, FS_EmptySet DEF Held
  <2>. QED BY <2>3, <1>t DEF Claims
<1>3. FilesOK(ft, pp, Claims(of, orph))
  <2>1. ft = [f \in Files |-> ft[f]] /\ \A f \in Files : ft[f] = NoFile
    BY <1>t
  <2>2. \A f \in Files : FileOK(ft[f]) /\ ft[f].ref = Claims(of, orph)[f] /\ ft[f].pipe = None
    BY <2>1, <1>n, <1>2
  <2>3. ASSUME NEW q \in Pipes PROVE pp[q] = {End(ft[f]) : f \in {g \in Files : ft[g].pipe = q}}
    <3>1. {g \in Files : ft[g].pipe = q} = {}
      BY <2>2, Sizes
    <3>. QED BY <3>1, <1>t
  <2>4. pp = [q \in Pipes |-> pp[q]]
    BY <1>t
  <2>. QED BY <2>1, <2>2, <2>3, <2>4 DEF FilesOK
<1>4. ProcsOK(of, cw, counts)
  <2>1. 0 \in 0..NFile
    BY Sizes
  <2>. QED BY <1>t, <2>1 DEF ProcsOK
<1>5. ASSUME NEW i \in Inos
      PROVE  s.ic[i].rc = IpCount(ft, i) + Count(Procs, counts, i) + (IF i = RootNo THEN 1 ELSE 0)
  <2>1. i # 0
    BY ZeroNoInode
  <2>2. IpCount(ft, i) = 0
    <3>1. {f \in Files : ft[f].ip = i} = {}
      BY <2>1, <1>t, <1>n
    <3>. QED BY <3>1, FS_EmptySet DEF IpCount
  <2>3. Count(Procs, counts, i) = IF i = RootNo THEN 1 ELSE 0
    <3>1. CASE i = RootNo
      <4>1. RootNo # 0
        BY <3>1, <2>1
      <4>2. {p \in Procs : counts[p] = i} = {InitProc}
        BY <3>1, <4>1, <1>t, Sizes
      <4>. QED BY <4>2, <3>1, FS_Singleton DEF Count
    <3>2. CASE i # RootNo
      <4>1. {p \in Procs : counts[p] = i} = {}
        BY <3>2, <2>1, <1>t
      <4>. QED BY <4>1, <3>2, FS_EmptySet DEF Count
    <3>. QED BY <3>1, <3>2
  <2>4. s.ic[i].rc = IF i = RootNo THEN 2 ELSE 0
    BY <1>1
  <2>. QED BY <2>2, <2>3, <2>4
<1>6. RcExact(s, ft, counts)
  BY <1>5 DEF RcExact
<1>. QED BY <1>1, <1>3, <1>4, <1>6

\* The first boot.
LEMMA FsInitInv == Init => FsInv
<1>1. ASSUME Init PROVE FsInv
  <2>1. BootTables(ftable, ofiles, cwd, pipes, counted, orphans)
    BY <1>1 DEF Init, InitProcs, BootTables
  <2>2. \E e, b, x : fs = Booted(e, b, x)
    BY <1>1 DEF Init
  <2>3. PICK e, b, x : fs = Booted(e, b, x)
    BY <2>2
  <2>4. /\ Shape(fs) /\ FilesOK(ftable, pipes, Claims(ofiles, orphans)) /\ ProcsOK(ofiles, cwd, counted)
        /\ RcExact(fs, ftable, counted)
    BY <2>1, <2>3, BootOK
  <2>. QED BY <2>4 DEF FsInv
<1>. QED BY <1>1

\* A crash and the next boot.
LEMMA RestartInv == ASSUME FsInv, NEW s, Restart(s) PROVE FsInv'
<1>1. BootTables(ftable', ofiles', cwd', pipes', counted', orphans')
  BY DEF Restart, BootTables
<1>2. PICK e, b, x : fs' = Booted(e, b, x)
  BY DEF Restart
<1>3. /\ Shape(fs') /\ FilesOK(ftable', pipes', Claims(ofiles', orphans')) /\ ProcsOK(ofiles', cwd', counted')
      /\ RcExact(fs', ftable', counted')
  BY <1>1, <1>2, BootOK
<1>. QED BY <1>3 DEF FsInv

\* Every step preserves the invariant.
LEMMA FsNextInv == FsInv /\ [Next]_vars => FsInv'
<1> SUFFICES ASSUME FsInv, [Next]_vars PROVE FsInv'
  OBVIOUS
<1>1. CASE UNCHANGED vars
  BY <1>1 DEF vars, FsInv
<1>2. CASE Reboot
  BY <1>2, RestartInv DEF Reboot
<1>11. ASSUME NEW p \in Procs, NEW d \in Fds, NEW ns \in Buffers, WriteCut(p, d, ns) PROVE FsInv'
  BY <1>11, RestartInv DEF WriteCut
<1>3. ASSUME NEW p \in Procs, NEW path \in Paths, NEW omode \in OModes,
             Openat(p, path, TRUE, omode) \/ Openat(p, path, FALSE, omode)
      PROVE  FsInv'
  BY <1>3, OpenatInv
<1>4. ASSUME NEW p \in Procs, NEW path \in Paths, NEW type \in NodeTypes, MakeNode(p, path, type) PROVE FsInv'
  BY <1>4, MakeNodeInv
<1>5. ASSUME NEW p \in Procs, NEW path \in Paths, Newfstatat(p, path) \/ Unlinkat(p, path) \/ Chdir(p, path)
      PROVE  FsInv'
  BY <1>5, NewfstatatInv, UnlinkatInv, ChdirInv
<1>6. ASSUME NEW p \in Procs, NEW d \in Fds, Close(p, d) \/ Dup(p, d) \/ Fstat(p, d) PROVE FsInv'
  BY <1>6, CloseInv, DupInv, FstatInv
<1>7. ASSUME NEW p \in Procs, NEW d \in Fds, NEW n \in ReadSizes, Read(p, d, n) PROVE FsInv'
  BY <1>7, ReadInv
<1>8. ASSUME NEW p \in Procs, NEW d \in Fds, NEW ns \in Buffers, Write(p, d, ns) PROVE FsInv'
  BY <1>8, WriteInv
<1>9. ASSUME NEW p \in Procs, Pipe2(p) \/ Exit(p) PROVE FsInv'
  BY <1>9, Pipe2Inv, ExitInv
<1>10. ASSUME NEW p \in Procs, NEW c \in Procs, Fork(p, c) PROVE FsInv'
  BY <1>10, ForkInv
<1>. QED BY <1>1, <1>2, <1>3, <1>4, <1>5, <1>6, <1>7, <1>8, <1>9, <1>10, <1>11 DEF Next

\* In every reachable state the file table counts its descriptors, the pipes their
\* ends, and inode.c its users, whatever calls of open, close, dup, fork, exit,
\* pipe2, chdir, unlink, read and write have led to it.
THEOREM FileSysInvariant == Spec => []FsInv
BY FsInitInv, FsNextInv, PTL DEF Spec

\* RefsExact for every size of the tables: file_dup and file_close keep File.ref at
\* the number of descriptors (and of references a failed pipe2 lost), pipe_close has closed
\* exactly the ends no file has, and the counts that inode_get, inode_share and
\* inode_put keep are the files, the directories of processes and inodes.root,
\* until a call failed, a process exited elsewhere than where it counts, or the
\* directory of one was unlinked.
THEOREM FileSysRefsExact == Spec => []RefsExact
<1>1. FsInv => RefsExact
  <2> SUFFICES ASSUME FsInv PROVE RefsExact
    OBVIOUS
  <2>0. FilesOK(ftable, pipes, Claims(ofiles, orphans))
    BY DEF FsInv
  <2>1. ASSUME NEW f \in Files
        PROVE  ftable[f].ref = Cardinality({x \in Procs \X Fds : ofiles[x[1]][x[2]] = f}) + (IF f \in orphans THEN 1 ELSE 0)
    <3>1. ftable[f].ref = Claims(ofiles, orphans)[f]
      BY <2>0 DEF FilesOK
    <3>2. Claims(ofiles, orphans)[f] = Held(ofiles, f) + (IF f \in orphans THEN 1 ELSE 0)
      BY ClaimsType
    <3>. QED BY <3>1, <3>2 DEF Held, Holders
  <2>2. ASSUME NEW q \in Pipes
        PROVE  pipes[q] = {IF ftable[f].wr THEN "w" ELSE "r" : f \in {g \in Files : ftable[g].pipe = q}}
    BY <2>0 DEF FilesOK, End
  <2>3. ASSUME ~strayed, fs.bad = "ok", NEW i \in Inos
        PROVE  fs.ic[i].rc = Cardinality({f \in Files : ftable[f].ip = i}) + Cardinality({p \in Procs : counted[p] = i})
                 + (IF i = RootNo THEN 1 ELSE 0)
    BY <2>3 DEF FsInv, RcExact, IpCount, Count
  <2>. QED BY <2>1, <2>2, <2>3 DEF RefsExact
<1>. QED BY <1>1, FileSysInvariant, PTL

-----------------------------------------------------------------------------
(* The entries in memory and on disk. *)

\* The fields of an entry.
IsEntry(e) == e = [type |-> e.type, links |-> e.links, bytes |-> e.bytes,
                   addrs |-> e.addrs, indirect |-> e.indirect]

\* An in-memory inode has the entry of the disk; one without links has a reference.
Same(s, j) == s.ic[j].cached => s.ic[j].entry = s.ent[j]
Pinned(s, j) == s.ic[j].cached /\ s.ent[j].links = 0 => s.ic[j].rc > 0

\* Inside a call the entry of inode e may be ahead of the disk or behind it, and the
\* links of inode l may have changed before its reference is given up; 0 is no inode.
Entries(s, e, l) ==
    /\ s.ent = [j \in Inos |-> s.ent[j]]
    /\ \A j \in Inos : /\ IsEntry(s.ent[j]) /\ IsEntry(s.ic[j].entry)
                       /\ j # e => Same(s, j)
                       /\ j \notin {e, l} => Pinned(s, j)

\* ... and what a failing call leaves is not used.
Coherent(s, e, l) == Shape(s) /\ (s.bad = "ok" => Entries(s, e, l))

\* From s to t neither entries nor in-memory inodes change, if t is no failure.
Still(s, t) ==
    /\ Shape(t)
    /\ t.bad = "ok" => s.bad = "ok" /\ t.ent = s.ent /\ t.ic = s.ic

\* What is still coherent.
LEMMA StillCoherent ==
  ASSUME NEW s, NEW t, NEW e, NEW l, Coherent(s, e, l), Still(s, t)
  PROVE  Coherent(t, e, l)
BY DEF Coherent, Still, Entries, Same, Pinned

\* ... of two steps,
LEMMA StillTrans ==
  ASSUME NEW s, NEW t, NEW u, Still(s, t), Still(t, u)
  PROVE  Still(s, u)
BY DEF Still

\* ... of no step at all.
LEMMA StillSelf == ASSUME NEW s, Shape(s) PROVE Still(s, s)
BY DEF Still

\* A failure leaves nothing to show.
LEMMA FailStill ==
  ASSUME NEW s, Shape(s), NEW why, why # "ok"
  PROVE  Still(s, Fail(s, why))
<1>1. Keeps(s, Fail(s, why)) /\ Fail(s, why).bad # "ok"
  BY FailKeeps
<1>. QED BY <1>1 DEF Still, Keeps

\* The rest of a state is changed.
LEMMA RestStill ==
  ASSUME NEW s, Shape(s), NEW x
  PROVE  /\ Still(s, [s EXCEPT !.bm = x])
         /\ Still(s, [s EXCEPT !.data = x])
         /\ Still(s, [s EXCEPT !.log = x])
         /\ Still(s, [s EXCEPT !.ctx = x])
         /\ Still(s, [s EXCEPT !.ret = x])
<1>1. IsState(s) /\ IcOK(s.ic)
  BY DEF Shape
<1>2. ASSUME NEW t, IsState(t), t.ic = s.ic, t.ent = s.ent, t.bad = s.bad PROVE Still(s, t)
  BY <1>1, <1>2 DEF Still, Shape
<1>3. Still(s, [s EXCEPT !.bm = x])
  <2> DEFINE t == [s EXCEPT !.bm = x]
  <2>1. IsState(t) /\ t.ic = s.ic /\ t.ent = s.ent /\ t.bad = s.bad
    BY <1>1 DEF IsState
  <2> HIDE DEF t
  <2>. QED BY <2>1, <1>2 DEF t
<1>4. Still(s, [s EXCEPT !.data = x])
  <2> DEFINE t == [s EXCEPT !.data = x]
  <2>1. IsState(t) /\ t.ic = s.ic /\ t.ent = s.ent /\ t.bad = s.bad
    BY <1>1 DEF IsState
  <2> HIDE DEF t
  <2>. QED BY <2>1, <1>2 DEF t
<1>5. Still(s, [s EXCEPT !.log = x])
  <2> DEFINE t == [s EXCEPT !.log = x]
  <2>1. IsState(t) /\ t.ic = s.ic /\ t.ent = s.ent /\ t.bad = s.bad
    BY <1>1 DEF IsState
  <2> HIDE DEF t
  <2>. QED BY <2>1, <1>2 DEF t
<1>6. Still(s, [s EXCEPT !.ctx = x])
  <2> DEFINE t == [s EXCEPT !.ctx = x]
  <2>1. IsState(t) /\ t.ic = s.ic /\ t.ent = s.ent /\ t.bad = s.bad
    BY <1>1 DEF IsState
  <2> HIDE DEF t
  <2>. QED BY <2>1, <1>2 DEF t
<1>7. Still(s, [s EXCEPT !.ret = x])
  <2> DEFINE t == [s EXCEPT !.ret = x]
  <2>1. IsState(t) /\ t.ic = s.ic /\ t.ent = s.ent /\ t.bad = s.bad
    BY <1>1 DEF IsState
  <2> HIDE DEF t
  <2>. QED BY <2>1, <1>2 DEF t
<1>. QED BY <1>3, <1>4, <1>5, <1>6, <1>7

\* cache_sync.
LEMMA SyncStill ==
  ASSUME NEW s, Shape(s), NEW b
  PROVE  Still(s, Sync(s, b))
<1> DEFINE x == s.log \cup {b}
<1>1. Sync(s, b) = s \/ Sync(s, b) = Fail(s, "log") \/ Sync(s, b) = [s EXCEPT !.log = x]
  BY DEF Sync
<1> HIDE DEF x
<1>2. Still(s, [s EXCEPT !.log = x]) /\ Still(s, Fail(s, "log")) /\ Still(s, s)
  BY RestStill, FailStill, StillSelf
<1>. QED BY <1>1, <1>2

\* ... after a change outside the inodes.
LEMMA SyncStillAfter ==
  ASSUME NEW s, NEW t, Still(s, t), NEW b
  PROVE  Still(s, Sync(t, b))
<1>1. Shape(t)
  BY DEF Still
<1>. QED BY <1>1, SyncStill, StillTrans

\* cache_free.
LEMMA CacheFreeStill ==
  ASSUME NEW s, Shape(s), NEW B
  PROVE  Still(s, CacheFree(s, B))
<1> DEFINE x == s.bm \ B
           t == [s EXCEPT !.bm = x]
<1>1. CacheFree(s, B) = s \/ CacheFree(s, B) = Sync(t, BitmapBlk)
  BY DEF CacheFree
<1> HIDE DEF x
<1>2. Still(s, t)
  BY RestStill
<1> HIDE DEF t
<1>. QED BY <1>1, <1>2, SyncStillAfter, StillSelf

\* cache_alloc.
LEMMA CacheAllocStill ==
  ASSUME NEW s, Shape(s)
  PROVE  Still(s, CacheAlloc(s))
<1> DEFINE b == Min(Blocks \ s.bm)
           x == s.bm \cup {b}
           t == [s EXCEPT !.bm = x]
           u == Sync(t, BitmapBlk)
           y == [u.data EXCEPT ![b] = ZeroBlock]
           v == [u EXCEPT !.data = y]
           w == [v EXCEPT !.ret = b]
<1>1. \/ CacheAlloc(s) = Fail(s, "disk_full")
      \/ CacheAlloc(s) = u
      \/ CacheAlloc(s) = Sync(w, DataBlk(b))
  BY DEF CacheAlloc, TakeBlock, Then
<1> HIDE DEF b, x
<1>2. Still(s, t)
  BY RestStill
<1> HIDE DEF t
<1>3. Still(s, u)
  BY <1>2, SyncStillAfter
<1> HIDE DEF u, y
<1>4. Still(u, v)
  BY <1>3, RestStill DEF Still
<1> HIDE DEF v
<1>5. Still(v, w)
  BY <1>4, RestStill DEF Still
<1> HIDE DEF w
<1>6. Still(u, w)
  BY <1>4, <1>5, StillTrans
<1>7. Still(s, w)
  BY <1>3, <1>6, StillTrans
<1>8. Still(s, Sync(w, DataBlk(b))) /\ Still(s, Fail(s, "disk_full"))
  BY <1>7, SyncStillAfter, FailStill
<1>. QED BY <1>1, <1>3, <1>8

\* A result is returned; the walk of namex stops.
LEMMA ReturnStill ==
  ASSUME NEW s, Shape(s), NEW v
  PROVE  Still(s, Return(s, v)) /\ Still(s, Stop(s, v))
<1> DEFINE x == [cur |-> v, done |-> TRUE]
<1>1. Stop(s, v) = [s EXCEPT !.ret = x] /\ Return(s, v) = [s EXCEPT !.ret = v]
  BY DEF Stop, Return
<1> HIDE DEF x
<1>2. Still(s, [s EXCEPT !.ret = x]) /\ Still(s, [s EXCEPT !.ret = v])
  BY RestStill
<1>. QED BY <1>1, <1>2

\* inode_read.
LEMMA InodeReadStill ==
  ASSUME NEW s, Shape(s), NEW i, NEW off, NEW count
  PROVE  Still(s, InodeRead(s, i, off, count))
<1> DEFINE v == [k \in 1..Min({count, s.ic[i].entry.bytes - off}) |-> UnitAt(s.data, s.ic[i].entry, off + k - 1)]
<1>1. InodeRead(s, i, off, count) = Fail(s, "assert_offset") \/ InodeRead(s, i, off, count) = Return(s, v)
  BY DEF InodeRead
<1> HIDE DEF v
<1>2. Still(s, Fail(s, "assert_offset"))
  BY FailStill
<1>. QED BY <1>1, <1>2, ReturnStill

-----------------------------------------------------------------------------
(* One inode is changed. *)

\* A field of a cell is changed: the others are kept.
LEMMA LockField ==
  ASSUME NEW r, CellOK(r), NEW x, NEW t, t = [r EXCEPT !.lock = x]
  PROVE  CellOK(t) /\ t.rc = r.rc /\ t.cached = r.cached /\ t.entry = r.entry
BY DEF CellOK, IsCell

\* ... its entry.
LEMMA EntryField ==
  ASSUME NEW r, CellOK(r), NEW x, NEW t, t = [r EXCEPT !.entry = x]
  PROVE  CellOK(t) /\ t.rc = r.rc /\ t.cached = r.cached /\ t.entry = x
BY DEF CellOK, IsCell

\* ... its count.
LEMMA RcField ==
  ASSUME NEW r, CellOK(r), r.cached, NEW x \in Int, NEW t, t = [r EXCEPT !.rc = x]
  PROVE  CellOK(t) /\ t.rc = x /\ t.cached /\ t.entry = r.entry
BY DEF CellOK, IsCell

\* A field of an entry is changed.
LEMMA EntryFields ==
  ASSUME NEW r, IsEntry(r), NEW x
  PROVE  /\ LET t == [r EXCEPT !.type = x] IN IsEntry(t) /\ t.links = r.links
         /\ LET t == [r EXCEPT !.bytes = x] IN IsEntry(t) /\ t.links = r.links
         /\ LET t == [r EXCEPT !.addrs = x] IN IsEntry(t) /\ t.links = r.links
         /\ LET t == [r EXCEPT !.indirect = x] IN IsEntry(t) /\ t.links = r.links
         /\ LET t == [r EXCEPT !.links = x] IN IsEntry(t) /\ t.links = x
BY DEF IsEntry

\* The entry of a free inode.
LEMMA FreeIsEntry == IsEntry(FreeEntry)
BY DEF IsEntry, FreeEntry

\* The cell of inode i is replaced by one that is coherent, except for e2 and l2.
LEMMA CellStep ==
  ASSUME NEW s, NEW e, NEW l, Coherent(s, e, l), NEW i, NEW x, NEW e2, NEW l2,
         i \in Inos => CellOK(x),
         i \in Inos /\ s.bad = "ok" =>
            /\ IsEntry(x.entry)
            /\ i # e2 => (x.cached => x.entry = s.ent[i])
            /\ i \notin {e2, l2} => (x.cached /\ s.ent[i].links = 0 => x.rc > 0),
         e \in {e2, i, 0}, l \in {e2, l2, i, 0}
  PROVE  Coherent(WithCell(s, i, x), e2, l2)
<1> DEFINE c == [s.ic EXCEPT ![i] = x]
           t == [s EXCEPT !.ic = c]
<1>0. Shape(s) /\ IsState(s) /\ IcOK(s.ic)
  BY DEF Coherent, Shape
<1>1. \A j \in Inos : c[j] = IF j = i THEN x ELSE s.ic[j]
  BY <1>0 DEF IcOK
<1> HIDE DEF c
<1>2. t.ic = c /\ t.bad = s.bad /\ t.ent = s.ent
  BY <1>0 DEF IsState
<1>3. WithCell(s, i, x) = t
  BY DEF WithCell, c
<1> HIDE DEF t
<1>4. Shape(t)
  <2>1. i \notin Inos \/ CellOK(x)
    OBVIOUS
  <2>. QED BY <1>0, <1>3, <2>1, SetCell
<1>5. ASSUME t.bad = "ok" PROVE Entries(t, e2, l2)
  <2>1. s.bad = "ok" /\ Entries(s, e, l)
    BY <1>2, <1>5 DEF Coherent
  <2>2. t.ent = [j \in Inos |-> t.ent[j]]
    BY <1>2, <2>1 DEF Entries
  <2>3. ASSUME NEW j \in Inos
        PROVE /\ IsEntry(t.ent[j]) /\ IsEntry(t.ic[j].entry)
              /\ j # e2 => Same(t, j)
              /\ j \notin {e2, l2} => Pinned(t, j)
    <3>1. CASE j = i
      <4>1. t.ic[j] = x /\ t.ent = s.ent /\ IsEntry(s.ent[j])
        BY <1>1, <1>2, <2>1, <3>1 DEF Entries
      <4>. QED BY <4>1, <2>1, <3>1 DEF Same, Pinned
    <3>2. CASE j # i
      <4>1. t.ic[j] = s.ic[j] /\ t.ent = s.ent
        BY <1>1, <1>2, <3>2
      <4>2. IsEntry(s.ent[j]) /\ IsEntry(s.ic[j].entry) /\ (j # e => Same(s, j)) /\ (j \notin {e, l} => Pinned(s, j))
        BY <2>1 DEF Entries
      <4>3. j # 0
        BY ZeroNoInode
      <4>. QED BY <4>1, <4>2, <4>3, <3>2 DEF Same, Pinned
    <3>. QED BY <3>1, <3>2
  <2>. QED BY <2>2, <2>3 DEF Entries
<1>. QED BY <1>3, <1>4, <1>5 DEF Coherent

\* A coherent inode has the fields the steps change.
LEMMA CohCell ==
  ASSUME NEW s, NEW e, NEW l, Coherent(s, e, l), NEW i \in Inos
  PROVE  /\ CellOK(s.ic[i])
         /\ s.bad = "ok" => /\ IsEntry(s.ent[i]) /\ IsEntry(s.ic[i].entry)
                            /\ i # e => Same(s, i)
                            /\ i \notin {e, l} => Pinned(s, i)
BY DEF Coherent, Shape, IcOK, Entries

\* inode_lock and inode_unlock, which asserts that there is a reference.
LEMMA LockCoherent ==
  ASSUME NEW s, NEW e, NEW l, Coherent(s, e, l), NEW i
  PROVE  /\ Coherent(Lock(s, i), e, l) /\ Coherent(Unlock(s, i), e, l)
         /\ l = i => Coherent(Unlock(s, i), e, 0)
<1> DEFINE x == s.ic[i].lock - 1
           y == IF s.ic[i].lock < MaxPermits THEN s.ic[i].lock + 1 ELSE s.ic[i].lock
           c == [s.ic[i] EXCEPT !.lock = x]
           d == [s.ic[i] EXCEPT !.lock = y]
<1>1. \/ Lock(s, i) = Fail(s, "freed_inode") \/ Lock(s, i) = Fail(s, "assert_rc")
      \/ Lock(s, i) = Fail(s, "stuck") \/ Lock(s, i) = WithCell(s, i, c)
  BY DEF Lock, WithCell
<1>2. \/ Unlock(s, i) = Fail(s, "freed_inode") \/ Unlock(s, i) = Fail(s, "assert_rc")
      \/ Unlock(s, i) = WithCell(s, i, d) /\ ~(s.ic[i].rc <= 0)
  BY DEF Unlock, WithCell
<1>3. Shape(s)
  BY DEF Coherent
<1>4. ASSUME NEW w \in {"freed_inode", "assert_rc", "stuck"}, NEW k
      PROVE  Coherent(Fail(s, w), e, l) /\ Coherent(Fail(s, w), e, k)
  <2>1. Still(s, Fail(s, w)) /\ Fail(s, w).bad # "ok"
    BY <1>3, FailStill, FailKeeps
  <2>. QED BY <2>1 DEF Still, Coherent
<1>5. ASSUME i \in Inos
      PROVE  /\ CellOK(c) /\ c.rc = s.ic[i].rc /\ c.cached = s.ic[i].cached /\ c.entry = s.ic[i].entry
             /\ CellOK(d) /\ d.rc = s.ic[i].rc /\ d.cached = s.ic[i].cached /\ d.entry = s.ic[i].entry
  <2>1. CellOK(s.ic[i])
    BY <1>5, CohCell
  <2>. QED BY <2>1, LockField
<1> HIDE DEF c, d, x, y
<1>6. Coherent(WithCell(s, i, c), e, l)
  <2>1. i \in Inos /\ s.bad = "ok" =>
            /\ IsEntry(c.entry)
            /\ i # e => (c.cached => c.entry = s.ent[i])
            /\ i \notin {e, l} => (c.cached /\ s.ent[i].links = 0 => c.rc > 0)
    BY <1>5, CohCell DEF Same, Pinned
  <2>. QED BY <1>5, <2>1, CellStep
<1>7. Coherent(WithCell(s, i, d), e, l)
  <2>1. i \in Inos /\ s.bad = "ok" =>
            /\ IsEntry(d.entry)
            /\ i # e => (d.cached => d.entry = s.ent[i])
            /\ i \notin {e, l} => (d.cached /\ s.ent[i].links = 0 => d.rc > 0)
    BY <1>5, CohCell DEF Same, Pinned
  <2>. QED BY <1>5, <2>1, CellStep
<1>8. l = i /\ ~(s.ic[i].rc <= 0) => Coherent(WithCell(s, i, d), e, 0)
  <2> SUFFICES ASSUME l = i, ~(s.ic[i].rc <= 0) PROVE Coherent(WithCell(s, i, d), e, 0)
    OBVIOUS
  <2>1. i \in Inos => d.rc > 0
    BY <1>5, CohCell DEF CellOK
  <2>2. i \in Inos /\ s.bad = "ok" =>
            /\ IsEntry(d.entry)
            /\ i # e => (d.cached => d.entry = s.ent[i])
            /\ i \notin {e, 0} => (d.cached /\ s.ent[i].links = 0 => d.rc > 0)
    BY <1>5, <2>1, CohCell DEF Same, Pinned
  <2>. QED BY <1>5, <2>2, CellStep
<1>. QED BY <1>1, <1>2, <1>4, <1>6, <1>7, <1>8

\* inode_get and inode_share.
LEMMA GetCoherent ==
  ASSUME NEW s, NEW e, Coherent(s, e, 0), NEW i, e \in {0, i}
  PROVE  Coherent(InodeGet(s, i), e, 0) /\ Coherent(InodeShare(s, i), e, 0)
<1> DEFINE c == [s.ic[i] EXCEPT !.rc = s.ic[i].rc + 1]
           d == [cached |-> TRUE, rc |-> 1, lock |-> 1, entry |-> s.ent[i]]
<1>1. \/ InodeGet(s, i) = s
      \/ s.ic[i].cached /\ InodeGet(s, i) = WithCell(s, i, c)
      \/ InodeGet(s, i) = WithCell(s, i, d)
  BY DEF InodeGet, WithCell
<1>2. \/ s.ic[i].cached /\ InodeShare(s, i) = WithCell(s, i, c)
      \/ InodeShare(s, i) = Fail(s, "freed_inode")
  BY DEF InodeShare, WithCell
<1>3. Coherent(Fail(s, "freed_inode"), e, 0)
  <2>1. Shape(s)
    BY DEF Coherent
  <2>. QED BY <2>1, FailStill, StillCoherent
<1>4. s.ic[i].cached => Coherent(WithCell(s, i, c), e, 0)
  <2> SUFFICES ASSUME s.ic[i].cached PROVE Coherent(WithCell(s, i, c), e, 0)
    OBVIOUS
  <2>1. ASSUME i \in Inos
        PROVE  CellOK(c) /\ c.rc = s.ic[i].rc + 1 /\ s.ic[i].rc \in Int /\ c.cached /\ c.entry = s.ic[i].entry
    <3>1. CellOK(s.ic[i]) /\ s.ic[i].rc \in Int
      BY <2>1, CohCell DEF CellOK
    <3>2. s.ic[i].rc + 1 \in Int
      BY <3>1
    <3>. QED BY <3>1, <3>2, RcField
  <2> HIDE DEF c
  <2>2. i \in Inos /\ s.bad = "ok" =>
            /\ IsEntry(c.entry)
            /\ i # e => (c.cached => c.entry = s.ent[i])
            /\ i \notin {e, 0} => (c.cached /\ s.ent[i].links = 0 => c.rc > 0)
    BY <2>1, CohCell DEF Same, Pinned
  <2>. QED BY <2>1, <2>2, CellStep
<1>5. Coherent(WithCell(s, i, d), e, 0)
  <2>1. CellOK(d) /\ d.rc = 1 /\ d.entry = s.ent[i]
    BY DEF CellOK, IsCell
  <2> HIDE DEF d
  <2>2. i \in Inos /\ s.bad = "ok" =>
            /\ IsEntry(d.entry)
            /\ i # e => (d.cached => d.entry = s.ent[i])
            /\ i \notin {e, 0} => (d.cached /\ s.ent[i].links = 0 => d.rc > 0)
    BY <2>1, CohCell
  <2>. QED BY <2>1, <2>2, CellStep
<1> HIDE DEF c, d
<1>. QED BY <1>1, <1>2, <1>3, <1>4, <1>5

\* inode_sync after a change of the entry: memory and disk agree again.
LEMMA EntryCoherent ==
  ASSUME NEW s, NEW e, NEW l, Coherent(s, e, l), NEW i, NEW x, NEW k,
         e \in {0, i}, l \in {0, i, k},
         i \in Inos /\ s.bad = "ok" =>
            IsEntry(x) /\ (i # k => (s.ic[i].cached /\ x.links = 0 => s.ic[i].rc > 0)),
         NEW r, r = InodeSync([s EXCEPT !.ic[i].entry = x], i)
  PROVE  Coherent(r, 0, k)
<1> DEFINE c == [s.ic[i] EXCEPT !.entry = x]
           t == WithCell(s, i, c)
           y == [t.ent EXCEPT ![i] = t.ic[i].entry]
           u == [t EXCEPT !.ent = y]
<1>1. r = Sync(u, InodeBlk(i))
  BY DEF InodeSync, WithCell
<1>2. i \in Inos => CellOK(c) /\ c.rc = s.ic[i].rc /\ c.cached = s.ic[i].cached /\ c.entry = x
  <2> SUFFICES ASSUME i \in Inos PROVE CellOK(c) /\ c.rc = s.ic[i].rc /\ c.cached = s.ic[i].cached /\ c.entry = x
    OBVIOUS
  <2>1. CellOK(s.ic[i])
    BY CohCell
  <2>. QED BY <2>1, EntryField
<1> HIDE DEF c
<1>3. Coherent(t, i, k)
  <2>1. i \in Inos /\ s.bad = "ok" =>
            /\ IsEntry(c.entry)
            /\ i # i => (c.cached => c.entry = s.ent[i])
            /\ i \notin {i, k} => (c.cached /\ s.ent[i].links = 0 => c.rc > 0)
    BY <1>2
  <2>. QED BY <1>2, <2>1, CellStep
<1>4. t.bad = s.bad /\ (i \in Inos => t.ic[i] = c)
  <2>1. IsState(s) /\ IcOK(s.ic)
    BY DEF Coherent, Shape
  <2> DEFINE z == [s.ic EXCEPT ![i] = c]
  <2>2. t = [s EXCEPT !.ic = z]
    BY DEF WithCell
  <2>3. i \in Inos => z[i] = c
    BY <2>1 DEF IcOK
  <2> HIDE DEF z, t
  <2>. QED BY <2>1, <2>2, <2>3 DEF IsState
<1> HIDE DEF t
<1>5. Shape(t) /\ IsState(t)
  BY <1>3 DEF Coherent, Shape
<1>6. Shape(u) /\ u.bad = t.bad /\ u.ic = t.ic /\ u.ent = y
  <2>1. Keeps(t, [t EXCEPT !.ent = y])
    BY <1>5, SetRest
  <2>2. u.bad = t.bad /\ u.ic = t.ic /\ u.ent = y
    BY <1>5 DEF IsState
  <2>. QED BY <2>1, <2>2 DEF Keeps
<1>7. ASSUME u.bad = "ok" PROVE Entries(u, 0, k)
  <2>1. Entries(t, i, k) /\ s.bad = "ok"
    BY <1>3, <1>4, <1>6, <1>7 DEF Coherent
  <2>2. y = [j \in Inos |-> IF j = i THEN t.ic[i].entry ELSE t.ent[j]]
    BY <2>1 DEF Entries
  <2> HIDE DEF y, u
  <2>3. u.ent = [j \in Inos |-> u.ent[j]]
    BY <2>2, <1>6
  <2>4. ASSUME NEW j \in Inos
        PROVE /\ IsEntry(u.ent[j]) /\ IsEntry(u.ic[j].entry)
              /\ j # 0 => Same(u, j)
              /\ j \notin {0, k} => Pinned(u, j)
    <3>1. IsEntry(t.ent[j]) /\ IsEntry(t.ic[j].entry) /\ (j # i => Same(t, j)) /\ (j \notin {i, k} => Pinned(t, j))
      BY <2>1 DEF Entries
    <3>2. CASE j = i
      <4>1. u.ent[j] = t.ic[j].entry /\ u.ic[j] = t.ic[j]
        BY <2>2, <1>6, <3>2
      <4>2. t.ic[j].entry = x /\ t.ic[j].rc = s.ic[i].rc /\ t.ic[j].cached = s.ic[i].cached
        BY <1>2, <1>4, <3>2
      <4>. QED BY <2>1, <3>1, <3>2, <4>1, <4>2 DEF Same, Pinned
    <3>3. CASE j # i
      <4>1. u.ent[j] = t.ent[j] /\ u.ic[j] = t.ic[j]
        BY <2>2, <1>6, <3>3
      <4>. QED BY <3>1, <3>3, <4>1 DEF Same, Pinned
    <3>. QED BY <3>2, <3>3
  <2>. QED BY <2>3, <2>4 DEF Entries
<1>8. Coherent(u, 0, k)
  BY <1>6, <1>7 DEF Coherent
<1> HIDE DEF u
<1>. QED BY <1>1, <1>6, <1>8, SyncStill, StillCoherent

\* ... where the links stay.
LEMMA FieldCoherent ==
  ASSUME NEW s, NEW l, Coherent(s, 0, l), NEW i, NEW x,
         i \in Inos /\ s.bad = "ok" => IsEntry(x) /\ x.links = s.ic[i].entry.links
  PROVE  Coherent(InodeSync([s EXCEPT !.ic[i].entry = x], i), 0, l)
<1>1. i \in Inos /\ s.bad = "ok" =>
        IsEntry(x) /\ (i # l => (s.ic[i].cached /\ x.links = 0 => s.ic[i].rc > 0))
  BY CohCell, ZeroNoInode DEF Same, Pinned
<1>2. 0 \in {0, i} /\ l \in {0, i, l}
  OBVIOUS
<1> DEFINE z == 0
           k == l
           r == InodeSync([s EXCEPT !.ic[i].entry = x], i)
<1>3. /\ Coherent(s, z, l) /\ z \in {0, i} /\ l \in {0, i, k}
      /\ r = InodeSync([s EXCEPT !.ic[i].entry = x], i)
      /\ i \in Inos /\ s.bad = "ok" =>
           IsEntry(x) /\ (i # k => (s.ic[i].cached /\ x.links = 0 => s.ic[i].rc > 0))
  BY <1>1
<1> HIDE DEF z, k, r
<1>4. Coherent(r, 0, k)
  BY ONLY <1>3, EntryCoherent
<1>. QED BY <1>4 DEF k, r

\* ... where they change: unless the new number is not 0, a reference is owed.
LEMMA LinksCoherent ==
  ASSUME NEW s, NEW e, Coherent(s, e, 0), NEW i, e \in {0, i}, NEW n,
         NEW r, r = InodeSync([s EXCEPT !.ic[i].entry.links = n], i)
  PROVE  Coherent(r, 0, i) /\ (n # 0 => Coherent(r, 0, 0))
<1> DEFINE x == [s.ic[i].entry EXCEPT !.links = n]
<1>1. [s EXCEPT !.ic[i].entry.links = n] = [s EXCEPT !.ic[i].entry = x]
  OBVIOUS
<1>2. i \in Inos /\ s.bad = "ok" => IsEntry(x) /\ x.links = n
  BY CohCell, EntryFields
<1> HIDE DEF x
<1>3. Coherent(InodeSync([s EXCEPT !.ic[i].entry = x], i), 0, i)
  BY <1>2, EntryCoherent
<1>4. n # 0 => Coherent(InodeSync([s EXCEPT !.ic[i].entry = x], i), 0, 0)
  BY <1>2, EntryCoherent
<1>. QED BY <1>1, <1>3, <1>4

-----------------------------------------------------------------------------
(* Allocation and content. *)

\* inode_alloc: the entry of the new inode is on disk before it is in memory.
LEMMA AllocCoherent ==
  ASSUME NEW s, Coherent(s, 0, 0), NEW type, NEW u, u = InodeAlloc(s, type)
  PROVE  Coherent(u, u.ret, 0)
<1> DEFINE n == Min(FreeInodes(s))
           f == [FreeEntry EXCEPT !.type = type]
           x == [s.ent EXCEPT ![n] = f]
           t == [s EXCEPT !.ent = x]
           v == [t EXCEPT !.ret = n]
<1>0. Shape(s) /\ IsState(s)
  BY DEF Coherent, Shape
<1>1. u = Fail(s, "no_inode") \/ u = Sync(v, InodeBlk(n))
  BY DEF InodeAlloc
<1>2. IsEntry(f)
  BY FreeIsEntry, EntryFields
<1> HIDE DEF n, f
<1>3. t.ent = x /\ t.ic = s.ic /\ t.bad = s.bad
  BY <1>0 DEF IsState
<1>4. Shape(t)
  BY <1>0, SetRest DEF Keeps
<1> HIDE DEF t
<1>5. Coherent(t, n, 0)
  <2> SUFFICES ASSUME t.bad = "ok" PROVE Entries(t, n, 0)
    BY <1>4 DEF Coherent
  <2>1. Entries(s, 0, 0)
    BY <1>3 DEF Coherent
  <2>2. x = [j \in Inos |-> IF j = n THEN f ELSE s.ent[j]]
    BY <2>1 DEF Entries
  <2> HIDE DEF x
  <2>3. t.ent = [j \in Inos |-> t.ent[j]]
    BY <1>3, <2>2
  <2>4. ASSUME NEW j \in Inos
        PROVE /\ IsEntry(t.ent[j]) /\ IsEntry(t.ic[j].entry)
              /\ j # n => Same(t, j)
              /\ j \notin {n, 0} => Pinned(t, j)
    <3>1. IsEntry(s.ent[j]) /\ IsEntry(s.ic[j].entry) /\ (j # 0 => Same(s, j)) /\ (j \notin {0, 0} => Pinned(s, j))
      BY <2>1 DEF Entries
    <3>2. j # 0
      BY ZeroNoInode
    <3>3. t.ic[j] = s.ic[j] /\ t.ent[j] = IF j = n THEN f ELSE s.ent[j]
      BY <1>3, <2>2
    <3>. QED BY <1>2, <3>1, <3>2, <3>3 DEF Same, Pinned
  <2>. QED BY <2>3, <2>4 DEF Entries
<1>6. Still(t, v) /\ v.ret = n
  BY <1>4, RestStill, SetRest
<1> HIDE DEF v
<1>7. Shape(v)
  BY <1>6 DEF Still
<1>8. Still(v, Sync(v, InodeBlk(n))) /\ Sync(v, InodeBlk(n)).ret = v.ret
  BY <1>7, SyncStill, SyncKeeps DEF KeepsRet
<1>9. Coherent(Sync(v, InodeBlk(n)), n, 0)
  BY <1>5, <1>6, <1>8, StillCoherent
<1>10. Fail(s, "no_inode").bad # "ok" /\ Shape(Fail(s, "no_inode"))
  BY <1>0, FailKeeps DEF Keeps
<1>. QED BY <1>1, <1>6, <1>8, <1>9, <1>10 DEF Coherent

\* inode_map, when a block is missing.
LEMMA MapCoherent ==
  ASSUME NEW s, NEW l, Coherent(s, 0, l), NEW i, NEW k
  PROVE  /\ Coherent(MapDirect(s, i, k), 0, l) /\ Coherent(MapIndirect(s, i), 0, l)
         /\ Coherent(MapAddr(s, i, k), 0, l)
<1> DEFINE a == CacheAlloc(s)
           p == [a.ic[i].entry.addrs EXCEPT ![k] = a.ret]
           x == [a.ic[i].entry EXCEPT !.addrs = p]
           y == [a.ic[i].entry EXCEPT !.indirect = a.ret]
           z == [a.data EXCEPT ![i][k - NumDirect] = [n |-> a.ret, t |-> "none"]]
           b == [a EXCEPT !.data = z]
           c == InodeSync([a EXCEPT !.ic[i].entry = x], i)
           d == InodeSync([a EXCEPT !.ic[i].entry = y], i)
<1>1. /\ MapDirect(s, i, k) = IF a.bad = "ok" THEN c ELSE a
      /\ MapIndirect(s, i) = IF a.bad = "ok" THEN d ELSE a
      /\ MapAddr(s, i, k) = IF a.bad = "ok" THEN Sync(b, DataBlk(i)) ELSE a
  BY DEF MapDirect, MapIndirect, MapAddr, Then
<1>2. Shape(s)
  BY DEF Coherent
<1>3. Coherent(a, 0, l)
  BY <1>2, CacheAllocStill, StillCoherent
<1> HIDE DEF a, p, z
<1>4. i \in Inos /\ a.bad = "ok" => /\ IsEntry(x) /\ x.links = a.ic[i].entry.links
                                     /\ IsEntry(y) /\ y.links = a.ic[i].entry.links
  BY <1>3, CohCell, EntryFields
<1> HIDE DEF x, y
<1>5. Coherent(c, 0, l) /\ Coherent(d, 0, l)
  BY <1>3, <1>4, FieldCoherent
<1>6. Still(a, b)
  BY <1>3, RestStill DEF Coherent
<1> HIDE DEF b, c, d
<1>7. Coherent(Sync(b, DataBlk(i)), 0, l)
  BY <1>3, <1>6, SyncStillAfter, StillCoherent
<1>. QED BY <1>1, <1>3, <1>5, <1>7

\* inode_map.
LEMMA InodeMapCoherent ==
  ASSUME NEW s, NEW l, Coherent(s, 0, l), NEW i, NEW k
  PROVE  Coherent(InodeMap(s, i, k), 0, l)
<1> DEFINE a == IF k >= NumDirect /\ s.ic[i].entry.indirect = 0 THEN MapIndirect(s, i) ELSE s
           v == BlockOf(a.data, a.ic[i].entry, k)
           ind == a.ic[i].entry.indirect
<1>1. \/ InodeMap(s, i, k) = a
      \/ InodeMap(s, i, k) = Return(a, v)
      \/ InodeMap(s, i, k) = MapDirect(a, i, k)
      \/ InodeMap(s, i, k) = MapAddr(a, ind, k)
  BY DEF InodeMap, Then
<1>2. Coherent(a, 0, l)
  BY MapCoherent
<1> HIDE DEF a, v, ind
<1>3. Coherent(MapDirect(a, i, k), 0, l) /\ Coherent(MapAddr(a, ind, k), 0, l)
  BY <1>2, MapCoherent
<1>4. Coherent(Return(a, v), 0, l)
  BY <1>2, ReturnStill, StillCoherent DEF Coherent
<1>. QED BY <1>1, <1>2, <1>3, <1>4

\* One turn of an inode_write.
LEMMA WriteStepCoherent ==
  ASSUME NEW s, NEW l, Coherent(s, 0, l), NEW i, NEW off, NEW src, NEW k
  PROVE  Coherent(WriteStep(s, i, off, src, k), 0, l)
<1> DEFINE a == InodeMap(s, i, k)
           z == [a.data EXCEPT ![a.ret] = Overlay(a.data[a.ret], off, src, k)]
           b == [a EXCEPT !.data = z]
           r == WriteStep(s, i, off, src, k)
<1>1. r = s \/ r = a \/ r = Sync(b, DataBlk(a.ret))
  BY DEF WriteStep, WriteBlock, Then
<1>2. Coherent(a, 0, l)
  BY InodeMapCoherent
<1> HIDE DEF a, z, r
<1>3. Still(a, b)
  BY <1>2, RestStill DEF Coherent
<1> HIDE DEF b
<1>4. Coherent(Sync(b, DataBlk(a.ret)), 0, l)
  BY <1>2, <1>3, SyncStillAfter, StillCoherent
<1>. QED BY <1>1, <1>2, <1>4 DEF r

\* inode_write.
LEMMA InodeWriteCoherent ==
  ASSUME NEW s, NEW l, Coherent(s, 0, l), NEW i, NEW off, NEW src
  PROVE  Coherent(InodeWrite(s, i, off, src), 0, l)
<1> DEFINE N == NumDirect + NumIndirect
           w == WriteLoop(s, i, off, src)
           x == [s.ic[i].entry EXCEPT !.bytes = off + Len(src)]
<1>1. \/ InodeWrite(s, i, off, src) \in {Fail(s, "past_end"), Fail(s, "too_big")}
      \/ InodeWrite(s, i, off, src) = w[N]
  BY DEF InodeWrite
<1>2. w[0] = Sized(s, i, off + Len(src)) /\ \A k \in 1..N : w[k] = WriteStep(w[k - 1], i, off, src, k - 1)
  BY WriteLoopIs
<1>3. N \in Nat
  BY InodeAssumption DEF NumIndirect
<1> HIDE DEF N, w
<1>4. w[0] = s \/ w[0] = InodeSync([s EXCEPT !.ic[i].entry = x], i)
  BY <1>2 DEF Sized
<1>5. i \in Inos /\ s.bad = "ok" => IsEntry(x) /\ x.links = s.ic[i].entry.links
  BY CohCell, EntryFields
<1> HIDE DEF x
<1>6. Coherent(w[0], 0, l)
  BY <1>4, <1>5, FieldCoherent
<1> DEFINE T == {k \in 0..N : ~Coherent(w[k], 0, l)}
<1>7. ASSUME T # {} PROVE FALSE
  <2>1. PICK k \in T : \A y \in T : k <= y
    <3>1. T \in SUBSET Nat
      OBVIOUS
    <3>. QED BY <3>1, <1>7, NatMin
  <2>2. k # 0
    BY <1>6
  <2>3. k \in 1..N /\ k - 1 \in 0..N /\ k - 1 \notin T
    BY <2>1, <2>2, <1>3
  <2>4. Coherent(w[k - 1], 0, l)
    BY <2>3
  <2>5. Coherent(w[k], 0, l)
    BY <2>3, <2>4, <1>2, WriteStepCoherent
  <2>. QED BY <2>1, <2>5
<1>8. Coherent(w[N], 0, l)
  BY <1>3, <1>7
<1>9. Coherent(Fail(s, "past_end"), 0, l) /\ Coherent(Fail(s, "too_big"), 0, l)
  BY FailStill, StillCoherent DEF Coherent
<1>. QED BY <1>1, <1>8, <1>9

\* inode_insert.
LEMMA InsertCoherent ==
  ASSUME NEW s, NEW l, Coherent(s, 0, l), NEW i, NEW name, NEW no
  PROVE  Coherent(Insert(s, i, name, no), 0, l)
<1> DEFINE x == <<[n |-> no, t |-> name]>>
<1>1. Insert(s, i, name, no) = s \/ Insert(s, i, name, no) = InodeWrite(s, i, s.ic[i].entry.bytes, x)
  BY DEF Insert
<1> HIDE DEF x
<1>. QED BY <1>1, InodeWriteCoherent

-----------------------------------------------------------------------------
(* References are given up. *)

\* Between two steps of a call memory and disk agree everywhere.
Settled(s) == Coherent(s, 0, 0)

\* What is still settled.
LEMMA SettledStill ==
  ASSUME NEW s, NEW t, Settled(s), Still(s, t)
  PROVE  Settled(t)
BY StillCoherent DEF Settled

\* inode_sync after a change of the links.
LEMMA LinksSettled ==
  ASSUME NEW s, Settled(s), NEW i, NEW n
  PROVE  Coherent(InodeSync([s EXCEPT !.ic[i].entry.links = n], i), 0, i)
<1> DEFINE z == 0
           r == InodeSync([s EXCEPT !.ic[i].entry.links = n], i)
<1>1. Coherent(s, z, 0) /\ z \in {0, i} /\ r = InodeSync([s EXCEPT !.ic[i].entry.links = n], i)
  BY DEF Settled
<1> HIDE DEF z, r
<1>2. Coherent(r, 0, i)
  BY ONLY <1>1, LinksCoherent
<1>. QED BY <1>2 DEF r

\* The shape of such a state.
LEMMA SettledShape == ASSUME NEW s, Settled(s) PROVE Shape(s)
BY DEF Settled, Coherent

\* The entry of inode i is changed in memory only.
LEMMA AheadCoherent ==
  ASSUME NEW s, NEW e, Coherent(s, e, 0), NEW i, e \in {0, i}, NEW x,
         i \in Inos /\ s.bad = "ok" => IsEntry(x),
         NEW r, r = [s EXCEPT !.ic[i].entry = x]
  PROVE  Coherent(r, i, 0)
<1> DEFINE c == [s.ic[i] EXCEPT !.entry = x]
<1>1. r = WithCell(s, i, c)
  BY DEF WithCell
<1>2. i \in Inos => CellOK(c) /\ c.entry = x
  <2> SUFFICES ASSUME i \in Inos PROVE CellOK(c) /\ c.entry = x
    OBVIOUS
  <2>1. CellOK(s.ic[i])
    BY CohCell
  <2>. QED BY <2>1, EntryField
<1> HIDE DEF c
<1> DEFINE k == 0
           m == i
<1>3. /\ Coherent(s, e, k) /\ (i \in Inos => CellOK(c))
      /\ i \in Inos /\ s.bad = "ok" =>
            /\ IsEntry(c.entry)
            /\ i # m => (c.cached => c.entry = s.ent[i])
            /\ i \notin {m, k} => (c.cached /\ s.ent[i].links = 0 => c.rc > 0)
      /\ e \in {m, i, 0} /\ k \in {m, k, i, 0}
  BY <1>2
<1> HIDE DEF k, m
<1>4. Coherent(WithCell(s, i, c), m, k)
  BY ONLY <1>3, CellStep
<1>. QED BY <1>1, <1>4 DEF k, m

\* inode_clear of an inode that has lost its last reference.
LEMMA ClearCoherent ==
  ASSUME NEW s, NEW i, Coherent(s, i, 0)
  PROVE  InodeClear(s, i).bad = "ok" => Coherent(InodeClear(s, i), 0, i)
<1> DEFINE a == CacheFree(s, OwnBlocks(s.data, s.ic[i].entry))
           x == [a.ic[i].entry EXCEPT !.indirect = 0]
           b == [a EXCEPT !.ic[i].entry = x]
           y == [b.ic[i].entry EXCEPT !.bytes = 0]
           c == [b EXCEPT !.ic[i].entry = y]
           z == [c.ic[i].entry EXCEPT !.addrs = FreeEntry.addrs]
           d == [c EXCEPT !.ic[i].entry = z]
           r == InodeSync(d, i)
<1>1. InodeClear(s, i) = IF a.bad = "ok" THEN r ELSE a
  <2>1. d = [a EXCEPT !.ic[i].entry.indirect = 0, !.ic[i].entry.bytes = 0,
                      !.ic[i].entry.addrs = FreeEntry.addrs]
    OBVIOUS
  <2> HIDE DEF d
  <2>. QED BY <2>1 DEF InodeClear, Then
<1>2. Coherent(a, i, 0)
  BY CacheFreeStill, StillCoherent DEF Coherent
<1> HIDE DEF a
<1>3. i \in Inos /\ a.bad = "ok" => IsEntry(x)
  BY <1>2, CohCell, EntryFields
<1> HIDE DEF x
<1>4. Coherent(b, i, 0)
  BY <1>2, <1>3, AheadCoherent
<1> HIDE DEF b
<1>5. i \in Inos /\ b.bad = "ok" => IsEntry(y)
  BY <1>4, CohCell, EntryFields
<1> HIDE DEF y
<1>6. Coherent(c, i, 0)
  BY <1>4, <1>5, AheadCoherent
<1> HIDE DEF c
<1>7. i \in Inos /\ c.bad = "ok" => IsEntry(z)
  BY <1>6, CohCell, EntryFields
<1> HIDE DEF z
<1> DEFINE k == i
           m == i
           o == 0
<1>8. /\ Coherent(c, m, o) /\ m \in {0, i} /\ o \in {0, i, k}
      /\ i \in Inos /\ c.bad = "ok" =>
            IsEntry(z) /\ (i # k => (c.ic[i].cached /\ z.links = 0 => c.ic[i].rc > 0))
      /\ r = InodeSync([c EXCEPT !.ic[i].entry = z], i)
  BY <1>6, <1>7
<1> HIDE DEF k, m, o, r
<1>9. Coherent(r, 0, k)
  BY ONLY <1>8, EntryCoherent
<1>. QED BY <1>1, <1>9 DEF k

\* inode_put: an inode without links goes with its last reference.
LEMMA InodePutSettled ==
  ASSUME NEW s, Settled(s), NEW i
  PROVE  Settled(InodePut(s, i))
<1>0. Coherent(s, 0, 0) /\ Shape(s)
  BY DEF Settled, Coherent
<1>1. Settled(Fail(s, "freed_inode")) /\ Settled(Fail(s, "stuck"))
  BY <1>0, FailStill, SettledStill
<1>2. CASE s.ic[i].cached /\ ~(s.ic[i].rc = 1 /\ s.ic[i].entry.links = 0)
  <2> DEFINE c == [s.ic[i] EXCEPT !.rc = s.ic[i].rc - 1]
  <2>1. InodePut(s, i) = Fail(s, "stuck") \/ InodePut(s, i) = WithCell(s, i, c)
    BY <1>2 DEF InodePut, WithCell
  <2>2. ASSUME i \in Inos
        PROVE  CellOK(c) /\ c.rc = s.ic[i].rc - 1 /\ s.ic[i].rc \in Int /\ c.cached /\ c.entry = s.ic[i].entry
    <3>1. CellOK(s.ic[i]) /\ s.ic[i].rc \in Int
      BY <1>0, <2>2, CohCell DEF CellOK
    <3>2. s.ic[i].rc - 1 \in Int
      BY <3>1
    <3>. QED BY <3>1, <3>2, <1>2, RcField
  <2> HIDE DEF c
  <2>3. ASSUME i \in Inos, s.bad = "ok"
        PROVE /\ IsEntry(c.entry)
              /\ c.cached => c.entry = s.ent[i]
              /\ c.cached /\ s.ent[i].links = 0 => c.rc > 0
    <3>1. i # 0 /\ IsEntry(s.ic[i].entry) /\ Same(s, i) /\ Pinned(s, i)
      BY <1>0, <2>3, CohCell, ZeroNoInode
    <3>. QED BY <3>1, <2>2, <2>3, <1>2 DEF Same, Pinned
  <2>4. Coherent(WithCell(s, i, c), 0, 0)
    BY <1>0, <2>2, <2>3, CellStep
  <2>. QED BY <2>1, <2>4, <1>1 DEF Settled
<1>3. CASE s.ic[i].cached /\ s.ic[i].rc = 1 /\ s.ic[i].entry.links = 0
  <2> DEFINE y == [s.ic[i] EXCEPT !.rc = 0]
             a == WithCell(s, i, y)
             x == [a.ic[i].entry EXCEPT !.type = "invalid"]
             b == [a EXCEPT !.ic[i].entry = x]
             c == InodeClear(b, i)
             e == WithCell(c, i, NoInode)
  <2>1. InodePut(s, i) = Fail(s, "stuck") \/ InodePut(s, i) = IF c.bad = "ok" THEN e ELSE c
    <3>1. b = [s EXCEPT !.ic[i].rc = 0, !.ic[i].entry.type = "invalid"]
      BY DEF WithCell
    <3> HIDE DEF b
    <3>. QED BY <3>1, <1>3 DEF InodePut, Then, WithCell
  <2>2. i \in Inos => CellOK(y) /\ y.entry = s.ic[i].entry
    <3> SUFFICES ASSUME i \in Inos PROVE CellOK(y) /\ y.entry = s.ic[i].entry
      OBVIOUS
    <3>1. CellOK(s.ic[i])
      BY <1>0, CohCell
    <3>. QED BY <3>1, <1>3, RcField
  <2> HIDE DEF y
  <2>3. Coherent(a, i, 0)
    <3>1. i \in Inos /\ s.bad = "ok" => IsEntry(y.entry)
      BY <1>0, <2>2, CohCell
    <3>. QED BY <1>0, <2>2, <3>1, CellStep
  <2> HIDE DEF a
  <2>4. i \in Inos /\ a.bad = "ok" => IsEntry(x)
    BY <2>3, CohCell, EntryFields
  <2> HIDE DEF x
  <2>5. Coherent(b, i, 0)
    BY <2>3, <2>4, AheadCoherent
  <2> HIDE DEF b
  <2>6. c.bad = "ok" => Coherent(c, 0, i)
    BY <2>5, ClearCoherent
  <2>7. Shape(c)
    BY <2>5, InodeClearKeeps DEF Coherent, KeepsRet, Keeps
  <2> HIDE DEF c
  <2>8. CASE c.bad = "ok"
    <3>1. CellOK(NoInode) /\ IsEntry(NoInode.entry) /\ ~NoInode.cached
      BY FreeIsEntry DEF NoInode, IsCell, CellOK
    <3>2. Coherent(e, 0, 0)
      BY <2>6, <2>8, <3>1, CellStep
    <3>. QED BY <2>1, <2>8, <3>2, <1>1 DEF Settled
  <2>9. CASE c.bad # "ok"
    BY <2>1, <2>7, <2>9, <1>1 DEF Settled, Coherent
  <2>. QED BY <2>8, <2>9
<1>4. CASE ~s.ic[i].cached
  BY <1>1, <1>4 DEF InodePut
<1>. QED BY <1>2, <1>3, <1>4

\* inode_unlock and inode_put, also of an inode whose links have changed.
LEMMA UnlockPutSettled ==
  ASSUME NEW s, NEW l, Coherent(s, 0, l), NEW i, l \in {0, i}
  PROVE  Settled(UnlockPut(s, i))
<1> DEFINE u == Unlock(s, i)
<1>1. UnlockPut(s, i) = IF u.bad = "ok" THEN InodePut(u, i) ELSE u
  BY DEF UnlockPut, Then
<1>2. Coherent(u, 0, 0)
  BY LockCoherent
<1> HIDE DEF u
<1>3. Settled(u)
  BY <1>2 DEF Settled
<1>. QED BY <1>1, <1>3, InodePutSettled

\* The steps of a call from one such state to the next.
LEMMA SettledSteps ==
  ASSUME NEW s, Settled(s), NEW i, NEW v
  PROVE  /\ Settled(Lock(s, i)) /\ Settled(Unlock(s, i)) /\ Settled(UnlockPut(s, i))
         /\ Settled(InodeGet(s, i)) /\ Settled(InodeShare(s, i))
         /\ Settled(Return(s, v)) /\ Settled(Stop(s, v))
<1>0. Coherent(s, 0, 0) /\ Shape(s)
  BY DEF Settled, Coherent
<1>1. Settled(Lock(s, i)) /\ Settled(Unlock(s, i))
  BY <1>0, LockCoherent DEF Settled
<1>2. Settled(UnlockPut(s, i))
  BY <1>0, UnlockPutSettled
<1>3. Settled(InodeGet(s, i)) /\ Settled(InodeShare(s, i))
  BY <1>0, GetCoherent DEF Settled
<1>4. Settled(Return(s, v)) /\ Settled(Stop(s, v))
  BY <1>0, ReturnStill, SettledStill
<1>. QED BY <1>1, <1>2, <1>3, <1>4

-----------------------------------------------------------------------------
(* Paths. *)

\* namex, one element of the path.
LEMMA NamexStepSettled ==
  ASSUME NEW s, Settled(s), NEW c, NEW name, NEW last
  PROVE  Settled(NamexStep(s, c, name, last))
<1> DEFINE t == NamexStep(s, c, name, last)
           l == Lock(s, c)
           n == Lookup(l, c, name)
           g == InodeGet(l, n)
           v == [cur |-> n, done |-> FALSE]
<1>1. \/ t = l
      \/ t = Stop(UnlockPut(l, c), 0)
      \/ t = Stop(Unlock(l, c), c)
      \/ t = Return(UnlockPut(g, c), v)
  BY DEF NamexStep, NamexNext, Then
<1>2. Settled(l)
  BY SettledSteps
<1> HIDE DEF l, n, v
<1>3. Settled(UnlockPut(l, c)) /\ Settled(Unlock(l, c)) /\ Settled(g)
  BY <1>2, SettledSteps
<1> HIDE DEF g
<1>4. Settled(UnlockPut(g, c))
  BY <1>3, SettledSteps
<1>5. Settled(Stop(UnlockPut(l, c), 0)) /\ Settled(Stop(Unlock(l, c), c)) /\ Settled(Return(UnlockPut(g, c), v))
  BY <1>3, <1>4, SettledSteps
<1> HIDE DEF t
<1>. QED BY <1>1, <1>2, <1>5 DEF t

\* namex.
LEMMA NamexSettled ==
  ASSUME NEW s, Settled(s), NEW c, NEW path, Len(path.elems) \in Nat, NEW parent
  PROVE  Settled(Namex(s, c, path, parent))
<1> DEFINE N == Len(path.elems)
           w == NamexLoop(s, c, path, parent)
           t == w[N]
           r == Namex(s, c, path, parent)
<1>1. w[0] = NamexStart(s, c, path) /\ \A k \in 1..N : w[k] = NamexWalk(w[k - 1], path.elems[k], parent /\ k = N)
  BY NamexLoopIs
<1>2. N \in Nat
  OBVIOUS
<1>3. r = t \/ r = Return(InodePut(t, t.ret.cur), 0) \/ r = Return(t, t.ret.cur)
  BY DEF Namex, Then, NamexEnd
<1> HIDE DEF N, w
<1>4. Settled(NamexStart(s, c, path))
  <2> DEFINE u == IF path.abs THEN InodeGet(s, RootNo) ELSE InodeShare(s, c)
             v == [cur |-> IF path.abs THEN RootNo ELSE c, done |-> FALSE]
  <2>1. NamexStart(s, c, path) = Return(u, v)
    BY DEF NamexStart
  <2>2. Settled(u)
    BY SettledSteps
  <2> HIDE DEF u, v
  <2>. QED BY <2>1, <2>2, SettledSteps
<1>5. ASSUME NEW u, Settled(u), NEW name, NEW last PROVE Settled(NamexWalk(u, name, last))
  <2>1. NamexWalk(u, name, last) = u \/ NamexWalk(u, name, last) = NamexStep(u, u.ret.cur, name, last)
    BY DEF NamexWalk, Then
  <2>. QED BY <2>1, <1>5, NamexStepSettled
<1> DEFINE T == {k \in 0..N : ~Settled(w[k])}
<1>6. ASSUME T # {} PROVE FALSE
  <2>1. PICK k \in T : \A y \in T : k <= y
    <3>1. T \in SUBSET Nat
      OBVIOUS
    <3>. QED BY <3>1, <1>6, NatMin
  <2>2. k # 0
    BY <1>1, <1>4
  <2>3. k \in 1..N /\ k - 1 \in 0..N /\ k - 1 \notin T
    BY <2>1, <2>2, <1>2
  <2>4. Settled(w[k - 1])
    BY <2>3
  <2>5. Settled(w[k])
    BY <2>3, <2>4, <1>1, <1>5
  <2>. QED BY <2>1, <2>5
<1>7. Settled(t)
  BY <1>2, <1>6
<1> HIDE DEF t
<1>8. Settled(InodePut(t, t.ret.cur))
  BY <1>7, InodePutSettled
<1>9. Settled(Return(InodePut(t, t.ret.cur), 0)) /\ Settled(Return(t, t.ret.cur))
  BY <1>7, <1>8, SettledSteps
<1> HIDE DEF r
<1>. QED BY <1>3, <1>7, <1>9 DEF r

-----------------------------------------------------------------------------
(* The calls. *)

\* What a failing step leaves is not used.
LEMMA FailedSettled ==
  ASSUME NEW s, NEW e, NEW l, Coherent(s, e, l), s.bad # "ok"
  PROVE  \A f, m : Coherent(s, f, m)
BY DEF Coherent

\* create on an existing inode.
LEMMA CreateExistingSettled ==
  ASSUME NEW s, Settled(s), NEW dp, NEW ip, NEW type
  PROVE  Settled(CreateExisting(s, dp, ip, type))
<1> DEFINE r == CreateExisting(s, dp, ip, type)
           g == InodeGet(s, ip)
           t == UnlockPut(g, dp)
           u == Lock(t, ip)
           v == UnlockPut(u, ip)
<1>1. r = t \/ r = u \/ r = Return(u, ip) \/ r = Return(v, 0)
  BY DEF CreateExisting, Then
<1>2. Settled(g)
  BY SettledSteps
<1> HIDE DEF g
<1>3. Settled(t)
  BY <1>2, SettledSteps
<1> HIDE DEF t
<1>4. Settled(u)
  BY <1>3, SettledSteps
<1> HIDE DEF u
<1>5. Settled(v)
  BY <1>4, SettledSteps
<1> HIDE DEF v
<1>6. Settled(Return(u, ip)) /\ Settled(Return(v, 0))
  BY <1>4, <1>5, SettledSteps
<1> HIDE DEF r
<1>. QED BY <1>1, <1>3, <1>4, <1>6 DEF r

\* create of a directory: the parent has one link more.
LEMMA MakeDotsCoherent ==
  ASSUME NEW s, Settled(s), NEW dp, NEW ip
  PROVE  Coherent(MakeDots(s, dp, ip), 0, dp)
<1> DEFINE r == MakeDots(s, dp, ip)
           n == s.ic[dp].entry.links + 1
           t == InodeSync([s EXCEPT !.ic[dp].entry.links = n], dp)
           u == Insert(t, ip, ".", ip)
<1>1. r = t \/ r = u \/ r = Insert(u, ip, "..", dp)
  BY DEF MakeDots, Then
<1> HIDE DEF n
<1>2. Coherent(t, 0, dp)
  BY LinksSettled
<1> HIDE DEF t
<1>3. Coherent(u, 0, dp)
  BY <1>2, InsertCoherent
<1> HIDE DEF u
<1>4. Coherent(Insert(u, ip, "..", dp), 0, dp)
  BY <1>3, InsertCoherent
<1> HIDE DEF r
<1>. QED BY <1>1, <1>2, <1>3, <1>4 DEF r

\* create of a new inode, whose entry may be in memory from an earlier life.
LEMMA CreateNewSettled ==
  ASSUME NEW s, NEW ip, Coherent(s, ip, 0), NEW dp, NEW name, NEW type
  PROVE  Settled(CreateNew(s, dp, name, ip, type))
<1> DEFINE r == CreateNew(s, dp, name, ip, type)
           g == InodeGet(s, ip)
           t == Lock(g, ip)
           u == InodeSync([t EXCEPT !.ic[ip].entry.links = 1], ip)
           v == IF type = "dir" THEN MakeDots(u, dp, ip) ELSE u
           w == Insert(v, dp, name, ip)
           x == UnlockPut(w, dp)
<1>1. \/ t.bad # "ok" /\ r = t
      \/ u.bad # "ok" /\ r = u
      \/ v.bad # "ok" /\ r = v
      \/ w.bad # "ok" /\ r = w
      \/ r = Return(x, ip)
  BY DEF CreateNew, Then
<1>2. Coherent(g, ip, 0)
  BY GetCoherent
<1> HIDE DEF g
<1>3. Coherent(t, ip, 0)
  BY <1>2, LockCoherent
<1> HIDE DEF t
<1>4. Coherent(u, 0, 0)
  BY <1>3, LinksCoherent
<1>5. Settled(u)
  BY <1>4 DEF Settled
<1> HIDE DEF u
<1>6. PICK l \in {0, dp} : Coherent(v, 0, l)
  <2>1. CASE type = "dir"
    BY <1>5, <2>1, MakeDotsCoherent
  <2>2. CASE type # "dir"
    BY <1>4, <2>2
  <2>. QED BY <2>1, <2>2
<1> HIDE DEF v
<1>7. Coherent(w, 0, l)
  BY <1>6, InsertCoherent
<1> HIDE DEF w
<1>8. Settled(x)
  BY <1>7, UnlockPutSettled
<1> HIDE DEF x
<1>9. Settled(Return(x, ip))
  BY <1>8, SettledSteps
<1> HIDE DEF r
<1>10. CASE t.bad # "ok" /\ r = t
  BY <1>3, <1>10, FailedSettled DEF Settled, r
<1>11. CASE v.bad # "ok" /\ r = v
  BY <1>6, <1>11, FailedSettled DEF Settled, r
<1>12. CASE w.bad # "ok" /\ r = w
  BY <1>7, <1>12, FailedSettled DEF Settled, r
<1>. QED BY <1>1, <1>5, <1>9, <1>10, <1>11, <1>12 DEF r

\* create.
LEMMA CreateSettled ==
  ASSUME NEW s, Settled(s), NEW p, NEW path, Len(path.elems) \in Nat, NEW type
  PROVE  Settled(Create(s, p, path, type))
<1> DEFINE r == Create(s, p, path, type)
           t == Namex(s, cwd[p], path, TRUE)
           last == Last(path.elems)
           ip == Lookup(t, t.ret, last)
           u == InodeAlloc(t, type)
<1>1. \/ r = t
      \/ r = CreateExisting(t, t.ret, ip, type)
      \/ u.bad # "ok" /\ r = u
      \/ r = CreateNew(u, t.ret, last, u.ret, type)
  BY DEF Create, Then
<1>2. Settled(t)
  BY NamexSettled
<1> HIDE DEF t, last, ip
<1>3. Coherent(u, u.ret, 0)
  BY <1>2, AllocCoherent DEF Settled
<1> HIDE DEF u
<1>4. Settled(CreateExisting(t, t.ret, ip, type))
  BY <1>2, CreateExistingSettled
<1>5. Settled(CreateNew(u, t.ret, last, u.ret, type))
  BY <1>3, CreateNewSettled
<1> HIDE DEF r
<1>6. CASE u.bad # "ok" /\ r = u
  BY <1>3, <1>6, FailedSettled DEF Settled, r
<1>. QED BY <1>1, <1>2, <1>4, <1>5, <1>6 DEF r

\* openat, up to the inode.
LEMMA OpenInodeSettled ==
  ASSUME NEW s, Settled(s), NEW p, NEW path, Len(path.elems) \in Nat, NEW create
  PROVE  Settled(OpenInode(s, p, path, create))
<1> DEFINE r == OpenInode(s, p, path, create)
           t == Namex(s, cwd[p], path, FALSE)
<1>1. r = Create(s, p, path, "file") \/ r = t \/ r = Lock(t, t.ret)
  BY DEF OpenInode, Then
<1>2. Settled(t)
  BY NamexSettled
<1> HIDE DEF t
<1>3. Settled(Lock(t, t.ret))
  BY <1>2, SettledSteps
<1>4. Settled(Create(s, p, path, "file"))
  BY CreateSettled
<1> HIDE DEF r
<1>. QED BY <1>1, <1>2, <1>3, <1>4 DEF r

\* unlinkat of an entry.
LEMMA UnlinkEntrySettled ==
  ASSUME NEW s, Settled(s), NEW dp, NEW ip, NEW o
  PROVE  Settled(UnlinkEntry(s, dp, ip, o))
<1> DEFINE r == UnlinkEntry(s, dp, ip, o)
           z == <<Zero>>
           t == InodeWrite(s, dp, o, z)
           n == t.ic[dp].entry.links - 1
           a == InodeSync([t EXCEPT !.ic[dp].entry.links = n], dp)
           u == IF t.ic[ip].entry.type = "dir" THEN a ELSE t
           v == UnlockPut(u, dp)
           m == v.ic[ip].entry.links - 1
           w == InodeSync([v EXCEPT !.ic[ip].entry.links = m], ip)
<1>1. \/ r = t
      \/ u.bad # "ok" /\ r = u
      \/ r = v
      \/ w.bad # "ok" /\ r = w
      \/ r = UnlockPut(w, ip)
  BY DEF UnlinkEntry, Then
<1> HIDE DEF z
<1>2. Settled(t)
  BY InodeWriteCoherent DEF Settled
<1> HIDE DEF t, n
<1>3. Coherent(a, 0, dp)
  BY <1>2, LinksSettled
<1> HIDE DEF a
<1>4. PICK l \in {0, dp} : Coherent(u, 0, l)
  BY <1>2, <1>3 DEF Settled
<1> HIDE DEF u
<1>5. Settled(v)
  BY <1>4, UnlockPutSettled
<1> HIDE DEF v, m
<1>6. Coherent(w, 0, ip)
  BY <1>5, LinksSettled
<1> HIDE DEF w
<1>7. Settled(UnlockPut(w, ip))
  BY <1>6, UnlockPutSettled
<1> HIDE DEF r
<1>8. CASE u.bad # "ok" /\ r = u
  BY <1>4, <1>8, FailedSettled DEF Settled, r
<1>9. CASE w.bad # "ok" /\ r = w
  BY <1>6, <1>9, FailedSettled DEF Settled, r
<1>. QED BY <1>1, <1>2, <1>5, <1>7, <1>8, <1>9 DEF r

\* unlinkat of an inode that was found.
LEMMA UnlinkFoundSettled ==
  ASSUME NEW s, Settled(s), NEW dp, NEW ip, NEW o
  PROVE  Settled(UnlinkFound(s, dp, ip, o))
<1> DEFINE r == UnlinkFound(s, dp, ip, o)
           g == InodeGet(s, ip)
           t == Lock(g, ip)
           u == UnlockPut(t, ip)
<1>1. r = t \/ r = Fail(t, "links") \/ r = u \/ r = UnlockPut(u, dp) \/ r = UnlinkEntry(t, dp, ip, o)
  BY DEF UnlinkFound, Then
<1>2. Settled(g)
  BY SettledSteps
<1> HIDE DEF g
<1>3. Settled(t)
  BY <1>2, SettledSteps
<1> HIDE DEF t
<1>4. Settled(u)
  BY <1>3, SettledSteps
<1> HIDE DEF u
<1>5. Settled(UnlockPut(u, dp))
  BY <1>4, SettledSteps
<1>6. Settled(UnlinkEntry(t, dp, ip, o))
  BY <1>3, UnlinkEntrySettled
<1>7. Settled(Fail(t, "links"))
  BY <1>3, SettledShape, FailStill, SettledStill
<1> HIDE DEF r
<1>. QED BY <1>1, <1>3, <1>4, <1>5, <1>6, <1>7 DEF r

\* unlinkat, in the parent.
LEMMA UnlinkSettled ==
  ASSUME NEW s, Settled(s), NEW dp, NEW name
  PROVE  Settled(Unlink(s, dp, name))
<1> DEFINE r == Unlink(s, dp, name)
           t == Lock(s, dp)
           ip == Lookup(t, dp, name)
           o == Min(Matches(t, dp, name))
<1>1. r = t \/ r = UnlockPut(t, dp) \/ r = UnlinkFound(t, dp, ip, o)
  BY DEF Unlink, Then
<1>2. Settled(t)
  BY SettledSteps
<1> HIDE DEF t, ip, o
<1>3. Settled(UnlockPut(t, dp))
  BY <1>2, SettledSteps
<1>4. Settled(UnlinkFound(t, dp, ip, o))
  BY <1>2, UnlinkFoundSettled
<1> HIDE DEF r
<1>. QED BY <1>1, <1>2, <1>3, <1>4 DEF r

\* file_read.
LEMMA FileReadSettled ==
  ASSUME NEW s, Settled(s), NEW f, NEW n
  PROVE  Settled(FileRead(s, f, n))
<1> DEFINE r == FileRead(s, f, n)
           t == Lock(s, f.ip)
           u == InodeRead(t, f.ip, f.off, n)
           a == Min({n, MaxBytes - f.off})
           b == Len(u.ret)
           c == Return(t, a)
           d == Return(u, b)
<1>1. r \in {t, u, c, d, Unlock(u, f.ip), Unlock(c, f.ip), Unlock(d, f.ip)}
  BY DEF FileRead, Then
<1>2. Settled(t)
  BY SettledSteps
<1> HIDE DEF t, a
<1>3. Settled(u)
  BY <1>2, SettledShape, InodeReadStill, SettledStill
<1> HIDE DEF u, b
<1>4. Settled(c) /\ Settled(d)
  BY <1>2, <1>3, SettledSteps
<1> HIDE DEF c, d
<1>5. Settled(Unlock(u, f.ip)) /\ Settled(Unlock(c, f.ip)) /\ Settled(Unlock(d, f.ip))
  BY <1>3, <1>4, SettledSteps
<1> HIDE DEF r
<1>. QED BY <1>1, <1>2, <1>3, <1>4, <1>5 DEF r

\* file_stat.
LEMMA FileStatSettled ==
  ASSUME NEW s, Settled(s), NEW i
  PROVE  Settled(FileStat(s, i))
<1> DEFINE r == FileStat(s, i)
           t == Lock(s, i)
           f == Fail(t, "stat")
<1>1. r \in {t, f, Unlock(t, i), Unlock(f, i)}
  BY DEF FileStat, Stati, Then
<1>2. Settled(t)
  BY SettledSteps
<1> HIDE DEF t
<1>3. Settled(f)
  BY <1>2, SettledShape, FailStill, SettledStill
<1> HIDE DEF f
<1>4. Settled(Unlock(t, i)) /\ Settled(Unlock(f, i))
  BY <1>2, <1>3, SettledSteps
<1> HIDE DEF r
<1>. QED BY <1>1, <1>2, <1>3, <1>4 DEF r

-----------------------------------------------------------------------------
(* Memory and disk between calls. *)

\* What is left by a call, also by one that failed.
Sound(s) == Shape(s) /\ Entries(s, 0, 0)

\* cache_begin_op.
LEMMA BeginSettled ==
  ASSUME NEW s, Sound(s)
  PROVE  Settled(s) /\ Settled(BeginOp(s))
<1> DEFINE a == [s EXCEPT !.ctx = TRUE]
           b == [a EXCEPT !.log = {}]
<1>1. BeginOp(s) = b
  BY DEF BeginOp
<1>2. Settled(s) /\ Shape(s)
  BY DEF Sound, Settled, Coherent
<1>3. Settled(a)
  BY <1>2, RestStill, SettledStill
<1> HIDE DEF a
<1>4. Settled(b)
  BY <1>3, SettledShape, RestStill, SettledStill
<1>. QED BY <1>1, <1>2, <1>4

\* An atomic operation; one that fails leaves what was there.
LEMMA OpSound ==
  ASSUME NEW s, Sound(s), NEW t, Settled(t)
  PROVE  Sound(Op(s, t))
<1>0. Shape(s) /\ Entries(s, 0, 0) /\ Shape(t)
  BY SettledShape DEF Sound
<1>1. CASE t.bad = "ok"
  <2> DEFINE a == [t EXCEPT !.ctx = FALSE]
             b == [a EXCEPT !.log = {}]
             c == [b EXCEPT !.ret = 0]
  <2>1. Op(s, t) = c
    BY <1>1 DEF Op, EndOp
  <2>2. IsState(t)
    BY <1>0 DEF Shape
  <2>3. c.bad = "ok"
    BY <1>1, <2>2 DEF IsState
  <2>4. Settled(a)
    BY <1>0, RestStill, SettledStill
  <2> HIDE DEF a
  <2>5. Settled(b)
    BY <2>4, SettledShape, RestStill, SettledStill
  <2> HIDE DEF b
  <2>6. Settled(c)
    BY <2>5, SettledShape, RestStill, SettledStill
  <2> HIDE DEF c
  <2>. QED BY <2>1, <2>3, <2>6 DEF Settled, Coherent, Sound
<1>2. CASE t.bad # "ok"
  <2> DEFINE f == [s EXCEPT !.bad = t.bad]
  <2>1. Op(s, t) = f /\ f = Fail(s, t.bad)
    BY <1>2 DEF Op, Fail
  <2>2. f.ent = s.ent /\ f.ic = s.ic
    BY <1>0 DEF Shape, IsState
  <2>3. Shape(f)
    BY <1>0, <1>2, <2>1, FailKeeps DEF Keeps
  <2> HIDE DEF f
  <2>4. Entries(f, 0, 0)
    BY <1>0, <2>2 DEF Entries, Same, Pinned
  <2>. QED BY <2>1, <2>3, <2>4 DEF Sound
<1>. QED BY <1>1, <1>2

\* One atomic operation of file_write.
LEMMA ChunkSound ==
  ASSUME NEW acc, Sound(acc.s), NEW ip, NEW len
  PROVE  Sound(NextChunk(acc, ip, len).s)
<1> DEFINE s == acc.s
           z == BeginOp(s)
           t == Lock(z, ip)
           src == [k \in 1..len |-> Datum(ip, acc.off + k - 1)]
           w == InodeWrite(t, ip, acc.off, src)
           y == IF t.bad = "ok"
                THEN LET u == IF IsDev(t, ip) THEN t ELSE w
                     IN  IF u.bad = "ok" THEN Unlock(u, ip) ELSE u
                ELSE t
           r == NextChunk(acc, ip, len).s
<1>1. r = s \/ r = Op(s, y)
  BY DEF NextChunk, WriteChunk, Then
<1>2. Settled(z) /\ Sound(s)
  BY BeginSettled
<1> HIDE DEF s, z, src, r
<1>3. Settled(t)
  BY <1>2, SettledSteps
<1> HIDE DEF t
<1>4. Settled(w)
  BY <1>3, InodeWriteCoherent DEF Settled
<1> HIDE DEF w
<1>5. Settled(Unlock(t, ip)) /\ Settled(Unlock(w, ip))
  BY <1>3, <1>4, SettledSteps
<1>6. Settled(y)
  BY <1>3, <1>4, <1>5
<1> HIDE DEF y
<1>7. Sound(Op(s, y))
  BY <1>2, <1>6, OpSound
<1>8. Sound(r)
  BY <1>1, <1>2, <1>7
<1>. QED BY <1>8 DEF r

\* file_write.
LEMMA FileWriteSound ==
  ASSUME NEW acc, Sound(acc.s), NEW ip, NEW n \in Nat
  PROVE  Sound(FileWrite(acc, ip, n).s)
<1> DEFINE m == (n + MaxChunk - 1) \div MaxChunk
           w == FileWriteLoop(acc, ip, n, m)
<1>1. MaxChunk \in Nat /\ MaxChunk > 0
  BY MaxChunkIs
<1>2. m \in Nat
  BY <1>1
<1>3. FileWrite(acc, ip, n) = w[m]
  BY DEF FileWrite
<1> HIDE DEF m
<1>4. w[0] = acc /\ \A k \in 1..m : w[k] = NextChunk(w[k - 1], ip, Min({MaxChunk, n - (k - 1) * MaxChunk}))
  BY <1>2, FileWriteLoopIs
<1> HIDE DEF w
<1> DEFINE T == {k \in 0..m : ~Sound(w[k].s)}
<1>5. ASSUME T # {} PROVE FALSE
  <2>1. PICK k \in T : \A y \in T : k <= y
    <3>1. T \in SUBSET Nat
      OBVIOUS
    <3>. QED BY <3>1, <1>5, NatMin
  <2>2. k # 0
    BY <1>4
  <2>3. k \in 1..m /\ k - 1 \in 0..m /\ k - 1 \notin T
    BY <2>1, <2>2, <1>2
  <2>4. Sound(w[k - 1].s)
    BY <2>3
  <2>5. Sound(w[k].s)
    BY <2>3, <2>4, <1>4, ChunkSound
  <2>. QED BY <2>1, <2>5
<1>6. Sound(w[m].s)
  BY <1>2, <1>5
<1>. QED BY <1>3, <1>6

\* writev over all the buffers.
LEMMA WriteBuffersSound ==
  ASSUME NEW acc, Sound(acc.s), NEW ip, NEW ns \in Seq(Nat)
  PROVE  Sound(WriteBuffers(acc, ip, ns)[Len(ns)].s)
<1> DEFINE m == Len(ns)
           w == WriteBuffers(acc, ip, ns)
<1>1. m \in Nat /\ \A k \in 1..m : ns[k] \in Nat
  OBVIOUS
<1>2. w[0] = acc /\ \A k \in 1..m : w[k] = FileWrite(w[k - 1], ip, ns[k])
  BY <1>1, WriteBuffersIs
<1> HIDE DEF m, w
<1> DEFINE T == {k \in 0..m : ~Sound(w[k].s)}
<1>3. ASSUME T # {} PROVE FALSE
  <2>1. PICK k \in T : \A y \in T : k <= y
    <3>1. T \in SUBSET Nat
      OBVIOUS
    <3>. QED BY <3>1, <1>3, NatMin
  <2>2. k # 0
    BY <1>2
  <2>3. k \in 1..m /\ k - 1 \in 0..m /\ k - 1 \notin T
    BY <2>1, <2>2, <1>1
  <2>4. Sound(w[k - 1].s) /\ ns[k] \in Nat
    BY <2>3, <1>1
  <2>5. Sound(FileWrite(w[k - 1], ip, ns[k]).s)
    BY <2>4, FileWriteSound
  <2>6. Sound(w[k].s)
    BY <2>3, <2>5, <1>2
  <2>. QED BY <2>1, <2>6
<1>4. Sound(w[m].s)
  BY <1>1, <1>3
<1>. QED BY <1>4 DEF w, m

\* file_close, which may put an inode.
LEMMA FileCloseSound ==
  ASSUME NEW st, IsTables(st), Sound(st.s), NEW f, NEW c, c = FileClose(st, f)
  PROVE  IsTables(c) /\ Sound(c.s)
<1> DEFINE ip == st.ft[f].ip
           b == BeginOp(st.s)
           t == InodePut(b, ip)
           r == Op(st.s, t)
           old == st.ft[f]
           y == [old EXCEPT !.ref = old.ref - 1]
           p2 == [st.pp EXCEPT ![old.pipe] = @ \ {End(old)}]
<1>1. IsTables(c) /\ (c.s = r \/ c.s = st.s)
  <2>1. /\ IsTables(c)
        /\ c.ft = [st.ft EXCEPT ![f] = IF old.ref = 1 THEN NoFile ELSE y]
        /\ c.s = IF old.ref = 1 /\ old.type = "inode" THEN r ELSE st.s
        /\ c.pp = IF old.ref = 1 /\ old.type = "pipe" THEN p2 ELSE st.pp
    BY DEF FileClose, IsTables, End
  <2>. QED BY <2>1
<1>2. Settled(b)
  BY BeginSettled
<1> HIDE DEF b, ip
<1>3. Settled(t)
  BY <1>2, InodePutSettled
<1> HIDE DEF t
<1>4. Sound(r)
  BY <1>3, OpSound
<1> HIDE DEF r
<1>. QED BY <1>1, <1>4

\* exit, which closes every file.
LEMMA CloseLoopSound ==
  ASSUME NEW st, IsTables(st), Sound(st.s), NEW table
  PROVE  Sound(CloseLoop(st, table)[OpenFile].s)
<1> DEFINE w == CloseLoop(st, table)
           Good(k) == IsTables(w[k]) /\ Sound(w[k].s)
<1>1. w[0] = st /\ \A k \in 1..OpenFile : w[k] = CloseOpen(w[k - 1], table[k - 1])
  BY CloseLoopIs
<1>2. OpenFile \in Nat
  BY Sizes
<1> HIDE DEF w
<1>3. Good(0)
  BY <1>1
<1>4. ASSUME NEW k \in 1..OpenFile, Good(k - 1) PROVE Good(k)
  <2>1. w[k] = w[k - 1] \/ w[k] = FileClose(w[k - 1], table[k - 1])
    BY <1>1 DEF CloseOpen
  <2>2. IsTables(w[k - 1]) /\ Sound(w[k - 1].s)
    BY <1>4
  <2>3. IsTables(FileClose(w[k - 1], table[k - 1])) /\ Sound(FileClose(w[k - 1], table[k - 1]).s)
    BY <2>2, FileCloseSound
  <2>. QED BY <2>1, <2>2, <2>3
<1> HIDE DEF Good
<1> DEFINE T == {k \in 0..OpenFile : ~Good(k)}
<1>5. ASSUME T # {} PROVE FALSE
  <2>1. PICK k \in T : \A y \in T : k <= y
    <3>1. T \in SUBSET Nat
      OBVIOUS
    <3>. QED BY <3>1, <1>5, NatMin
  <2>2. k # 0
    BY <1>3
  <2>3. k \in 1..OpenFile /\ k - 1 \in 0..OpenFile /\ k - 1 \notin T
    BY <2>1, <2>2, <1>2
  <2>4. Good(k - 1)
    BY <2>3
  <2>5. Good(k)
    BY <2>3, <2>4, <1>4
  <2>. QED BY <2>1, <2>5
<1>6. Good(OpenFile)
  BY <1>2, <1>5
<1>. QED BY <1>6 DEF Good, w

\* Every call that walks a path.
LEMMA PathSound ==
  ASSUME Sound(fs), NEW p \in Procs, NEW path \in Paths,
         \/ \E create \in BOOLEAN, omode \in OModes : Openat(p, path, create, omode)
         \/ \E type \in NodeTypes : MakeNode(p, path, type)
         \/ Newfstatat(p, path) \/ Unlinkat(p, path) \/ Chdir(p, path)
  PROVE  Sound(fs')
<1> DEFINE b == BeginOp(fs)
<1>0. Settled(b) /\ Len(path.elems) \in Nat
  BY BeginSettled, FileSysAssumption
<1>1. ASSUME NEW t, Settled(t), fs' = Op(fs, t) PROVE Sound(fs')
  BY <1>1, OpSound
<1>2. ASSUME NEW create \in BOOLEAN, NEW omode \in OModes, Openat(p, path, create, omode) PROVE Sound(fs')
  <2> DEFINE s == OpenInode(b, p, path, create)
  <2>1. fs' = Op(fs, s) \/ fs' = Op(fs, UnlockPut(s, s.ret)) \/ fs' = Op(fs, Unlock(s, s.ret))
    BY <1>2 DEF Openat, Finish
  <2> HIDE DEF b
  <2>2. Settled(s)
    BY <1>0, OpenInodeSettled
  <2> HIDE DEF s
  <2>3. Settled(UnlockPut(s, s.ret)) /\ Settled(Unlock(s, s.ret))
    BY <2>2, SettledSteps
  <2>. QED BY <2>1, <2>2, <2>3, <1>1
<1>3. ASSUME NEW type \in NodeTypes, MakeNode(p, path, type) PROVE Sound(fs')
  <2> DEFINE s == Create(b, p, path, type)
  <2>1. fs' = Op(fs, s) \/ fs' = Op(fs, UnlockPut(s, s.ret))
    BY <1>3 DEF MakeNode, Finish, Then
  <2> HIDE DEF b
  <2>2. Settled(s)
    BY <1>0, CreateSettled
  <2> HIDE DEF s
  <2>3. Settled(UnlockPut(s, s.ret))
    BY <2>2, SettledSteps
  <2>. QED BY <2>1, <2>2, <2>3, <1>1
<1>4. ASSUME Newfstatat(p, path) PROVE Sound(fs')
  <2> DEFINE t == Namex(b, cwd[p], path, FALSE)
             u == FileStat(t, t.ret)
             v == InodePut(u, u.ret)
  <2>1. fs' = Op(fs, t) \/ fs' = Op(fs, u) \/ fs' = Op(fs, v)
    BY <1>4 DEF Newfstatat, Finish, Then
  <2> HIDE DEF b
  <2>2. Settled(t)
    BY <1>0, NamexSettled
  <2> HIDE DEF t
  <2>3. Settled(u)
    BY <2>2, FileStatSettled
  <2> HIDE DEF u
  <2>4. Settled(v)
    BY <2>3, InodePutSettled
  <2> HIDE DEF v
  <2>. QED BY <2>1, <2>2, <2>3, <2>4, <1>1
<1>5. ASSUME Unlinkat(p, path) PROVE Sound(fs')
  <2> DEFINE t == Namex(b, cwd[p], path, TRUE)
             u == Unlink(t, t.ret, Last(path.elems))
  <2>1. fs' = Op(fs, t) \/ fs' = Op(fs, u)
    BY <1>5 DEF Unlinkat, Finish, Then
  <2> HIDE DEF b
  <2>2. Settled(t)
    BY <1>0, NamexSettled
  <2> HIDE DEF t
  <2>3. Settled(u)
    BY <2>2, UnlinkSettled
  <2> HIDE DEF u
  <2>. QED BY <2>1, <2>2, <2>3, <1>1
<1>6. ASSUME Chdir(p, path) PROVE Sound(fs')
  <2> DEFINE t == Namex(b, cwd[p], path, FALSE)
             u == Lock(t, t.ret)
             v == UnlockPut(u, u.ret)
  <2>1. fs' = Op(fs, t) \/ fs' = Op(fs, u) \/ fs' = Op(fs, v)
    BY <1>6 DEF Chdir, Finish, Then
  <2> HIDE DEF b
  <2>2. Settled(t)
    BY <1>0, NamexSettled
  <2> HIDE DEF t
  <2>3. Settled(u)
    BY <2>2, SettledSteps
  <2> HIDE DEF u
  <2>4. Settled(v)
    BY <2>3, SettledSteps
  <2> HIDE DEF v
  <2>. QED BY <2>1, <2>2, <2>3, <2>4, <1>1
<1>. QED BY <1>2, <1>3, <1>4, <1>5, <1>6

\* Every call on a descriptor.
LEMMA FdSound ==
  ASSUME Sound(fs), NEW p \in Procs, NEW d \in Fds,
         \/ Close(p, d) \/ Dup(p, d) \/ Fstat(p, d)
         \/ \E n \in ReadSizes : Read(p, d, n)
         \/ \E ns \in Buffers : Write(p, d, ns)
  PROVE  Sound(fs')
<1> DEFINE f == ftable[ofiles[p][d]]
<1>0. Settled(fs)
  BY BeginSettled
<1>1. ASSUME Close(p, d) PROVE Sound(fs')
  <2> DEFINE st == [s |-> fs, ft |-> ftable, pp |-> pipes]
  <2>1. fs' = FileClose(st, ofiles[p][d]).s
    BY <1>1 DEF Close
  <2>2. IsTables(st) /\ st.s = fs
    BY DEF IsTables
  <2> HIDE DEF st
  <2>. QED BY <2>1, <2>2, FileCloseSound
<1>2. ASSUME Dup(p, d) PROVE Sound(fs')
  BY <1>2 DEF Dup
<1>3. ASSUME Fstat(p, d) PROVE Sound(fs')
  <2>1. fs' = Op(fs, FileStat(fs, f.ip))
    BY <1>3 DEF Fstat, Finish
  <2>. QED BY <2>1, <1>0, FileStatSettled, OpSound
<1>4. ASSUME NEW n \in ReadSizes, Read(p, d, n) PROVE Sound(fs')
  <2>1. fs' = Op(fs, FileRead(fs, f, n))
    BY <1>4 DEF Read, Finish
  <2>. QED BY <2>1, <1>0, FileReadSettled, OpSound
<1>5. ASSUME NEW ns \in Buffers, Write(p, d, ns) PROVE Sound(fs')
  <2> DEFINE acc == [s |-> fs, off |-> f.off]
  <2>1. fs' = WriteBuffers(acc, f.ip, ns)[Len(ns)].s
    BY <1>5 DEF Write
  <2>2. acc.s = fs /\ ns \in Seq(Nat)
    BY FileSysAssumption
  <2> HIDE DEF acc
  <2>. QED BY <2>1, <2>2, WriteBuffersSound
<1>. QED BY <1>1, <1>2, <1>3, <1>4, <1>5

\* fork, exit and pipe2.
LEMMA ProcSound ==
  ASSUME Sound(fs), NEW p \in Procs, Pipe2(p) \/ Exit(p) \/ \E c \in Procs : Fork(p, c)
  PROVE  Sound(fs')
<1>0. Settled(fs)
  BY BeginSettled
<1>1. ASSUME Pipe2(p) PROVE Sound(fs')
  <2>1. UNCHANGED fs
    BY <1>1 DEF Pipe2
  <2>. QED BY <2>1
<1>2. ASSUME NEW c \in Procs, Fork(p, c) PROVE Sound(fs')
  <2>1. fs' = Op(fs, InodeShare(fs, cwd[p]))
    BY <1>2 DEF Fork, Finish
  <2>2. Settled(InodeShare(fs, cwd[p]))
    BY <1>0, SettledSteps
  <2>. QED BY <2>1, <2>2, OpSound
<1>3. ASSUME Exit(p) PROVE Sound(fs')
  <2> DEFINE st == [s |-> fs, ft |-> ftable, pp |-> pipes]
             c == CloseLoop(st, ofiles[p])[OpenFile]
             s == c.s
             t == InodePut(s, cwd[p])
  <2>1. fs' = s \/ fs' = Op(s, t)
    BY <1>3 DEF Exit
  <2>2. IsTables(st) /\ st.s = fs
    BY DEF IsTables
  <2> HIDE DEF st
  <2>3. Sound(s)
    BY <2>2, CloseLoopSound
  <2> HIDE DEF c, s
  <2>4. Settled(t)
    BY <2>3, BeginSettled, InodePutSettled
  <2> HIDE DEF t
  <2>. QED BY <2>1, <2>3, <2>4, OpSound
<1>. QED BY <1>1, <1>2, <1>3

\* A boot reads the root directory and nothing else.
LEMMA BootSound ==
  ASSUME NEW ent, ent = [j \in Inos |-> ent[j]], \A j \in Inos : IsEntry(ent[j]),
         NEW bm, NEW data, NEW s, s = Booted(ent, bm, data)
  PROVE  Sound(s)
<1> DEFINE root == [cached |-> TRUE, rc |-> 2, lock |-> 1, entry |-> ent[RootNo]]
<1>1. IsState(s) /\ s.ent = ent /\ s.ic = [i \in Inos |-> IF i = RootNo THEN root ELSE NoInode]
  BY DEF Booted, IsState
<1>2. CellOK(root) /\ root.rc = 2 /\ root.entry = ent[RootNo]
  BY DEF CellOK, IsCell
<1>3. CellOK(NoInode) /\ ~NoInode.cached /\ IsEntry(NoInode.entry)
  BY FreeIsEntry DEF CellOK, IsCell, NoInode
<1> HIDE DEF root
<1>4. Shape(s)
  BY <1>1, <1>2, <1>3 DEF Shape, IcOK
<1>5. ASSUME NEW j \in Inos
      PROVE IsEntry(s.ent[j]) /\ IsEntry(s.ic[j].entry) /\ Same(s, j) /\ Pinned(s, j)
  <2>1. CASE j = RootNo
    <3>1. s.ic[j] = root
      BY <1>1, <2>1
    <3>. QED BY <3>1, <2>1, <1>1, <1>2 DEF Same, Pinned
  <2>2. CASE j # RootNo
    <3>1. s.ic[j] = NoInode
      BY <1>1, <2>2
    <3>. QED BY <3>1, <1>1, <1>3 DEF Same, Pinned
  <2>. QED BY <2>1, <2>2
<1>6. s.ent = [j \in Inos |-> s.ent[j]]
  BY <1>1
<1>. QED BY <1>4, <1>5, <1>6 DEF Sound, Entries

\* The next boot.
LEMMA RestartSound ==
  ASSUME NEW s, Sound(s), Restart(s)
  PROVE  Sound(fs')
<1> DEFINE e == s.ent
<1>1. fs' = Booted(e, s.bm, s.data)
  BY DEF Restart
<1>2. e = [j \in Inos |-> e[j]] /\ \A j \in Inos : IsEntry(e[j])
  BY DEF Sound, Entries
<1> HIDE DEF e
<1>. QED BY <1>1, <1>2, BootSound

\* What is written when the machine stops within a write are buffers as well.
LEMMA WrittenSeq ==
  ASSUME NEW ns \in Seq(Nat), NEW part \in Written(ns)
  PROVE  part \in Seq(Nat)
<1>1. PICK k \in 1..Len(ns) : \E j \in 0..((ns[k] - 1) \div MaxChunk) :
          part = Append(SubSeq(ns, 1, k - 1), j * MaxChunk)
  BY DEF Written
<1>2. PICK j \in 0..((ns[k] - 1) \div MaxChunk) : part = Append(SubSeq(ns, 1, k - 1), j * MaxChunk)
  BY <1>1
<1>3. j * MaxChunk \in Nat
  <2>1. j \in Nat
    BY <1>2
  <2>. QED BY <2>1, MaxChunkIs
<1>4. SubSeq(ns, 1, k - 1) \in Seq(Nat)
  <2>1. \A i \in 1..(k - 1) : ns[i] \in Nat
    BY <1>1
  <2>. QED BY <1>1, <2>1
<1>. QED BY <1>2, <1>3, <1>4

\* A write that is cut short restarts from a state where memory and disk agreed.
LEMMA CutRestarts ==
  ASSUME Sound(fs), NEW p \in Procs, NEW d \in Fds, NEW ns \in Buffers, WriteCut(p, d, ns)
  PROVE  \E s : Sound(s) /\ Restart(s)
<1> DEFINE f == ftable[ofiles[p][d]]
           acc == [s |-> fs, off |-> f.off]
<1>1. PICK part \in Written(ns) : Restart(WriteBuffers(acc, f.ip, part)[Len(part)].s)
  BY DEF WriteCut
<1>2. acc.s = fs /\ part \in Seq(Nat)
  BY FileSysAssumption, WrittenSeq
<1> HIDE DEF acc
<1>3. Sound(WriteBuffers(acc, f.ip, part)[Len(part)].s)
  BY <1>2, WriteBuffersSound
<1>. QED BY <1>1, <1>3

\* Every step leaves memory and disk in agreement.
LEMMA NextSound == Sound(fs) /\ [Next]_vars => Sound(fs)'
<1> SUFFICES ASSUME Sound(fs), [Next]_vars PROVE Sound(fs')
  BY DEF Sound, Entries, Shape, IsState, IcOK, CellOK, IsCell, IsEntry, Same, Pinned
<1>1. CASE UNCHANGED vars
  BY <1>1 DEF vars
<1>2. CASE Reboot
  BY <1>2, RestartSound DEF Reboot
<1>6. ASSUME NEW p \in Procs, NEW d \in Fds, NEW ns \in Buffers, WriteCut(p, d, ns) PROVE Sound(fs')
  BY <1>6, CutRestarts, RestartSound
<1>3. ASSUME NEW p \in Procs, NEW path \in Paths,
             \/ \E omode \in OModes : Openat(p, path, TRUE, omode)
             \/ \E omode \in OModes : Openat(p, path, FALSE, omode)
             \/ \E type \in NodeTypes : MakeNode(p, path, type)
             \/ Newfstatat(p, path) \/ Unlinkat(p, path) \/ Chdir(p, path)
      PROVE  Sound(fs')
  BY <1>3, PathSound
<1>4. ASSUME NEW p \in Procs, NEW d \in Fds,
             \/ Close(p, d) \/ Dup(p, d) \/ Fstat(p, d)
             \/ \E n \in ReadSizes : Read(p, d, n)
             \/ \E ns \in Buffers : Write(p, d, ns)
      PROVE  Sound(fs')
  BY <1>4, FdSound
<1>5. ASSUME NEW p \in Procs, Pipe2(p) \/ Exit(p) \/ \E c \in Procs : Fork(p, c) PROVE Sound(fs')
  BY <1>5, ProcSound
<1>. QED BY <1>1, <1>2, <1>3, <1>4, <1>5, <1>6 DEF Next

\* The disk that mkfs leaves.
LEMMA InitSound == Init => Sound(fs)
<1> DEFINE ent == [i \in Inos |-> IF i = RootNo THEN RootEntry ELSE FreeEntry]
           data == [b \in 0..NumBlocks |-> IF b = 1 THEN RootBlock ELSE ZeroBlock]
<1>1. IsEntry(RootEntry)
  <2> DEFINE a == [FreeEntry EXCEPT !.type = "dir"]
             b == [a EXCEPT !.links = 1]
             c == [b EXCEPT !.bytes = 2]
             x == [c.addrs EXCEPT ![0] = 1]
             d == [c EXCEPT !.addrs = x]
  <2>1. RootEntry = d
    BY DEF RootEntry
  <2>2. IsEntry(a)
    BY FreeIsEntry, EntryFields
  <2> HIDE DEF a
  <2>3. IsEntry(b)
    BY <2>2, EntryFields
  <2> HIDE DEF b
  <2>4. IsEntry(c)
    BY <2>3, EntryFields
  <2> HIDE DEF c, x
  <2>. QED BY <2>1, <2>4, EntryFields
<1>2. ent = [j \in Inos |-> ent[j]] /\ \A j \in Inos : IsEntry(ent[j])
  BY <1>1, FreeIsEntry
<1>3. Init => fs = Booted(ent, {1}, data)
  BY DEF Init
<1> HIDE DEF ent, data
<1>. QED BY <1>2, <1>3, BootSound

\* CacheCoherent for every disk, every table and every sequence of calls, failures,
\* exits and reboots: whatever inode.c and sysfile.c change in an inode reaches its
\* block by an inode_sync before the call ends, inode_alloc never hands out an inode
\* that memory remembers differently, and inode_put keeps no inode without links
\* and without references.
THEOREM FileSysCacheCoherent == Spec => []CacheCoherent
<1>1. Sound(fs) => CacheCoherent
  BY ZeroNoInode DEF Sound, Entries, Same, Pinned, CacheCoherent
<1>. QED BY <1>1, InitSound, NextSound, PTL DEF Spec

-----------------------------------------------------------------------------
(* The inode locks. *)

\* How often a call that holds the locks of a and of b (0 is none) holds that of j.
Taken(a, b, j) == (IF j = a THEN 1 ELSE 0) + (IF j = b THEN 1 ELSE 0)

\* The lock of cell x, taken n times: nobody else has it; that of a directory may have
\* been released without having been taken.
Fits(x, n) == x.cached => /\ x.lock \in Int
                          /\ x.lock + n >= 1
                          /\ x.entry.type # "dir" => x.lock + n = 1

\* The locks of a and b are held; d is an in-memory directory, or 0; inode o is on
\* its way out of memory, or 0.
Locks(s, a, b, d, o) ==
    /\ s.ent = [j \in Inos |-> s.ent[j]]
    /\ \A j \in Inos : /\ IsEntry(s.ent[j]) /\ IsEntry(s.ic[j].entry)
                       /\ j # o => Fits(s.ic[j], Taken(a, b, j))
                       /\ j = d => s.ic[j].cached /\ s.ic[j].entry.type = "dir"
HoldsBut(s, a, b, d, o) == Shape(s) /\ (s.bad = "ok" => Locks(s, a, b, d, o))
Holds(s, a, b, d) == HoldsBut(s, a, b, d, 0)

\* What a step outside the inodes leaves.
LEMMA StillHoldsBut ==
  ASSUME NEW s, NEW t, NEW a, NEW b, NEW d, NEW o, HoldsBut(s, a, b, d, o), Still(s, t)
  PROVE  HoldsBut(t, a, b, d, o)
BY DEF HoldsBut, Still, Locks

\* ... in the usual case.
LEMMA StillHolds ==
  ASSUME NEW s, NEW t, NEW a, NEW b, NEW d, Holds(s, a, b, d), Still(s, t)
  PROVE  Holds(t, a, b, d)
BY StillHoldsBut DEF Holds

\* The order of the two does not matter, and a directory need not be known.
LEMMA HoldsSwap ==
  ASSUME NEW s, NEW a, NEW b, NEW d, Holds(s, a, b, d)
  PROVE  Holds(s, b, a, d) /\ Holds(s, a, b, 0)
<1>1. \A j \in Inos : Taken(a, b, j) = Taken(b, a, j) /\ j # 0
  BY ZeroNoInode DEF Taken
<1>. QED BY <1>1 DEF Holds, HoldsBut, Locks

\* A step that failed.
LEMMA FailedHolds ==
  ASSUME NEW s, Shape(s), s.bad # "ok"
  PROVE  \A a, b, d : Holds(s, a, b, d)
BY DEF Holds, HoldsBut

\* ... and its failure.
LEMMA FailHolds ==
  ASSUME NEW s, Shape(s), NEW why, why # "ok"
  PROVE  \A a, b, d : Holds(Fail(s, why), a, b, d)
<1>1. Keeps(s, Fail(s, why)) /\ Fail(s, why).bad # "ok"
  BY FailKeeps
<1>. QED BY <1>1, FailedHolds DEF Keeps

\* What is known of an inode.
LEMMA HoldsCell ==
  ASSUME NEW s, NEW a, NEW b, NEW d, Holds(s, a, b, d), NEW i \in Inos
  PROVE  /\ CellOK(s.ic[i])
         /\ s.bad = "ok" => /\ IsEntry(s.ent[i]) /\ IsEntry(s.ic[i].entry)
                            /\ Fits(s.ic[i], Taken(a, b, i))
                            /\ i = d => s.ic[i].cached /\ s.ic[i].entry.type = "dir"
BY ZeroNoInode DEF Holds, HoldsBut, Shape, IcOK, Locks

\* ... when one is on its way out.
LEMMA HoldsButCell ==
  ASSUME NEW s, NEW a, NEW b, NEW d, NEW o, HoldsBut(s, a, b, d, o), NEW i \in Inos
  PROVE  /\ CellOK(s.ic[i])
         /\ s.bad = "ok" => /\ IsEntry(s.ent[i]) /\ IsEntry(s.ic[i].entry)
                            /\ i # o => Fits(s.ic[i], Taken(a, b, i))
                            /\ i = d => s.ic[i].cached /\ s.ic[i].entry.type = "dir"
BY DEF HoldsBut, Shape, IcOK, Locks

\* The cell of inode i is replaced.
LEMMA HoldsButStep ==
  ASSUME NEW s, NEW a, NEW b, NEW d, NEW o, HoldsBut(s, a, b, d, o),
         NEW i, NEW x, NEW e, NEW f, NEW g, NEW q,
         i \in Inos => CellOK(x),
         i \in Inos /\ s.bad = "ok" =>
            /\ IsEntry(x.entry)
            /\ i # q => Fits(x, Taken(e, f, i))
            /\ i = g => x.cached /\ x.entry.type = "dir",
         \A j \in Inos : j # i => Taken(e, f, j) = Taken(a, b, j),
         g \in {0, d}, o \in {0, i, q}
  PROVE  HoldsBut(WithCell(s, i, x), e, f, g, q)
<1> DEFINE c == [s.ic EXCEPT ![i] = x]
           t == [s EXCEPT !.ic = c]
<1>0. Shape(s) /\ IsState(s) /\ IcOK(s.ic)
  BY DEF HoldsBut, Shape
<1>1. \A j \in Inos : c[j] = IF j = i THEN x ELSE s.ic[j]
  BY <1>0 DEF IcOK
<1> HIDE DEF c
<1>2. t.ic = c /\ t.bad = s.bad /\ t.ent = s.ent
  BY <1>0 DEF IsState
<1>3. WithCell(s, i, x) = t
  BY DEF WithCell, c
<1> HIDE DEF t
<1>4. Shape(t)
  <2>1. i \notin Inos \/ CellOK(x)
    OBVIOUS
  <2>. QED BY <1>0, <1>3, <2>1, SetCell
<1>5. ASSUME t.bad = "ok" PROVE Locks(t, e, f, g, q)
  <2>1. s.bad = "ok" /\ Locks(s, a, b, d, o)
    BY <1>2, <1>5 DEF HoldsBut
  <2>2. t.ent = [j \in Inos |-> t.ent[j]]
    BY <1>2, <2>1 DEF Locks
  <2>3. ASSUME NEW j \in Inos
        PROVE /\ IsEntry(t.ent[j]) /\ IsEntry(t.ic[j].entry)
              /\ j # q => Fits(t.ic[j], Taken(e, f, j))
              /\ j = g => t.ic[j].cached /\ t.ic[j].entry.type = "dir"
    <3>0. IsEntry(s.ent[j]) /\ t.ent = s.ent
      BY <1>2, <2>1 DEF Locks
    <3>1. CASE j = i
      <4>1. t.ic[j] = x
        BY <1>1, <1>2, <3>1
      <4>. QED BY <3>0, <4>1, <2>1, <3>1
    <3>2. CASE j # i
      <4>1. t.ic[j] = s.ic[j] /\ Taken(e, f, j) = Taken(a, b, j)
        BY <1>1, <1>2, <3>2
      <4>2. /\ IsEntry(s.ic[j].entry) /\ (j # o => Fits(s.ic[j], Taken(a, b, j)))
            /\ j = d => s.ic[j].cached /\ s.ic[j].entry.type = "dir"
        BY <2>1 DEF Locks
      <4>3. j # 0
        BY ZeroNoInode
      <4>. QED BY <3>0, <3>2, <4>1, <4>2, <4>3
    <3>. QED BY <3>1, <3>2
  <2>. QED BY <2>2, <2>3 DEF Locks
<1>. QED BY <1>3, <1>4, <1>5 DEF HoldsBut

\* ... in the usual case.
LEMMA HoldsStep ==
  ASSUME NEW s, NEW a, NEW b, NEW d, Holds(s, a, b, d), NEW i, NEW x, NEW e, NEW f, NEW g,
         i \in Inos => CellOK(x),
         i \in Inos /\ s.bad = "ok" =>
            /\ IsEntry(x.entry)
            /\ Fits(x, Taken(e, f, i))
            /\ i = g => x.cached /\ x.entry.type = "dir",
         \A j \in Inos : j # i => Taken(e, f, j) = Taken(a, b, j),
         g \in {0, d}
  PROVE  Holds(WithCell(s, i, x), e, f, g)
<1> DEFINE o == 0
           q == 0
<1>1. /\ HoldsBut(s, a, b, d, o) /\ (i \in Inos => CellOK(x))
      /\ i \in Inos /\ s.bad = "ok" =>
            /\ IsEntry(x.entry)
            /\ i # q => Fits(x, Taken(e, f, i))
            /\ i = g => x.cached /\ x.entry.type = "dir"
      /\ \A j \in Inos : j # i => Taken(e, f, j) = Taken(a, b, j)
      /\ g \in {0, d} /\ o \in {0, i, q}
  BY DEF Holds
<1> HIDE DEF o, q
<1>2. HoldsBut(WithCell(s, i, x), e, f, g, q)
  BY ONLY <1>1, HoldsButStep
<1>. QED BY <1>2 DEF Holds, q

\* What is in a cell after a change of its lock.
LEMMA LockIs ==
  ASSUME NEW r, CellOK(r), NEW x, NEW t, t = [r EXCEPT !.lock = x]
  PROVE  t.lock = x
BY DEF CellOK, IsCell

\* ... of its entry or its count.
LEMMA LockKept ==
  ASSUME NEW r, CellOK(r), NEW x
  PROVE  [r EXCEPT !.entry = x].lock = r.lock /\ [r EXCEPT !.rc = x].lock = r.lock
BY DEF CellOK, IsCell

\* inode_lock: one more lock is held, and the inode is in memory.
LEMMA LockHolds ==
  ASSUME NEW s, NEW a, NEW d, Holds(s, a, 0, d), NEW i
  PROVE  /\ Holds(Lock(s, i), a, i, d)
         /\ Lock(s, i).bad = "ok" => Lock(s, i).ic[i].cached = s.ic[i].cached /\ s.ic[i].cached
<1> DEFINE x == s.ic[i].lock - 1
           c == [s.ic[i] EXCEPT !.lock = x]
           t == WithCell(s, i, c)
<1>1. \/ Lock(s, i) \in {Fail(s, "freed_inode"), Fail(s, "assert_rc"), Fail(s, "stuck")}
      \/ Lock(s, i) = t /\ s.ic[i].cached
  BY DEF Lock, WithCell
<1>2. Shape(s) /\ IsState(s) /\ IcOK(s.ic)
  BY DEF Holds, HoldsBut, Shape
<1>3. ASSUME NEW u \in {Fail(s, "freed_inode"), Fail(s, "assert_rc"), Fail(s, "stuck")}
      PROVE  Holds(u, a, i, d) /\ u.bad # "ok"
  BY <1>2, FailHolds, FailKeeps
<1>4. ASSUME i \in Inos
      PROVE  CellOK(c) /\ c.cached = s.ic[i].cached /\ c.entry = s.ic[i].entry /\ c.lock = x
  <2>1. CellOK(s.ic[i])
    BY <1>4, HoldsCell
  <2>. QED BY <2>1, LockField, LockIs
<1> HIDE DEF c
<1>5. ASSUME i \in Inos, s.bad = "ok"
      PROVE  /\ IsEntry(c.entry)
             /\ Fits(c, Taken(a, i, i))
             /\ i = d => c.cached /\ c.entry.type = "dir"
  <2>1. /\ IsEntry(s.ic[i].entry) /\ Fits(s.ic[i], Taken(a, 0, i))
        /\ i = d => s.ic[i].cached /\ s.ic[i].entry.type = "dir"
    BY <1>5, HoldsCell
  <2>2. Taken(a, i, i) = Taken(a, 0, i) + 1 /\ Taken(a, 0, i) \in Int
    BY <1>5, ZeroNoInode DEF Taken
  <2>3. Fits(c, Taken(a, i, i))
    <3> DEFINE m == Taken(a, 0, i)
               n == Taken(a, i, i)
               k == s.ic[i].lock
    <3>1. n = m + 1 /\ m \in Int /\ c.lock = k - 1
      BY <2>2, <1>4, <1>5
    <3>2. c.cached => k \in Int /\ k + m >= 1 /\ (c.entry.type # "dir" => k + m = 1)
      BY <2>1, <1>4, <1>5 DEF Fits
    <3> HIDE DEF m, n, k
    <3>3. Fits(c, n)
      BY <3>1, <3>2 DEF Fits
    <3>. QED BY <3>3 DEF n
  <2>. QED BY <2>1, <2>3, <1>4, <1>5
<1>6. \A j \in Inos : j # i => Taken(a, i, j) = Taken(a, 0, j)
  BY ZeroNoInode DEF Taken
<1>7. Holds(t, a, i, d)
  BY <1>4, <1>5, <1>6, HoldsStep
<1>8. s.ic[i].cached => t.ic[i].cached = s.ic[i].cached
  <2> DEFINE z == [s.ic EXCEPT ![i] = c]
  <2>1. t = [s EXCEPT !.ic = z]
    BY DEF WithCell
  <2>2. (i \in Inos /\ z[i] = c) \/ z = s.ic
    BY <1>2 DEF IcOK
  <2> HIDE DEF z, t
  <2>3. t.ic = z
    BY <2>1, <1>2 DEF IsState
  <2>. QED BY <2>2, <2>3, <1>4
<1> HIDE DEF t
<1>. QED BY <1>1, <1>3, <1>7, <1>8

\* inode_unlock: one lock less is held; if it was not held, it is a directory's.
LEMMA UnlockHolds ==
  ASSUME NEW s, NEW a, NEW b, NEW d, Holds(s, a, b, d), NEW i
  PROVE  /\ b = i => Holds(Unlock(s, i), a, 0, d)
         /\ d = i => Holds(Unlock(s, i), a, b, d)
<1> DEFINE x == IF s.ic[i].lock < MaxPermits THEN s.ic[i].lock + 1 ELSE s.ic[i].lock
           c == [s.ic[i] EXCEPT !.lock = x]
           t == WithCell(s, i, c)
<1>1. \/ Unlock(s, i) \in {Fail(s, "freed_inode"), Fail(s, "assert_rc")}
      \/ Unlock(s, i) = t
  BY DEF Unlock, WithCell
<1>2. Shape(s)
  BY DEF Holds, HoldsBut
<1>3. ASSUME NEW u \in {Fail(s, "freed_inode"), Fail(s, "assert_rc")}
      PROVE  \A f : Holds(u, a, f, d)
  BY <1>2, FailHolds
<1>4. ASSUME i \in Inos
      PROVE  CellOK(c) /\ c.cached = s.ic[i].cached /\ c.entry = s.ic[i].entry /\ c.lock = x
  <2>1. CellOK(s.ic[i])
    BY <1>4, HoldsCell
  <2>. QED BY <2>1, LockField, LockIs
<1> HIDE DEF c
<1>5. ASSUME i \in Inos, s.bad = "ok"
      PROVE  /\ IsEntry(c.entry)
             /\ i = d => c.cached /\ c.entry.type = "dir"
             /\ b = i => Fits(c, Taken(a, 0, i))
             /\ d = i => Fits(c, Taken(a, b, i))
  <2>1. /\ IsEntry(s.ic[i].entry) /\ Fits(s.ic[i], Taken(a, b, i))
        /\ i = d => s.ic[i].cached /\ s.ic[i].entry.type = "dir"
    BY <1>5, HoldsCell
  <2>2. Taken(a, i, i) = Taken(a, 0, i) + 1 /\ Taken(a, 0, i) \in Nat /\ Taken(a, b, i) \in Nat
    BY <1>5, ZeroNoInode DEF Taken
  <2>3. MaxPermits \in Nat /\ MaxPermits >= 2
    BY InodeAssumption
  <2> DEFINE m == Taken(a, 0, i)
             n == Taken(a, b, i)
             k == s.ic[i].lock
  <2>4. c.cached => k \in Int /\ k + n >= 1 /\ (c.entry.type # "dir" => k + n = 1)
    BY <2>1, <1>4, <1>5 DEF Fits
  <2>7. c.lock = (IF k < MaxPermits THEN k + 1 ELSE k) /\ m \in Nat /\ n \in Nat /\ (b = i => n = m + 1)
    BY <2>2, <1>4, <1>5
  <2>8. d = i => c.entry.type = "dir"
    BY <2>1, <1>4, <1>5
  <2> HIDE DEF m, n, k
  <2>5. b = i => Fits(c, m)
    <3>1. m + 1 <= 2 \/ ~(b = i)
      BY <2>7 DEF n, Taken
    <3>. QED BY <3>1, <2>3, <2>4, <2>7 DEF Fits
  <2>6. d = i => Fits(c, n)
    BY <2>3, <2>4, <2>7, <2>8 DEF Fits
  <2>. QED BY <2>1, <2>5, <2>6, <1>4, <1>5 DEF m, n
<1> HIDE DEF x
<1>6. b = i => \A j \in Inos : j # i => Taken(a, 0, j) = Taken(a, b, j)
  BY ZeroNoInode DEF Taken
<1>7. b = i => Holds(t, a, 0, d)
  BY <1>4, <1>5, <1>6, HoldsStep
<1>8. d = i => Holds(t, a, b, d)
  BY <1>4, <1>5, HoldsStep
<1> HIDE DEF t
<1>. QED BY <1>1, <1>3, <1>7, <1>8

\* inode_get and inode_share; an inode that is held is in memory.
LEMMA GetHolds ==
  ASSUME NEW s, NEW a, NEW b, NEW d, Holds(s, a, b, d), NEW i,
         i \in Inos \cap {a, b} /\ s.bad = "ok" => s.ic[i].cached
  PROVE  Holds(InodeGet(s, i), a, b, d) /\ Holds(InodeShare(s, i), a, b, d)
<1> DEFINE c == [s.ic[i] EXCEPT !.rc = s.ic[i].rc + 1]
           n == [cached |-> TRUE, rc |-> 1, lock |-> 1, entry |-> s.ent[i]]
<1>1. \/ InodeGet(s, i) = s
      \/ s.ic[i].cached /\ InodeGet(s, i) = WithCell(s, i, c)
      \/ ~s.ic[i].cached /\ InodeGet(s, i) = WithCell(s, i, n)
  BY DEF InodeGet, WithCell
<1>2. \/ s.ic[i].cached /\ InodeShare(s, i) = WithCell(s, i, c)
      \/ InodeShare(s, i) = Fail(s, "freed_inode")
  BY DEF InodeShare, WithCell
<1>3. Holds(Fail(s, "freed_inode"), a, b, d)
  BY FailHolds DEF Holds, HoldsBut
<1>4. s.ic[i].cached => Holds(WithCell(s, i, c), a, b, d)
  <2> SUFFICES ASSUME s.ic[i].cached PROVE Holds(WithCell(s, i, c), a, b, d)
    OBVIOUS
  <2>1. ASSUME i \in Inos
        PROVE  CellOK(c) /\ c.lock = s.ic[i].lock /\ c.cached /\ c.entry = s.ic[i].entry
    <3>1. CellOK(s.ic[i]) /\ s.ic[i].rc \in Int
      BY <2>1, HoldsCell DEF CellOK
    <3>2. s.ic[i].rc + 1 \in Int
      BY <3>1
    <3>. QED BY <3>1, <3>2, RcField, LockKept
  <2> HIDE DEF c
  <2>2. i \in Inos /\ s.bad = "ok" =>
            /\ IsEntry(c.entry) /\ Fits(c, Taken(a, b, i))
            /\ i = d => c.cached /\ c.entry.type = "dir"
    BY <2>1, HoldsCell DEF Fits
  <2>. QED BY <2>1, <2>2, HoldsStep
<1>5. ~s.ic[i].cached => Holds(WithCell(s, i, n), a, b, d)
  <2> SUFFICES ASSUME ~s.ic[i].cached PROVE Holds(WithCell(s, i, n), a, b, d)
    OBVIOUS
  <2>1. CellOK(n) /\ n.lock = 1 /\ n.entry = s.ent[i]
    BY DEF CellOK, IsCell
  <2> HIDE DEF n
  <2>2. i \in Inos /\ s.bad = "ok" =>
            /\ IsEntry(n.entry) /\ Fits(n, Taken(a, b, i))
            /\ i = d => n.cached /\ n.entry.type = "dir"
    <3> SUFFICES ASSUME i \in Inos, s.bad = "ok"
                 PROVE  IsEntry(n.entry) /\ Fits(n, Taken(a, b, i)) /\ i # d
      OBVIOUS
    <3>1. IsEntry(s.ent[i]) /\ i # d
      BY HoldsCell
    <3>2. Taken(a, b, i) = 0
      BY DEF Taken
    <3>3. Fits(n, 0)
      BY <2>1 DEF Fits
    <3>. QED BY <2>1, <3>1, <3>2, <3>3
  <2>. QED BY <2>1, <2>2, HoldsStep
<1> HIDE DEF c, n
<1>. QED BY <1>1, <1>2, <1>3, <1>4, <1>5

\* An entry is changed in memory, not its type.
LEMMA AheadHolds ==
  ASSUME NEW s, NEW a, NEW b, NEW d, NEW o, HoldsBut(s, a, b, d, o), o = 0 \/ d = 0, NEW i, NEW x,
         i \in Inos /\ s.bad = "ok" => IsEntry(x) /\ (i # o => x.type = s.ic[i].entry.type),
         NEW r, r = [s EXCEPT !.ic[i].entry = x]
  PROVE  HoldsBut(r, a, b, d, o)
<1> DEFINE c == [s.ic[i] EXCEPT !.entry = x]
<1>1. r = WithCell(s, i, c)
  BY DEF WithCell
<1>2. i \in Inos => CellOK(c) /\ c.entry = x /\ c.cached = s.ic[i].cached /\ c.lock = s.ic[i].lock
  <2> SUFFICES ASSUME i \in Inos
               PROVE CellOK(c) /\ c.entry = x /\ c.cached = s.ic[i].cached /\ c.lock = s.ic[i].lock
    OBVIOUS
  <2>1. CellOK(s.ic[i])
    BY HoldsButCell
  <2>. QED BY <2>1, EntryField, LockKept
<1> HIDE DEF c
<1>3. i \in Inos /\ s.bad = "ok" =>
            /\ IsEntry(c.entry)
            /\ i # o => Fits(c, Taken(a, b, i))
            /\ i = d => c.cached /\ c.entry.type = "dir"
  <2> SUFFICES ASSUME i \in Inos, s.bad = "ok"
               PROVE /\ IsEntry(c.entry)
                     /\ i # o => Fits(c, Taken(a, b, i))
                     /\ i = d => c.cached /\ c.entry.type = "dir"
    OBVIOUS
  <2>1. /\ i # o => Fits(s.ic[i], Taken(a, b, i))
        /\ i = d => s.ic[i].cached /\ s.ic[i].entry.type = "dir"
    BY HoldsButCell
  <2>2. i # o => c.entry.type = s.ic[i].entry.type
    BY <1>2
  <2>3. i = d => i # o
    BY ZeroNoInode
  <2>. QED BY <1>2, <2>1, <2>2, <2>3 DEF Fits
<1> DEFINE e == a
           f == b
           g == d
           q == o
<1>4. /\ HoldsBut(s, a, b, d, o) /\ (i \in Inos => CellOK(c))
      /\ i \in Inos /\ s.bad = "ok" =>
            /\ IsEntry(c.entry)
            /\ i # q => Fits(c, Taken(e, f, i))
            /\ i = g => c.cached /\ c.entry.type = "dir"
      /\ \A j \in Inos : j # i => Taken(e, f, j) = Taken(a, b, j)
      /\ g \in {0, d} /\ o \in {0, i, q}
  BY <1>2, <1>3
<1> HIDE DEF e, f, g, q
<1>5. HoldsBut(WithCell(s, i, c), e, f, g, q)
  BY ONLY <1>4, HoldsButStep
<1>. QED BY <1>1, <1>5 DEF e, f, g, q

\* inode_sync.
LEMMA SyncHolds ==
  ASSUME NEW s, NEW a, NEW b, NEW d, NEW o, HoldsBut(s, a, b, d, o), NEW i
  PROVE  HoldsBut(InodeSync(s, i), a, b, d, o)
<1> DEFINE y == [s.ent EXCEPT ![i] = s.ic[i].entry]
           u == [s EXCEPT !.ent = y]
<1>1. InodeSync(s, i) = Sync(u, InodeBlk(i))
  BY DEF InodeSync
<1>2. Shape(s) /\ IsState(s)
  BY DEF HoldsBut, Shape
<1>3. Shape(u) /\ u.bad = s.bad /\ u.ic = s.ic /\ u.ent = y
  <2>1. Keeps(s, [s EXCEPT !.ent = y])
    BY <1>2, SetRest
  <2>2. u.bad = s.bad /\ u.ic = s.ic /\ u.ent = y
    BY <1>2 DEF IsState
  <2>. QED BY <2>1, <2>2 DEF Keeps
<1>4. ASSUME u.bad = "ok" PROVE Locks(u, a, b, d, o)
  <2>1. Locks(s, a, b, d, o)
    BY <1>3, <1>4 DEF HoldsBut
  <2>2. y = [j \in Inos |-> IF j = i THEN s.ic[i].entry ELSE s.ent[j]]
    BY <2>1 DEF Locks
  <2> HIDE DEF y, u
  <2>. QED BY <1>3, <2>1, <2>2 DEF Locks
<1>5. HoldsBut(u, a, b, d, o)
  BY <1>3, <1>4 DEF HoldsBut
<1> HIDE DEF u
<1>. QED BY <1>1, <1>3, <1>5, SyncStill, StillHoldsBut

\* ... after a change of the entry.
LEMMA EntryHolds ==
  ASSUME NEW s, NEW a, NEW b, NEW d, Holds(s, a, b, d), NEW i, NEW x,
         i \in Inos /\ s.bad = "ok" => IsEntry(x) /\ x.type = s.ic[i].entry.type
  PROVE  Holds(InodeSync([s EXCEPT !.ic[i].entry = x], i), a, b, d)
<1> DEFINE o == 0
           r == [s EXCEPT !.ic[i].entry = x]
<1>1. /\ HoldsBut(s, a, b, d, o) /\ (o = 0 \/ d = 0) /\ r = [s EXCEPT !.ic[i].entry = x]
      /\ i \in Inos /\ s.bad = "ok" => IsEntry(x) /\ (i # o => x.type = s.ic[i].entry.type)
  BY DEF Holds
<1> HIDE DEF o, r
<1>2. HoldsBut(r, a, b, d, o)
  BY ONLY <1>1, AheadHolds
<1>3. HoldsBut(InodeSync(r, i), a, b, d, o)
  BY <1>2, SyncHolds
<1>. QED BY <1>3 DEF Holds, o, r

\* The other fields of an entry, and its type.
LEMMA TypeKept ==
  ASSUME NEW r, IsEntry(r), NEW x
  PROVE  /\ [r EXCEPT !.bytes = x].type = r.type /\ [r EXCEPT !.addrs = x].type = r.type
         /\ [r EXCEPT !.indirect = x].type = r.type /\ [r EXCEPT !.links = x].type = r.type
BY DEF IsEntry

\* inode_clear of an inode on its way out.
LEMMA ClearHolds ==
  ASSUME NEW s, NEW a, NEW b, NEW i, HoldsBut(s, a, b, 0, i)
  PROVE  HoldsBut(InodeClear(s, i), a, b, 0, i)
<1> DEFINE d == 0
           t == CacheFree(s, OwnBlocks(s.data, s.ic[i].entry))
           x == [t.ic[i].entry EXCEPT !.indirect = 0]
           u == [t EXCEPT !.ic[i].entry = x]
           y == [u.ic[i].entry EXCEPT !.bytes = 0]
           v == [u EXCEPT !.ic[i].entry = y]
           z == [v.ic[i].entry EXCEPT !.addrs = FreeEntry.addrs]
           w == [v EXCEPT !.ic[i].entry = z]
<1>1. InodeClear(s, i) = IF t.bad = "ok" THEN InodeSync(w, i) ELSE t
  <2>1. w = [t EXCEPT !.ic[i].entry.indirect = 0, !.ic[i].entry.bytes = 0,
                      !.ic[i].entry.addrs = FreeEntry.addrs]
    OBVIOUS
  <2> HIDE DEF w
  <2>. QED BY <2>1 DEF InodeClear, Then
<1>2. HoldsBut(t, a, b, d, i) /\ d = 0
  BY CacheFreeStill, StillHoldsBut DEF HoldsBut
<1> HIDE DEF t, d
<1>3. i \in Inos /\ t.bad = "ok" => IsEntry(x)
  BY <1>2, HoldsButCell, EntryFields
<1> HIDE DEF x
<1>4. HoldsBut(u, a, b, d, i)
  BY <1>2, <1>3, AheadHolds
<1> HIDE DEF u
<1>5. i \in Inos /\ u.bad = "ok" => IsEntry(y)
  BY <1>4, HoldsButCell, EntryFields
<1> HIDE DEF y
<1>6. HoldsBut(v, a, b, d, i)
  BY <1>2, <1>4, <1>5, AheadHolds
<1> HIDE DEF v
<1>7. i \in Inos /\ v.bad = "ok" => IsEntry(z)
  BY <1>6, HoldsButCell, EntryFields
<1> HIDE DEF z
<1>8. HoldsBut(w, a, b, d, i)
  BY <1>2, <1>6, <1>7, AheadHolds
<1> HIDE DEF w
<1>9. HoldsBut(InodeSync(w, i), a, b, d, i)
  BY <1>8, SyncHolds
<1>. QED BY <1>1, <1>2, <1>9

\* inode_put.
LEMMA PutHolds ==
  ASSUME NEW s, NEW a, NEW b, NEW d, Holds(s, a, b, d), NEW i
  PROVE  Holds(InodePut(s, i), a, b, 0)
<1>0. Holds(s, a, b, 0) /\ Shape(s)
  BY HoldsSwap DEF Holds, HoldsBut
<1>1. Holds(Fail(s, "freed_inode"), a, b, 0) /\ Holds(Fail(s, "stuck"), a, b, 0)
  BY <1>0, FailHolds
<1>2. CASE s.ic[i].cached /\ ~(s.ic[i].rc = 1 /\ s.ic[i].entry.links = 0)
  <2> DEFINE c == [s.ic[i] EXCEPT !.rc = s.ic[i].rc - 1]
  <2>1. InodePut(s, i) = Fail(s, "stuck") \/ InodePut(s, i) = WithCell(s, i, c)
    BY <1>2 DEF InodePut, WithCell
  <2>2. ASSUME i \in Inos
        PROVE  CellOK(c) /\ c.lock = s.ic[i].lock /\ c.cached /\ c.entry = s.ic[i].entry
    <3>1. CellOK(s.ic[i]) /\ s.ic[i].rc \in Int
      BY <1>0, <2>2, HoldsCell DEF CellOK
    <3>2. s.ic[i].rc - 1 \in Int
      BY <3>1
    <3>. QED BY <3>1, <3>2, <1>2, RcField, LockKept
  <2> HIDE DEF c
  <2>3. i \in Inos /\ s.bad = "ok" =>
            /\ IsEntry(c.entry) /\ Fits(c, Taken(a, b, i))
            /\ i = 0 => c.cached /\ c.entry.type = "dir"
    BY <1>0, <1>2, <2>2, HoldsCell, ZeroNoInode DEF Fits
  <2>4. Holds(WithCell(s, i, c), a, b, 0)
    BY <1>0, <2>2, <2>3, HoldsStep
  <2>. QED BY <2>1, <2>4, <1>1
<1>3. CASE s.ic[i].cached /\ s.ic[i].rc = 1 /\ s.ic[i].entry.links = 0
  <2> DEFINE y == [s.ic[i] EXCEPT !.rc = 0]
             t == WithCell(s, i, y)
             x == [t.ic[i].entry EXCEPT !.type = "invalid"]
             u == [t EXCEPT !.ic[i].entry = x]
             c == InodeClear(u, i)
             e == WithCell(c, i, NoInode)
             z == 0
  <2>1. InodePut(s, i) = Fail(s, "stuck") \/ InodePut(s, i) = IF c.bad = "ok" THEN e ELSE c
    <3>1. u = [s EXCEPT !.ic[i].rc = 0, !.ic[i].entry.type = "invalid"]
      BY DEF WithCell
    <3> HIDE DEF u
    <3>. QED BY <3>1, <1>3 DEF InodePut, Then, WithCell
  <2>2. i \in Inos => CellOK(y) /\ y.entry = s.ic[i].entry
    <3> SUFFICES ASSUME i \in Inos PROVE CellOK(y) /\ y.entry = s.ic[i].entry
      OBVIOUS
    <3>1. CellOK(s.ic[i])
      BY <1>0, HoldsCell
    <3>. QED BY <3>1, <1>3, RcField
  <2> HIDE DEF y
  <2>z. /\ HoldsBut(s, a, b, z, z) /\ z = 0
        /\ \A j \in Inos : j # i => Taken(a, b, j) = Taken(a, b, j)
    BY <1>0 DEF Holds
  <2> HIDE DEF z
  <2>3. HoldsBut(t, a, b, z, i)
    <3>1. i \in Inos /\ s.bad = "ok" =>
            /\ IsEntry(y.entry)
            /\ i # i => Fits(y, Taken(a, b, i))
            /\ i = z => y.cached /\ y.entry.type = "dir"
      BY <1>0, <2>2, <2>z, HoldsCell, ZeroNoInode
    <3>2. z \in {0, z} /\ z \in {0, i, i}
      BY <2>z
    <3>. QED BY ONLY <2>z, <2>2, <3>1, <3>2, HoldsButStep
  <2> HIDE DEF t
  <2>4. i \in Inos /\ t.bad = "ok" => IsEntry(x)
    BY <2>3, HoldsButCell, EntryFields
  <2> HIDE DEF x
  <2>5. HoldsBut(u, a, b, z, i)
    BY <2>3, <2>4, <2>z, AheadHolds
  <2> HIDE DEF u
  <2>6. HoldsBut(c, a, b, z, i)
    BY <2>5, <2>z, ClearHolds
  <2> HIDE DEF c
  <2>7. Holds(e, a, b, 0)
    <3>1. CellOK(NoInode) /\ IsEntry(NoInode.entry) /\ ~NoInode.cached
      BY FreeIsEntry DEF NoInode, IsCell, CellOK
    <3>2. /\ (i \in Inos => CellOK(NoInode)) /\ z \in {0, z} /\ i \in {0, i, z}
          /\ i \in Inos /\ c.bad = "ok" =>
            /\ IsEntry(NoInode.entry)
            /\ i # z => Fits(NoInode, Taken(a, b, i))
            /\ i = z => NoInode.cached /\ NoInode.entry.type = "dir"
      BY <3>1, <2>z, ZeroNoInode DEF Fits
    <3>3. HoldsBut(WithCell(c, i, NoInode), a, b, z, z)
      BY ONLY <2>6, <2>z, <3>2, HoldsButStep
    <3>. QED BY <3>3, <2>z DEF Holds
  <2>8. c.bad # "ok" => Holds(c, a, b, 0)
    BY <2>6, FailedHolds DEF HoldsBut
  <2> HIDE DEF e
  <2>. QED BY <2>1, <2>7, <2>8, <1>1
<1>4. CASE ~s.ic[i].cached
  BY <1>1, <1>4 DEF InodePut
<1>. QED BY <1>2, <1>3, <1>4

\* inode_unlock and inode_put.
LEMMA UnlockPutHolds ==
  ASSUME NEW s, NEW a, NEW b, NEW d, Holds(s, a, b, d), NEW i
  PROVE  /\ b = i => Holds(UnlockPut(s, i), a, 0, 0)
         /\ d = i => Holds(UnlockPut(s, i), a, b, 0)
<1> DEFINE u == Unlock(s, i)
<1>1. UnlockPut(s, i) = IF u.bad = "ok" THEN InodePut(u, i) ELSE u
  BY DEF UnlockPut, Then
<1>2. (b = i => Holds(u, a, 0, d)) /\ (d = i => Holds(u, a, b, d))
  BY UnlockHolds
<1> HIDE DEF u
<1>3. b = i => Holds(InodePut(u, i), a, 0, 0) /\ Holds(u, a, 0, 0)
  BY <1>2, PutHolds, HoldsSwap
<1>4. d = i => Holds(InodePut(u, i), a, b, 0) /\ Holds(u, a, b, 0)
  BY <1>2, PutHolds, HoldsSwap
<1>. QED BY <1>1, <1>3, <1>4

\* inode_alloc.
LEMMA AllocHolds ==
  ASSUME NEW s, NEW a, NEW b, NEW d, Holds(s, a, b, d), NEW type
  PROVE  Holds(InodeAlloc(s, type), a, b, d)
<1> DEFINE u == InodeAlloc(s, type)
           n == Min(FreeInodes(s))
           f == [FreeEntry EXCEPT !.type = type]
           x == [s.ent EXCEPT ![n] = f]
           t == [s EXCEPT !.ent = x]
           v == [t EXCEPT !.ret = n]
<1>0. Shape(s) /\ IsState(s)
  BY DEF Holds, HoldsBut, Shape
<1>1. u = Fail(s, "no_inode") \/ u = Sync(v, InodeBlk(n))
  BY DEF InodeAlloc
<1>2. IsEntry(f)
  BY FreeIsEntry, EntryFields
<1> HIDE DEF n, f, u
<1>3. t.ent = x /\ t.ic = s.ic /\ t.bad = s.bad
  BY <1>0 DEF IsState
<1>4. Shape(t)
  BY <1>0, SetRest DEF Keeps
<1> HIDE DEF t
<1>5. Holds(t, a, b, d)
  <2> SUFFICES ASSUME t.bad = "ok" PROVE Locks(t, a, b, d, 0)
    BY <1>4 DEF Holds, HoldsBut
  <2>1. Locks(s, a, b, d, 0)
    BY <1>3 DEF Holds, HoldsBut
  <2>2. x = [j \in Inos |-> IF j = n THEN f ELSE s.ent[j]]
    BY <2>1 DEF Locks
  <2> HIDE DEF x
  <2>. QED BY <1>2, <1>3, <2>1, <2>2 DEF Locks
<1>6. Still(t, v)
  BY <1>4, RestStill
<1> HIDE DEF v
<1>7. Still(t, Sync(v, InodeBlk(n)))
  BY <1>6, SyncStillAfter
<1>8. Holds(Sync(v, InodeBlk(n)), a, b, d)
  BY <1>5, <1>7, StillHolds
<1>9. Holds(Fail(s, "no_inode"), a, b, d)
  BY <1>0, FailHolds
<1>. QED BY <1>1, <1>8, <1>9 DEF u

\* inode_map, when a block is missing.
LEMMA MapHolds ==
  ASSUME NEW s, NEW a, NEW b, NEW d, Holds(s, a, b, d), NEW i, NEW k
  PROVE  /\ Holds(MapDirect(s, i, k), a, b, d) /\ Holds(MapIndirect(s, i), a, b, d)
         /\ Holds(MapAddr(s, i, k), a, b, d)
<1> DEFINE t == CacheAlloc(s)
           p == [t.ic[i].entry.addrs EXCEPT ![k] = t.ret]
           x == [t.ic[i].entry EXCEPT !.addrs = p]
           y == [t.ic[i].entry EXCEPT !.indirect = t.ret]
           z == [t.data EXCEPT ![i][k - NumDirect] = [n |-> t.ret, t |-> "none"]]
           u == [t EXCEPT !.data = z]
           v == InodeSync([t EXCEPT !.ic[i].entry = x], i)
           w == InodeSync([t EXCEPT !.ic[i].entry = y], i)
<1>1. /\ MapDirect(s, i, k) = IF t.bad = "ok" THEN v ELSE t
      /\ MapIndirect(s, i) = IF t.bad = "ok" THEN w ELSE t
      /\ MapAddr(s, i, k) = IF t.bad = "ok" THEN Sync(u, DataBlk(i)) ELSE t
  BY DEF MapDirect, MapIndirect, MapAddr, Then
<1>2. Holds(t, a, b, d)
  BY CacheAllocStill, StillHolds DEF Holds, HoldsBut
<1> HIDE DEF t, p, z
<1>3. i \in Inos /\ t.bad = "ok" => /\ IsEntry(x) /\ x.type = t.ic[i].entry.type
                                    /\ IsEntry(y) /\ y.type = t.ic[i].entry.type
  BY <1>2, HoldsCell, EntryFields, TypeKept
<1> HIDE DEF x, y
<1>4. Holds(v, a, b, d) /\ Holds(w, a, b, d)
  BY <1>2, <1>3, EntryHolds
<1>5. Still(t, u)
  BY <1>2, RestStill DEF Holds, HoldsBut
<1> HIDE DEF u, v, w
<1>6. Holds(Sync(u, DataBlk(i)), a, b, d)
  BY <1>2, <1>5, SyncStillAfter, StillHolds
<1>. QED BY <1>1, <1>2, <1>4, <1>6

\* A result is returned.
LEMMA ReturnHolds ==
  ASSUME NEW s, NEW a, NEW b, NEW d, Holds(s, a, b, d), NEW v
  PROVE  Holds(Return(s, v), a, b, d) /\ Holds(Stop(s, v), a, b, d)
BY ReturnStill, StillHolds DEF Holds, HoldsBut

\* inode_map.
LEMMA InodeMapHolds ==
  ASSUME NEW s, NEW a, NEW b, NEW d, Holds(s, a, b, d), NEW i, NEW k
  PROVE  Holds(InodeMap(s, i, k), a, b, d)
<1> DEFINE t == IF k >= NumDirect /\ s.ic[i].entry.indirect = 0 THEN MapIndirect(s, i) ELSE s
           v == BlockOf(t.data, t.ic[i].entry, k)
           ind == t.ic[i].entry.indirect
<1>1. \/ InodeMap(s, i, k) = t
      \/ InodeMap(s, i, k) = Return(t, v)
      \/ InodeMap(s, i, k) = MapDirect(t, i, k)
      \/ InodeMap(s, i, k) = MapAddr(t, ind, k)
  BY DEF InodeMap, Then
<1>2. Holds(t, a, b, d)
  BY MapHolds
<1> HIDE DEF t, v, ind
<1>3. Holds(MapDirect(t, i, k), a, b, d) /\ Holds(MapAddr(t, ind, k), a, b, d)
  BY <1>2, MapHolds
<1>4. Holds(Return(t, v), a, b, d)
  BY <1>2, ReturnHolds
<1>. QED BY <1>1, <1>2, <1>3, <1>4

\* One turn of an inode_write.
LEMMA WriteStepHolds ==
  ASSUME NEW s, NEW a, NEW b, NEW d, Holds(s, a, b, d), NEW i, NEW off, NEW src, NEW k
  PROVE  Holds(WriteStep(s, i, off, src, k), a, b, d)
<1> DEFINE t == InodeMap(s, i, k)
           z == [t.data EXCEPT ![t.ret] = Overlay(t.data[t.ret], off, src, k)]
           u == [t EXCEPT !.data = z]
           r == WriteStep(s, i, off, src, k)
<1>1. r = s \/ r = t \/ r = Sync(u, DataBlk(t.ret))
  BY DEF WriteStep, WriteBlock, Then
<1>2. Holds(t, a, b, d)
  BY InodeMapHolds
<1> HIDE DEF t, z, r
<1>3. Still(t, u)
  BY <1>2, RestStill DEF Holds, HoldsBut
<1> HIDE DEF u
<1>4. Holds(Sync(u, DataBlk(t.ret)), a, b, d)
  BY <1>2, <1>3, SyncStillAfter, StillHolds
<1>. QED BY <1>1, <1>2, <1>4 DEF r

\* inode_write.
LEMMA InodeWriteHolds ==
  ASSUME NEW s, NEW a, NEW b, NEW d, Holds(s, a, b, d), NEW i, NEW off, NEW src
  PROVE  Holds(InodeWrite(s, i, off, src), a, b, d)
<1> DEFINE N == NumDirect + NumIndirect
           w == WriteLoop(s, i, off, src)
           x == [s.ic[i].entry EXCEPT !.bytes = off + Len(src)]
<1>1. \/ InodeWrite(s, i, off, src) \in {Fail(s, "past_end"), Fail(s, "too_big")}
      \/ InodeWrite(s, i, off, src) = w[N]
  BY DEF InodeWrite
<1>2. w[0] = Sized(s, i, off + Len(src)) /\ \A k \in 1..N : w[k] = WriteStep(w[k - 1], i, off, src, k - 1)
  BY WriteLoopIs
<1>3. N \in Nat
  BY InodeAssumption DEF NumIndirect
<1> HIDE DEF N, w
<1>4. w[0] = s \/ w[0] = InodeSync([s EXCEPT !.ic[i].entry = x], i)
  BY <1>2 DEF Sized
<1>5. i \in Inos /\ s.bad = "ok" => IsEntry(x) /\ x.type = s.ic[i].entry.type
  BY HoldsCell, EntryFields, TypeKept
<1> HIDE DEF x
<1>a. Holds(InodeSync([s EXCEPT !.ic[i].entry = x], i), a, b, d)
  BY <1>5, EntryHolds
<1>6. Holds(w[0], a, b, d)
  BY <1>4, <1>a
<1> DEFINE T == {k \in 0..N : ~Holds(w[k], a, b, d)}
<1>7. ASSUME T # {} PROVE FALSE
  <2>1. PICK k \in T : \A y \in T : k <= y
    <3>1. T \in SUBSET Nat
      OBVIOUS
    <3>. QED BY <3>1, <1>7, NatMin
  <2>2. k # 0
    BY <1>6
  <2>3. k \in 1..N /\ k - 1 \in 0..N /\ k - 1 \notin T
    BY <2>1, <2>2, <1>3
  <2>4. Holds(w[k - 1], a, b, d)
    BY <2>3
  <2>5. Holds(w[k], a, b, d)
    BY <2>3, <2>4, <1>2, WriteStepHolds
  <2>. QED BY <2>1, <2>5
<1>8. Holds(w[N], a, b, d)
  BY <1>3, <1>7
<1>9. Holds(Fail(s, "past_end"), a, b, d) /\ Holds(Fail(s, "too_big"), a, b, d)
  BY FailHolds DEF Holds, HoldsBut
<1>. QED BY <1>1, <1>8, <1>9

\* inode_insert.
LEMMA InsertHolds ==
  ASSUME NEW s, NEW a, NEW b, NEW d, Holds(s, a, b, d), NEW i, NEW name, NEW no
  PROVE  Holds(Insert(s, i, name, no), a, b, d)
<1> DEFINE x == <<[n |-> no, t |-> name]>>
<1>1. Insert(s, i, name, no) = s \/ Insert(s, i, name, no) = InodeWrite(s, i, s.ic[i].entry.bytes, x)
  BY DEF Insert
<1> HIDE DEF x
<1>. QED BY <1>1, InodeWriteHolds

\* The links change.
LEMMA LinksHolds ==
  ASSUME NEW s, NEW a, NEW b, NEW d, Holds(s, a, b, d), NEW i, NEW n,
         NEW r, r = InodeSync([s EXCEPT !.ic[i].entry.links = n], i)
  PROVE  Holds(r, a, b, d)
<1> DEFINE x == [s.ic[i].entry EXCEPT !.links = n]
<1>1. r = InodeSync([s EXCEPT !.ic[i].entry = x], i)
  OBVIOUS
<1>2. i \in Inos /\ s.bad = "ok" => IsEntry(x) /\ x.type = s.ic[i].entry.type
  BY HoldsCell, EntryFields, TypeKept
<1> HIDE DEF x
<1>. QED BY <1>1, <1>2, EntryHolds

-----------------------------------------------------------------------------
(* The locks in the calls. *)

\* No lock is held.
Idle(s) == Holds(s, 0, 0, 0)

\* The shape of such states.
LEMMA HoldsShape ==
  ASSUME NEW s, NEW a, NEW b, NEW d, Holds(s, a, b, d)
  PROVE  Shape(s) /\ (s.bad # "ok" => \A e, f, g : Holds(s, e, f, g))
BY FailedHolds DEF Holds, HoldsBut

\* An inode is found to be a directory.
LEMMA HoldsDir ==
  ASSUME NEW s, NEW a, NEW b, NEW d, Holds(s, a, b, d), NEW i,
         s.bad = "ok" => s.ic[i].cached /\ s.ic[i].entry.type = "dir"
  PROVE  Holds(s, a, b, i)
BY DEF Holds, HoldsBut, Locks

\* namex, one element of the path: after the last one of a parent the walk is at a
\* directory.
LEMMA NamexStepHolds ==
  ASSUME NEW s, Idle(s), NEW c, NEW name, NEW last, NEW r, r = NamexStep(s, c, name, last)
  PROVE  Holds(r, 0, 0, IF r.ret.done THEN r.ret.cur ELSE 0)
<1> DEFINE t == Lock(s, c)
           n == Lookup(t, c, name)
           g == InodeGet(t, n)
           v == [cur |-> n, done |-> FALSE]
           x == UnlockPut(t, c)
           y == Unlock(t, c)
           z == UnlockPut(g, c)
           k == 0
<1>1. \/ r = t /\ t.bad # "ok"
      \/ r = Stop(x, k)
      \/ r = Stop(y, c) /\ t.bad = "ok" /\ t.ic[c].entry.type = "dir"
      \/ r = Return(z, v) /\ t.bad = "ok"
  BY DEF NamexStep, NamexNext, Then
<1>k. k = 0 /\ v.cur = n /\ v.done = FALSE
  OBVIOUS
<1>2. /\ Holds(t, 0, c, 0)
      /\ t.bad = "ok" => t.ic[c].cached = s.ic[c].cached /\ s.ic[c].cached
  BY LockHolds DEF Idle
<1> HIDE DEF t, n, v, k
<1>3. Holds(x, 0, 0, 0)
  BY <1>2, UnlockPutHolds
<1> HIDE DEF x
<1>4. t.bad = "ok" /\ t.ic[c].entry.type = "dir" => Holds(y, 0, 0, c)
  <2> SUFFICES ASSUME t.bad = "ok", t.ic[c].entry.type = "dir" PROVE Holds(y, 0, 0, c)
    OBVIOUS
  <2>1. Holds(t, 0, c, c)
    BY <1>2, HoldsDir
  <2>. QED BY <2>1, UnlockHolds
<1> HIDE DEF y
<1>5. t.bad = "ok" => Holds(z, 0, 0, 0)
  <2> SUFFICES ASSUME t.bad = "ok" PROVE Holds(z, 0, 0, 0)
    OBVIOUS
  <2>1. n \in Inos \cap {0, c} /\ t.bad = "ok" => t.ic[n].cached
    BY <1>2, ZeroNoInode
  <2>2. Holds(g, 0, c, 0)
    BY <1>2, <2>1, GetHolds
  <2> HIDE DEF g
  <2>. QED BY <2>2, UnlockPutHolds
<1> HIDE DEF z
<1>6. CASE r = t /\ t.bad # "ok"
  BY <1>2, <1>6, HoldsShape
<1>7. CASE r = Stop(x, k)
  <2>1. Holds(r, 0, 0, 0)
    BY <1>3, <1>7, ReturnHolds
  <2>2. r.ret.cur = k
    BY <1>3, <1>7, HoldsShape, StopKeeps
  <2>. QED BY <2>1, <2>2, <1>k
<1>8. CASE r = Stop(y, c) /\ t.bad = "ok" /\ t.ic[c].entry.type = "dir"
  <2>1. Holds(y, 0, 0, c)
    BY <1>4, <1>8
  <2>2. Holds(r, 0, 0, c) /\ Holds(r, 0, 0, 0)
    BY <2>1, <1>8, ReturnHolds, HoldsSwap
  <2>3. r.ret.cur = c
    BY <2>1, <1>8, HoldsShape, StopKeeps
  <2>. QED BY <2>2, <2>3
<1>9. CASE r = Return(z, v) /\ t.bad = "ok"
  <2>1. Holds(r, 0, 0, 0)
    BY <1>5, <1>9, ReturnHolds
  <2>2. r.ret = v
    BY <1>5, <1>9, HoldsShape, ReturnKeeps
  <2>. QED BY <2>1, <2>2, <1>k
<1>. QED BY <1>1, <1>6, <1>7, <1>8, <1>9

\* namex: no lock is held after it, and a parent is a directory.
LEMMA NamexHolds ==
  ASSUME NEW s, Idle(s), NEW c, NEW path, Len(path.elems) \in Nat, NEW parent,
         NEW r, r = Namex(s, c, path, parent)
  PROVE  Idle(r) /\ (parent = TRUE => Holds(r, 0, 0, r.ret))
<1> DEFINE N == Len(path.elems)
           w == NamexLoop(s, c, path, parent)
           At(u) == Holds(u, 0, 0, IF u.ret.done THEN u.ret.cur ELSE 0)
           t == w[N]
<1>1. w[0] = NamexStart(s, c, path) /\ \A k \in 1..N : w[k] = NamexWalk(w[k - 1], path.elems[k], parent /\ k = N)
  BY NamexLoopIs
<1>2. N \in Nat
  OBVIOUS
<1>3. r = IF t.bad = "ok" THEN NamexEnd(t, parent) ELSE t
  BY DEF Namex, Then
<1> HIDE DEF N, w
<1>4. At(NamexStart(s, c, path))
  <2> DEFINE u == IF path.abs THEN InodeGet(s, RootNo) ELSE InodeShare(s, c)
             v == [cur |-> IF path.abs THEN RootNo ELSE c, done |-> FALSE]
             q == NamexStart(s, c, path)
  <2>1. q = Return(u, v) /\ v.done = FALSE
    BY DEF NamexStart
  <2>2. Holds(u, 0, 0, 0)
    BY GetHolds, ZeroNoInode DEF Idle
  <2> HIDE DEF u, v, q
  <2>3. Holds(q, 0, 0, 0)
    BY <2>1, <2>2, ReturnHolds
  <2>4. q.ret = v
    BY <2>1, <2>2, HoldsShape, ReturnKeeps
  <2>. QED BY <2>1, <2>3, <2>4 DEF q
<1>5. ASSUME NEW u, At(u), NEW name, NEW last PROVE At(NamexWalk(u, name, last))
  <2>1. NamexWalk(u, name, last) = u \/ NamexWalk(u, name, last) = NamexStep(u, u.ret.cur, name, last)
    BY DEF NamexWalk, Then
  <2>2. Idle(u)
    BY <1>5, HoldsSwap DEF Idle
  <2>. QED BY <2>1, <2>2, <1>5, NamexStepHolds
<1> HIDE DEF At
<1> DEFINE T == {k \in 0..N : ~At(w[k])}
<1>6. ASSUME T # {} PROVE FALSE
  <2>1. PICK k \in T : \A y \in T : k <= y
    <3>1. T \in SUBSET Nat
      OBVIOUS
    <3>. QED BY <3>1, <1>6, NatMin
  <2>2. k # 0
    BY <1>1, <1>4
  <2>3. k \in 1..N /\ k - 1 \in 0..N /\ k - 1 \notin T
    BY <2>1, <2>2, <1>2
  <2>4. At(w[k - 1])
    BY <2>3
  <2>5. At(w[k])
    BY <2>3, <2>4, <1>1, <1>5
  <2>. QED BY <2>1, <2>5
<1>7. At(t)
  BY <1>2, <1>6
<1> HIDE DEF t
<1>8. Holds(t, 0, 0, 0) /\ Shape(t) /\ (t.ret.done => Holds(t, 0, 0, t.ret.cur))
  BY <1>7, HoldsSwap, HoldsShape DEF At
<1> DEFINE i == t.ret.cur
           p == InodePut(t, i)
           k == 0
<1>9. CASE t.bad = "ok" /\ parent /\ ~t.ret.done
  <2>1. r = Return(p, k) /\ k = 0
    BY <1>3, <1>9 DEF NamexEnd
  <2>2. Holds(p, 0, 0, 0)
    BY <1>8, PutHolds
  <2> HIDE DEF p, k
  <2>3. Holds(r, 0, 0, 0)
    BY <2>1, <2>2, ReturnHolds
  <2>4. r.ret = k
    BY <2>1, <2>2, HoldsShape, ReturnKeeps
  <2>. QED BY <2>1, <2>3, <2>4 DEF Idle
<1>10. CASE t.bad = "ok" /\ ~(parent /\ ~t.ret.done)
  <2>1. r = Return(t, i)
    BY <1>3, <1>10 DEF NamexEnd
  <2>2. Holds(r, 0, 0, 0) /\ r.ret = i
    BY <2>1, <1>8, ReturnHolds, ReturnKeeps
  <2>3. parent = TRUE => Holds(r, 0, 0, i)
    <3> SUFFICES ASSUME parent = TRUE PROVE Holds(r, 0, 0, i)
      OBVIOUS
    <3>1. Holds(t, 0, 0, i)
      BY <1>8, <1>10
    <3> HIDE DEF i
    <3>. QED BY <3>1, <2>1, ReturnHolds
  <2>. QED BY <2>2, <2>3 DEF Idle
<1>11. CASE t.bad # "ok"
  BY <1>3, <1>8, <1>11, HoldsShape DEF Idle
<1>. QED BY <1>9, <1>10, <1>11

\* create on an existing inode: its lock is held if it is the result.
LEMMA CreateExistingHolds ==
  ASSUME NEW s, NEW dp, Holds(s, 0, 0, dp), NEW ip, NEW type, NEW r, r = CreateExisting(s, dp, ip, type)
  PROVE  Holds(r, 0, r.ret, 0)
<1> DEFINE g == InodeGet(s, ip)
           t == UnlockPut(g, dp)
           u == Lock(t, ip)
           v == UnlockPut(u, ip)
           k == 0
<1>1. \/ t.bad # "ok" /\ r = t
      \/ u.bad # "ok" /\ r = u
      \/ r = Return(u, ip) \/ r = Return(v, k)
  BY DEF CreateExisting, Then
<1>2. Holds(g, 0, 0, dp)
  BY GetHolds, ZeroNoInode
<1> HIDE DEF g
<1>3. Holds(t, 0, 0, 0)
  BY <1>2, UnlockPutHolds
<1> HIDE DEF t
<1>4. Holds(u, 0, ip, 0)
  BY <1>3, LockHolds
<1> HIDE DEF u
<1>5. Holds(v, 0, 0, 0)
  BY <1>4, UnlockPutHolds
<1>k. k = 0
  OBVIOUS
<1> HIDE DEF v, k
<1>6. CASE t.bad # "ok" /\ r = t
  BY <1>3, <1>6, HoldsShape
<1>7. CASE u.bad # "ok" /\ r = u
  BY <1>4, <1>7, HoldsShape
<1>8. CASE r = Return(u, ip)
  <2>1. Holds(r, 0, ip, 0) /\ r.ret = ip
    BY <1>4, <1>8, ReturnHolds, HoldsShape, ReturnKeeps
  <2>. QED BY <2>1
<1>9. CASE r = Return(v, k)
  <2>1. Holds(r, 0, 0, 0) /\ r.ret = k
    BY <1>5, <1>9, ReturnHolds, HoldsShape, ReturnKeeps
  <2>. QED BY <2>1, <1>k
<1>. QED BY <1>1, <1>6, <1>7, <1>8, <1>9

\* create of a new inode: it is the result, and its lock is held.
LEMMA CreateNewHolds ==
  ASSUME NEW s, NEW dp, Holds(s, 0, 0, dp), NEW name, NEW ip, NEW type,
         NEW r, r = CreateNew(s, dp, name, ip, type)
  PROVE  Holds(r, 0, r.ret, 0)
<1> DEFINE g == InodeGet(s, ip)
           t == Lock(g, ip)
           u == InodeSync([t EXCEPT !.ic[ip].entry.links = 1], ip)
           n == u.ic[dp].entry.links + 1
           l == InodeSync([u EXCEPT !.ic[dp].entry.links = n], dp)
           m == Insert(l, ip, ".", ip)
           o == Insert(m, ip, "..", dp)
           v == IF type = "dir" THEN MakeDots(u, dp, ip) ELSE u
           w == Insert(v, dp, name, ip)
           x == UnlockPut(w, dp)
<1>1. \/ t.bad # "ok" /\ r = t
      \/ u.bad # "ok" /\ r = u
      \/ v.bad # "ok" /\ r = v
      \/ w.bad # "ok" /\ r = w
      \/ r = Return(x, ip)
  BY DEF CreateNew, Then
<1>a. v = u \/ v = l \/ v = m \/ v = o
  BY DEF MakeDots, Then
<1>2. Holds(g, 0, 0, dp)
  BY GetHolds, ZeroNoInode
<1> HIDE DEF g
<1>3. Holds(t, 0, ip, dp)
  BY <1>2, LockHolds
<1> HIDE DEF t
<1>4. Holds(u, 0, ip, dp)
  BY <1>3, LinksHolds
<1> HIDE DEF u, n
<1>b. Holds(l, 0, ip, dp)
  BY <1>4, LinksHolds
<1> HIDE DEF l
<1>c. Holds(m, 0, ip, dp)
  BY <1>b, InsertHolds
<1> HIDE DEF m
<1>d. Holds(o, 0, ip, dp)
  BY <1>c, InsertHolds
<1> HIDE DEF o, v
<1>5. Holds(v, 0, ip, dp)
  BY <1>a, <1>4, <1>b, <1>c, <1>d
<1>6. Holds(w, 0, ip, dp)
  BY <1>5, InsertHolds
<1> HIDE DEF w
<1>7. Holds(x, 0, ip, 0)
  BY <1>6, UnlockPutHolds
<1> HIDE DEF x
<1>8. CASE r.bad # "ok"
  <2>1. r \in {t, u, v, w} \/ r = Return(x, ip)
    BY <1>1
  <2>2. Shape(r)
    BY <2>1, <1>3, <1>4, <1>5, <1>6, <1>7, ReturnHolds, HoldsShape
  <2>. QED BY <2>2, <1>8, FailedHolds
<1>9. CASE r = Return(x, ip)
  <2>1. Holds(r, 0, ip, 0) /\ r.ret = ip
    BY <1>7, <1>9, ReturnHolds, HoldsShape, ReturnKeeps
  <2>. QED BY <2>1
<1>. QED BY <1>1, <1>8, <1>9

\* create.
LEMMA CreateHolds ==
  ASSUME NEW s, Idle(s), NEW p, NEW path, Len(path.elems) \in Nat, NEW type,
         NEW r, r = Create(s, p, path, type)
  PROVE  Holds(r, 0, r.ret, 0)
<1> DEFINE t == Namex(s, cwd[p], path, TRUE)
           last == Last(path.elems)
           ip == Lookup(t, t.ret, last)
           u == InodeAlloc(t, type)
<1>1. \/ (t.bad # "ok" \/ t.ret = 0) /\ r = t
      \/ r = CreateExisting(t, t.ret, ip, type)
      \/ u.bad # "ok" /\ r = u
      \/ r = CreateNew(u, t.ret, last, u.ret, type)
  BY DEF Create, Then
<1>2. Holds(t, 0, 0, 0) /\ Holds(t, 0, 0, t.ret)
  BY NamexHolds DEF Idle
<1> HIDE DEF t, last, ip
<1>3. Holds(u, 0, 0, t.ret)
  BY <1>2, AllocHolds
<1> HIDE DEF u
<1>4. CASE (t.bad # "ok" \/ t.ret = 0) /\ r = t
  BY <1>2, <1>4, HoldsShape
<1>5. CASE r = CreateExisting(t, t.ret, ip, type)
  BY <1>2, <1>5, CreateExistingHolds
<1>6. CASE u.bad # "ok" /\ r = u
  BY <1>3, <1>6, HoldsShape
<1>7. CASE r = CreateNew(u, t.ret, last, u.ret, type)
  BY <1>3, <1>7, CreateNewHolds
<1>. QED BY <1>1, <1>4, <1>5, <1>6, <1>7

\* openat, up to the inode.
LEMMA OpenInodeHolds ==
  ASSUME NEW s, Idle(s), NEW p, NEW path, Len(path.elems) \in Nat, NEW create,
         NEW r, r = OpenInode(s, p, path, create)
  PROVE  Holds(r, 0, r.ret, 0)
<1> DEFINE t == Namex(s, cwd[p], path, FALSE)
<1>1. \/ r = Create(s, p, path, "file")
      \/ (t.bad # "ok" \/ t.ret = 0) /\ r = t
      \/ r = Lock(t, t.ret)
  BY DEF OpenInode, Then
<1>2. Holds(t, 0, 0, 0)
  BY NamexHolds DEF Idle
<1> HIDE DEF t
<1>3. CASE r = Create(s, p, path, "file")
  BY <1>3, CreateHolds
<1>4. CASE (t.bad # "ok" \/ t.ret = 0) /\ r = t
  BY <1>2, <1>4, HoldsShape
<1>5. CASE r = Lock(t, t.ret)
  <2>1. Holds(r, 0, t.ret, 0)
    BY <1>2, <1>5, LockHolds
  <2>2. r.ret = t.ret
    BY <1>2, <1>5, HoldsShape, LockKeeps DEF KeepsRet
  <2>. QED BY <2>1, <2>2
<1>. QED BY <1>1, <1>3, <1>4, <1>5

\* unlinkat of an entry, with the locks of the parent and of the inode.
LEMMA UnlinkEntryHolds ==
  ASSUME NEW s, NEW dp, NEW ip, Holds(s, ip, dp, 0), NEW o, NEW r, r = UnlinkEntry(s, dp, ip, o)
  PROVE  Idle(r)
<1> DEFINE z == <<Zero>>
           t == InodeWrite(s, dp, o, z)
           n == t.ic[dp].entry.links - 1
           a == InodeSync([t EXCEPT !.ic[dp].entry.links = n], dp)
           u == IF t.ic[ip].entry.type = "dir" THEN a ELSE t
           v == UnlockPut(u, dp)
           m == v.ic[ip].entry.links - 1
           w == InodeSync([v EXCEPT !.ic[ip].entry.links = m], ip)
           x == UnlockPut(w, ip)
<1>1. (r.bad # "ok" /\ r \in {t, u, v, w}) \/ r = x
  BY DEF UnlinkEntry, Then
<1> HIDE DEF z
<1>2. Holds(t, ip, dp, 0)
  BY InodeWriteHolds
<1> HIDE DEF t, n
<1>3. Holds(a, ip, dp, 0)
  BY <1>2, LinksHolds
<1> HIDE DEF a
<1>4. Holds(u, ip, dp, 0)
  BY <1>2, <1>3
<1> HIDE DEF u
<1>5. Holds(v, ip, 0, 0)
  BY <1>4, UnlockPutHolds
<1> HIDE DEF v, m
<1>6. Holds(w, ip, 0, 0)
  BY <1>5, LinksHolds
<1>7. Holds(w, 0, ip, 0)
  BY <1>6, HoldsSwap
<1> HIDE DEF w
<1>8. Holds(x, 0, 0, 0)
  BY <1>7, UnlockPutHolds
<1> HIDE DEF x
<1>9. CASE r.bad # "ok" /\ r \in {t, u, v, w}
  <2>1. Shape(r)
    BY <1>2, <1>4, <1>5, <1>6, <1>9, HoldsShape
  <2>. QED BY <2>1, <1>9, FailedHolds DEF Idle
<1>. QED BY <1>1, <1>8, <1>9 DEF Idle

\* unlinkat of an inode that was found, with the lock of the parent.
LEMMA UnlinkFoundHolds ==
  ASSUME NEW s, NEW dp, Holds(s, 0, dp, 0), s.bad = "ok" => s.ic[dp].cached,
         NEW ip, NEW o, NEW r, r = UnlinkFound(s, dp, ip, o)
  PROVE  Idle(r)
<1> DEFINE g == InodeGet(s, ip)
           t == Lock(g, ip)
           u == UnlockPut(t, ip)
           v == UnlockPut(u, dp)
<1>1. \/ t.bad # "ok" /\ r = t
      \/ r = Fail(t, "links")
      \/ u.bad # "ok" /\ r = u
      \/ r = v
      \/ r = UnlinkEntry(t, dp, ip, o)
  BY DEF UnlinkFound, Then
<1>2. Holds(g, dp, 0, 0)
  <2>1. Holds(s, dp, 0, 0)
    BY HoldsSwap
  <2>. QED BY <2>1, GetHolds, ZeroNoInode
<1> HIDE DEF g
<1>3. Holds(t, dp, ip, 0) /\ Holds(t, ip, dp, 0)
  <2>1. Holds(t, dp, ip, 0)
    BY <1>2, LockHolds
  <2>. QED BY <2>1, HoldsSwap
<1> HIDE DEF t
<1>4. Holds(u, 0, dp, 0)
  <2>1. Holds(u, dp, 0, 0)
    BY <1>3, UnlockPutHolds
  <2>. QED BY <2>1, HoldsSwap
<1> HIDE DEF u
<1>5. Idle(v)
  BY <1>4, UnlockPutHolds DEF Idle
<1> HIDE DEF v
<1>6. CASE t.bad # "ok" /\ r = t
  BY <1>3, <1>6, HoldsShape DEF Idle
<1>7. CASE r = Fail(t, "links")
  BY <1>3, <1>7, HoldsShape, FailHolds DEF Idle
<1>8. CASE u.bad # "ok" /\ r = u
  BY <1>4, <1>8, HoldsShape DEF Idle
<1>9. CASE r = UnlinkEntry(t, dp, ip, o)
  BY <1>3, <1>9, UnlinkEntryHolds
<1>. QED BY <1>1, <1>5, <1>6, <1>7, <1>8, <1>9

\* unlinkat, in the parent.
LEMMA UnlinkHolds ==
  ASSUME NEW s, Idle(s), NEW dp, NEW name, NEW r, r = Unlink(s, dp, name)
  PROVE  Idle(r)
<1> DEFINE t == Lock(s, dp)
           ip == Lookup(t, dp, name)
           o == Min(Matches(t, dp, name))
<1>1. (t.bad # "ok" /\ r = t) \/ r = UnlockPut(t, dp) \/ r = UnlinkFound(t, dp, ip, o)
  BY DEF Unlink, Then
<1>2. Holds(t, 0, dp, 0) /\ (t.bad = "ok" => t.ic[dp].cached)
  BY LockHolds DEF Idle
<1> HIDE DEF t, ip, o
<1>3. CASE t.bad # "ok" /\ r = t
  BY <1>2, <1>3, HoldsShape DEF Idle
<1>4. CASE r = UnlockPut(t, dp)
  BY <1>2, <1>4, UnlockPutHolds DEF Idle
<1>5. CASE r = UnlinkFound(t, dp, ip, o)
  BY <1>2, <1>5, UnlinkFoundHolds
<1>. QED BY <1>1, <1>3, <1>4, <1>5

\* file_read.
LEMMA FileReadHolds ==
  ASSUME NEW s, Idle(s), NEW f, NEW n
  PROVE  Idle(FileRead(s, f, n))
<1> DEFINE r == FileRead(s, f, n)
           t == Lock(s, f.ip)
           u == InodeRead(t, f.ip, f.off, n)
           a == Min({n, MaxBytes - f.off})
           b == Len(u.ret)
           c == Return(t, a)
           d == Return(u, b)
<1>1. (r.bad # "ok" /\ r \in {t, u, c, d}) \/ r \in {Unlock(c, f.ip), Unlock(d, f.ip)}
  BY DEF FileRead, Then
<1>2. Holds(t, 0, f.ip, 0)
  BY LockHolds DEF Idle
<1> HIDE DEF t, a
<1>3. Holds(u, 0, f.ip, 0)
  BY <1>2, HoldsShape, InodeReadStill, StillHolds
<1> HIDE DEF u, b
<1>4. Holds(c, 0, f.ip, 0) /\ Holds(d, 0, f.ip, 0)
  BY <1>2, <1>3, ReturnHolds
<1> HIDE DEF c, d
<1>5. Holds(Unlock(c, f.ip), 0, 0, 0) /\ Holds(Unlock(d, f.ip), 0, 0, 0)
  BY <1>4, UnlockHolds
<1> HIDE DEF r
<1>6. CASE r.bad # "ok" /\ r \in {t, u, c, d}
  <2>1. Shape(r)
    BY <1>2, <1>3, <1>4, <1>6, HoldsShape
  <2>2. Idle(r)
    BY <2>1, <1>6, FailedHolds DEF Idle
  <2>. QED BY <2>2 DEF r
<1>7. Idle(r)
  BY <1>1, <1>5, <1>6 DEF Idle, r
<1>. QED BY <1>7 DEF r

\* file_stat.
LEMMA FileStatHolds ==
  ASSUME NEW s, Idle(s), NEW i
  PROVE  Idle(FileStat(s, i))
<1> DEFINE r == FileStat(s, i)
           t == Lock(s, i)
           f == Fail(t, "stat")
<1>1. (t.bad # "ok" /\ r = t) \/ r = f \/ r \in {Unlock(t, i), Unlock(f, i)}
  BY DEF FileStat, Stati, Then
<1>2. Holds(t, 0, i, 0)
  BY LockHolds DEF Idle
<1> HIDE DEF t
<1>3. Holds(f, 0, i, 0) /\ Idle(f)
  BY <1>2, HoldsShape, FailHolds DEF Idle
<1> HIDE DEF f
<1>4. Idle(Unlock(t, i)) /\ Idle(Unlock(f, i))
  BY <1>2, <1>3, UnlockHolds DEF Idle
<1> HIDE DEF r
<1>5. CASE t.bad # "ok" /\ r = t
  BY <1>2, <1>5, HoldsShape DEF Idle, r
<1>6. Idle(r)
  BY <1>1, <1>3, <1>4, <1>5 DEF r
<1>. QED BY <1>6 DEF r

-----------------------------------------------------------------------------
(* The inode locks between calls. *)

\* cache_begin_op.
LEMMA BeginHolds ==
  ASSUME NEW s, Idle(s)
  PROVE  Idle(BeginOp(s))
<1> DEFINE a == [s EXCEPT !.ctx = TRUE]
           b == [a EXCEPT !.log = {}]
<1>1. BeginOp(s) = b
  BY DEF BeginOp
<1>2. Idle(s) /\ Shape(s)
  BY HoldsShape DEF Idle
<1>3. Idle(a) /\ Shape(a)
  BY <1>2, RestStill, StillHolds, HoldsShape DEF Idle
<1> HIDE DEF a
<1>4. Idle(b)
  BY <1>3, RestStill, StillHolds DEF Idle
<1>. QED BY <1>1, <1>4

\* An atomic operation.
LEMMA OpHolds ==
  ASSUME NEW s, Idle(s), NEW t, Idle(t)
  PROVE  Idle(Op(s, t))
<1>0. Shape(s) /\ Shape(t)
  BY HoldsShape DEF Idle
<1>1. CASE t.bad = "ok"
  <2> DEFINE a == [t EXCEPT !.ctx = FALSE]
             b == [a EXCEPT !.log = {}]
             c == [b EXCEPT !.ret = 0]
  <2>1. Op(s, t) = c
    BY <1>1 DEF Op, EndOp
  <2>2. Idle(a) /\ Shape(a)
    BY <1>0, RestStill, StillHolds, HoldsShape DEF Idle
  <2> HIDE DEF a
  <2>3. Idle(b) /\ Shape(b)
    BY <2>2, RestStill, StillHolds, HoldsShape DEF Idle
  <2> HIDE DEF b
  <2>4. Idle(c)
    BY <2>3, RestStill, StillHolds DEF Idle
  <2>. QED BY <2>1, <2>4
<1>2. CASE t.bad # "ok"
  <2>1. Op(s, t) = Fail(s, t.bad)
    BY <1>2 DEF Op, Fail
  <2>. QED BY <1>0, <1>2, <2>1, FailHolds DEF Idle
<1>. QED BY <1>1, <1>2

\* One atomic operation of file_write.
LEMMA ChunkIdle ==
  ASSUME NEW acc, Idle(acc.s), NEW ip, NEW len
  PROVE  Idle(NextChunk(acc, ip, len).s)
<1> DEFINE s == acc.s
           z == BeginOp(s)
           t == Lock(z, ip)
           src == [k \in 1..len |-> Datum(ip, acc.off + k - 1)]
           w == InodeWrite(t, ip, acc.off, src)
           y == IF t.bad = "ok"
                THEN LET u == IF IsDev(t, ip) THEN t ELSE w
                     IN  IF u.bad = "ok" THEN Unlock(u, ip) ELSE u
                ELSE t
           r == NextChunk(acc, ip, len).s
<1>1. r = s \/ r = Op(s, y)
  BY DEF NextChunk, WriteChunk, Then
<1>2. Idle(z) /\ Idle(s)
  BY BeginHolds
<1> HIDE DEF s, z, src, r
<1>3. Holds(t, 0, ip, 0)
  BY <1>2, LockHolds DEF Idle
<1> HIDE DEF t
<1>4. Holds(w, 0, ip, 0)
  BY <1>3, InodeWriteHolds
<1> HIDE DEF w
<1>5. Idle(Unlock(t, ip)) /\ Idle(Unlock(w, ip))
  BY <1>3, <1>4, UnlockHolds DEF Idle
<1>6. Idle(y)
  <2>1. (t.bad # "ok" => Idle(t)) /\ (w.bad # "ok" => Idle(w))
    BY <1>3, <1>4, HoldsShape DEF Idle
  <2>. QED BY <2>1, <1>5
<1> HIDE DEF y
<1>7. Idle(Op(s, y))
  BY <1>2, <1>6, OpHolds
<1>8. Idle(r)
  BY <1>1, <1>2, <1>7
<1>. QED BY <1>8 DEF r

\* file_write.
LEMMA FileWriteIdle ==
  ASSUME NEW acc, Idle(acc.s), NEW ip, NEW n \in Nat
  PROVE  Idle(FileWrite(acc, ip, n).s)
<1> DEFINE m == (n + MaxChunk - 1) \div MaxChunk
           w == FileWriteLoop(acc, ip, n, m)
<1>1. MaxChunk \in Nat /\ MaxChunk > 0
  BY MaxChunkIs
<1>2. m \in Nat
  BY <1>1
<1>3. FileWrite(acc, ip, n) = w[m]
  BY DEF FileWrite
<1> HIDE DEF m
<1>4. w[0] = acc /\ \A k \in 1..m : w[k] = NextChunk(w[k - 1], ip, Min({MaxChunk, n - (k - 1) * MaxChunk}))
  BY <1>2, FileWriteLoopIs
<1> HIDE DEF w
<1> DEFINE T == {k \in 0..m : ~Idle(w[k].s)}
<1>5. ASSUME T # {} PROVE FALSE
  <2>1. PICK k \in T : \A y \in T : k <= y
    <3>1. T \in SUBSET Nat
      OBVIOUS
    <3>. QED BY <3>1, <1>5, NatMin
  <2>2. k # 0
    BY <1>4
  <2>3. k \in 1..m /\ k - 1 \in 0..m /\ k - 1 \notin T
    BY <2>1, <2>2, <1>2
  <2>4. Idle(w[k - 1].s)
    BY <2>3
  <2>5. Idle(w[k].s)
    BY <2>3, <2>4, <1>4, ChunkIdle
  <2>. QED BY <2>1, <2>5
<1>6. Idle(w[m].s)
  BY <1>2, <1>5
<1>. QED BY <1>3, <1>6

\* writev over all the buffers.
LEMMA WriteBuffersIdle ==
  ASSUME NEW acc, Idle(acc.s), NEW ip, NEW ns \in Seq(Nat)
  PROVE  Idle(WriteBuffers(acc, ip, ns)[Len(ns)].s)
<1> DEFINE m == Len(ns)
           w == WriteBuffers(acc, ip, ns)
<1>1. m \in Nat /\ \A k \in 1..m : ns[k] \in Nat
  OBVIOUS
<1>2. w[0] = acc /\ \A k \in 1..m : w[k] = FileWrite(w[k - 1], ip, ns[k])
  BY <1>1, WriteBuffersIs
<1> HIDE DEF m, w
<1> DEFINE T == {k \in 0..m : ~Idle(w[k].s)}
<1>3. ASSUME T # {} PROVE FALSE
  <2>1. PICK k \in T : \A y \in T : k <= y
    <3>1. T \in SUBSET Nat
      OBVIOUS
    <3>. QED BY <3>1, <1>3, NatMin
  <2>2. k # 0
    BY <1>2
  <2>3. k \in 1..m /\ k - 1 \in 0..m /\ k - 1 \notin T
    BY <2>1, <2>2, <1>1
  <2>4. Idle(w[k - 1].s) /\ ns[k] \in Nat
    BY <2>3, <1>1
  <2>5. Idle(FileWrite(w[k - 1], ip, ns[k]).s)
    BY <2>4, FileWriteIdle
  <2>6. Idle(w[k].s)
    BY <2>3, <2>5, <1>2
  <2>. QED BY <2>1, <2>6
<1>4. Idle(w[m].s)
  BY <1>1, <1>3
<1>. QED BY <1>4 DEF w, m

\* file_close, which may put an inode.
LEMMA FileCloseIdle ==
  ASSUME NEW st, IsTables(st), Idle(st.s), NEW f, NEW c, c = FileClose(st, f)
  PROVE  IsTables(c) /\ Idle(c.s)
<1> DEFINE ip == st.ft[f].ip
           b == BeginOp(st.s)
           t == InodePut(b, ip)
           r == Op(st.s, t)
           old == st.ft[f]
           y == [old EXCEPT !.ref = old.ref - 1]
           p2 == [st.pp EXCEPT ![old.pipe] = @ \ {End(old)}]
<1>1. IsTables(c) /\ (c.s = r \/ c.s = st.s)
  <2>1. /\ IsTables(c)
        /\ c.ft = [st.ft EXCEPT ![f] = IF old.ref = 1 THEN NoFile ELSE y]
        /\ c.s = IF old.ref = 1 /\ old.type = "inode" THEN r ELSE st.s
        /\ c.pp = IF old.ref = 1 /\ old.type = "pipe" THEN p2 ELSE st.pp
    BY DEF FileClose, IsTables, End
  <2>. QED BY <2>1
<1>2. Idle(b)
  BY BeginHolds
<1> HIDE DEF b, ip
<1>3. Idle(t)
  BY <1>2, PutHolds DEF Idle
<1> HIDE DEF t
<1>4. Idle(r)
  BY <1>3, OpHolds
<1> HIDE DEF r
<1>. QED BY <1>1, <1>4

\* exit, which closes every file.
LEMMA CloseLoopIdle ==
  ASSUME NEW st, IsTables(st), Idle(st.s), NEW table
  PROVE  Idle(CloseLoop(st, table)[OpenFile].s)
<1> DEFINE w == CloseLoop(st, table)
           Good(k) == IsTables(w[k]) /\ Idle(w[k].s)
<1>1. w[0] = st /\ \A k \in 1..OpenFile : w[k] = CloseOpen(w[k - 1], table[k - 1])
  BY CloseLoopIs
<1>2. OpenFile \in Nat
  BY Sizes
<1> HIDE DEF w
<1>3. Good(0)
  BY <1>1
<1>4. ASSUME NEW k \in 1..OpenFile, Good(k - 1) PROVE Good(k)
  <2>1. w[k] = w[k - 1] \/ w[k] = FileClose(w[k - 1], table[k - 1])
    BY <1>1 DEF CloseOpen
  <2>2. IsTables(w[k - 1]) /\ Idle(w[k - 1].s)
    BY <1>4
  <2>3. IsTables(FileClose(w[k - 1], table[k - 1])) /\ Idle(FileClose(w[k - 1], table[k - 1]).s)
    BY <2>2, FileCloseIdle
  <2>. QED BY <2>1, <2>2, <2>3
<1> HIDE DEF Good
<1> DEFINE T == {k \in 0..OpenFile : ~Good(k)}
<1>5. ASSUME T # {} PROVE FALSE
  <2>1. PICK k \in T : \A y \in T : k <= y
    <3>1. T \in SUBSET Nat
      OBVIOUS
    <3>. QED BY <3>1, <1>5, NatMin
  <2>2. k # 0
    BY <1>3
  <2>3. k \in 1..OpenFile /\ k - 1 \in 0..OpenFile /\ k - 1 \notin T
    BY <2>1, <2>2, <1>2
  <2>4. Good(k - 1)
    BY <2>3
  <2>5. Good(k)
    BY <2>3, <2>4, <1>4
  <2>. QED BY <2>1, <2>5
<1>6. Good(OpenFile)
  BY <1>2, <1>5
<1>. QED BY <1>6 DEF Good, w

\* Every call that walks a path.
LEMMA PathIdle ==
  ASSUME Idle(fs), NEW p \in Procs, NEW path \in Paths,
         \/ \E create \in BOOLEAN, omode \in OModes : Openat(p, path, create, omode)
         \/ \E type \in NodeTypes : MakeNode(p, path, type)
         \/ Newfstatat(p, path) \/ Unlinkat(p, path) \/ Chdir(p, path)
  PROVE  Idle(fs')
<1> DEFINE b == BeginOp(fs)
<1>0. Idle(b) /\ Len(path.elems) \in Nat
  BY BeginHolds, FileSysAssumption
<1>1. ASSUME NEW t, Idle(t), fs' = Op(fs, t) PROVE Idle(fs')
  BY <1>1, OpHolds
<1>2. ASSUME NEW create \in BOOLEAN, NEW omode \in OModes, Openat(p, path, create, omode) PROVE Idle(fs')
  <2> DEFINE s == OpenInode(b, p, path, create)
  <2>1. \/ (s.bad # "ok" \/ s.ret = 0) /\ fs' = Op(fs, s)
        \/ fs' = Op(fs, UnlockPut(s, s.ret)) \/ fs' = Op(fs, Unlock(s, s.ret))
    BY <1>2 DEF Openat, Finish
  <2> HIDE DEF b
  <2>2. Holds(s, 0, s.ret, 0)
    BY <1>0, OpenInodeHolds
  <2> HIDE DEF s
  <2>3. Idle(UnlockPut(s, s.ret)) /\ Idle(Unlock(s, s.ret))
    BY <2>2, UnlockPutHolds, UnlockHolds DEF Idle
  <2>4. s.bad # "ok" \/ s.ret = 0 => Idle(s)
    BY <2>2, HoldsShape DEF Idle
  <2>. QED BY <2>1, <2>3, <2>4, <1>1
<1>3. ASSUME NEW type \in NodeTypes, MakeNode(p, path, type) PROVE Idle(fs')
  <2> DEFINE s == Create(b, p, path, type)
  <2>1. \/ (s.bad # "ok" \/ s.ret = 0) /\ fs' = Op(fs, s)
        \/ fs' = Op(fs, UnlockPut(s, s.ret))
    BY <1>3 DEF MakeNode, Finish, Then
  <2> HIDE DEF b
  <2>2. Holds(s, 0, s.ret, 0)
    BY <1>0, CreateHolds
  <2> HIDE DEF s
  <2>3. Idle(UnlockPut(s, s.ret))
    BY <2>2, UnlockPutHolds DEF Idle
  <2>4. s.bad # "ok" \/ s.ret = 0 => Idle(s)
    BY <2>2, HoldsShape DEF Idle
  <2>. QED BY <2>1, <2>3, <2>4, <1>1
<1>4. ASSUME Newfstatat(p, path) PROVE Idle(fs')
  <2> DEFINE t == Namex(b, cwd[p], path, FALSE)
             u == FileStat(t, t.ret)
             v == InodePut(u, u.ret)
  <2>1. fs' = Op(fs, t) \/ fs' = Op(fs, u) \/ fs' = Op(fs, v)
    BY <1>4 DEF Newfstatat, Finish, Then
  <2> HIDE DEF b
  <2>2. Idle(t)
    BY <1>0, NamexHolds
  <2> HIDE DEF t
  <2>3. Idle(u)
    BY <2>2, FileStatHolds
  <2> HIDE DEF u
  <2>4. Idle(v)
    BY <2>3, PutHolds DEF Idle
  <2> HIDE DEF v
  <2>. QED BY <2>1, <2>2, <2>3, <2>4, <1>1
<1>5. ASSUME Unlinkat(p, path) PROVE Idle(fs')
  <2> DEFINE t == Namex(b, cwd[p], path, TRUE)
             u == Unlink(t, t.ret, Last(path.elems))
  <2>1. fs' = Op(fs, t) \/ fs' = Op(fs, u)
    BY <1>5 DEF Unlinkat, Finish, Then
  <2> HIDE DEF b
  <2>2. Idle(t)
    BY <1>0, NamexHolds
  <2> HIDE DEF t
  <2>3. Idle(u)
    BY <2>2, UnlinkHolds
  <2> HIDE DEF u
  <2>. QED BY <2>1, <2>2, <2>3, <1>1
<1>6. ASSUME Chdir(p, path) PROVE Idle(fs')
  <2> DEFINE t == Namex(b, cwd[p], path, FALSE)
             u == Lock(t, t.ret)
             v == UnlockPut(u, u.ret)
  <2>1. \/ fs' = Op(fs, t)
        \/ u.bad # "ok" /\ fs' = Op(fs, u)
        \/ fs' = Op(fs, v)
    BY <1>6 DEF Chdir, Finish, Then
  <2> HIDE DEF b
  <2>2. Idle(t) /\ Shape(t)
    BY <1>0, NamexHolds, HoldsShape DEF Idle
  <2> HIDE DEF t
  <2>3. Holds(u, 0, t.ret, 0) /\ u.ret = t.ret
    BY <2>2, LockHolds, LockKeeps DEF Idle, KeepsRet
  <2> HIDE DEF u
  <2>4. Idle(v) /\ (u.bad # "ok" => Idle(u))
    BY <2>3, UnlockPutHolds, HoldsShape DEF Idle
  <2> HIDE DEF v
  <2>. QED BY <2>1, <2>2, <2>4, <1>1
<1>. QED BY <1>2, <1>3, <1>4, <1>5, <1>6

\* Every call on a descriptor.
LEMMA FdIdle ==
  ASSUME Idle(fs), NEW p \in Procs, NEW d \in Fds,
         \/ Close(p, d) \/ Dup(p, d) \/ Fstat(p, d)
         \/ \E n \in ReadSizes : Read(p, d, n)
         \/ \E ns \in Buffers : Write(p, d, ns)
  PROVE  Idle(fs')
<1> DEFINE f == ftable[ofiles[p][d]]
<1>0. Idle(fs)
  BY BeginHolds
<1>1. ASSUME Close(p, d) PROVE Idle(fs')
  <2> DEFINE st == [s |-> fs, ft |-> ftable, pp |-> pipes]
  <2>1. fs' = FileClose(st, ofiles[p][d]).s
    BY <1>1 DEF Close
  <2>2. IsTables(st) /\ st.s = fs
    BY DEF IsTables
  <2> HIDE DEF st
  <2>. QED BY <2>1, <2>2, FileCloseIdle
<1>2. ASSUME Dup(p, d) PROVE Idle(fs')
  BY <1>2 DEF Dup
<1>3. ASSUME Fstat(p, d) PROVE Idle(fs')
  <2>1. fs' = Op(fs, FileStat(fs, f.ip))
    BY <1>3 DEF Fstat, Finish
  <2>. QED BY <2>1, <1>0, FileStatHolds, OpHolds
<1>4. ASSUME NEW n \in ReadSizes, Read(p, d, n) PROVE Idle(fs')
  <2>1. fs' = Op(fs, FileRead(fs, f, n))
    BY <1>4 DEF Read, Finish
  <2>. QED BY <2>1, <1>0, FileReadHolds, OpHolds
<1>5. ASSUME NEW ns \in Buffers, Write(p, d, ns) PROVE Idle(fs')
  <2> DEFINE acc == [s |-> fs, off |-> f.off]
  <2>1. fs' = WriteBuffers(acc, f.ip, ns)[Len(ns)].s
    BY <1>5 DEF Write
  <2>2. acc.s = fs /\ ns \in Seq(Nat)
    BY FileSysAssumption
  <2> HIDE DEF acc
  <2>. QED BY <2>1, <2>2, WriteBuffersIdle
<1>. QED BY <1>1, <1>2, <1>3, <1>4, <1>5

\* fork, exit and pipe2.
LEMMA ProcIdle ==
  ASSUME Idle(fs), NEW p \in Procs, Pipe2(p) \/ Exit(p) \/ \E c \in Procs : Fork(p, c)
  PROVE  Idle(fs')
<1>0. Idle(fs)
  BY BeginHolds
<1>1. ASSUME Pipe2(p) PROVE Idle(fs')
  <2>1. UNCHANGED fs
    BY <1>1 DEF Pipe2
  <2>. QED BY <2>1
<1>2. ASSUME NEW c \in Procs, Fork(p, c) PROVE Idle(fs')
  <2>1. fs' = Op(fs, InodeShare(fs, cwd[p]))
    BY <1>2 DEF Fork, Finish
  <2>2. Idle(InodeShare(fs, cwd[p]))
    BY <1>0, GetHolds, ZeroNoInode DEF Idle
  <2>. QED BY <2>1, <2>2, OpHolds
<1>3. ASSUME Exit(p) PROVE Idle(fs')
  <2> DEFINE st == [s |-> fs, ft |-> ftable, pp |-> pipes]
             c == CloseLoop(st, ofiles[p])[OpenFile]
             s == c.s
             t == InodePut(s, cwd[p])
  <2>1. fs' = s \/ fs' = Op(s, t)
    BY <1>3 DEF Exit
  <2>2. IsTables(st) /\ st.s = fs
    BY DEF IsTables
  <2> HIDE DEF st
  <2>3. Idle(s)
    BY <2>2, CloseLoopIdle
  <2> HIDE DEF c, s
  <2>4. Idle(t)
    BY <2>3, BeginHolds, PutHolds DEF Idle
  <2> HIDE DEF t
  <2>. QED BY <2>1, <2>3, <2>4, OpHolds
<1>. QED BY <1>1, <1>2, <1>3

\* A boot takes no lock.
LEMMA BootIdle ==
  ASSUME NEW ent, ent = [j \in Inos |-> ent[j]], \A j \in Inos : IsEntry(ent[j]),
         NEW bm, NEW data, NEW s, s = Booted(ent, bm, data)
  PROVE  Idle(s)
<1>1. Shape(s) /\ s.ent = ent /\ \A j \in Inos : IsEntry(s.ent[j]) /\ IsEntry(s.ic[j].entry)
  <2>1. s.ent = ent
    BY DEF Booted
  <2>. QED BY <2>1, BootSound DEF Sound, Entries
<1>2. ASSUME NEW j \in Inos PROVE s.ic[j].cached => s.ic[j].lock = 1
  BY DEF Booted, NoInode
<1>3. \A j \in Inos : Taken(0, 0, j) = 0 /\ j # 0
  BY ZeroNoInode DEF Taken
<1>. QED BY <1>1, <1>2, <1>3 DEF Idle, Holds, HoldsBut, Locks, Fits

\* The next boot.
LEMMA RestartIdle ==
  ASSUME NEW s, Sound(s), Restart(s)
  PROVE  Idle(fs')
<1> DEFINE e == s.ent
<1>1. fs' = Booted(e, s.bm, s.data)
  BY DEF Restart
<1>2. e = [j \in Inos |-> e[j]] /\ \A j \in Inos : IsEntry(e[j])
  BY DEF Sound, Entries
<1> HIDE DEF e
<1>. QED BY <1>1, <1>2, BootIdle

\* Every step leaves the locks free.
LEMMA NextIdle == Sound(fs) /\ Idle(fs) /\ [Next]_vars => Idle(fs)'
<1> SUFFICES ASSUME Sound(fs), Idle(fs), [Next]_vars PROVE Idle(fs')
  BY DEF Idle, Holds, HoldsBut, Locks, Fits, Taken, Shape, IsState, IcOK, CellOK, IsCell, IsEntry
<1>1. CASE UNCHANGED vars
  BY <1>1 DEF vars
<1>2. CASE Reboot
  BY <1>2, RestartIdle DEF Reboot
<1>6. ASSUME NEW p \in Procs, NEW d \in Fds, NEW ns \in Buffers, WriteCut(p, d, ns) PROVE Idle(fs')
  BY <1>6, CutRestarts, RestartIdle
<1>3. ASSUME NEW p \in Procs, NEW path \in Paths,
             \/ \E omode \in OModes : Openat(p, path, TRUE, omode)
             \/ \E omode \in OModes : Openat(p, path, FALSE, omode)
             \/ \E type \in NodeTypes : MakeNode(p, path, type)
             \/ Newfstatat(p, path) \/ Unlinkat(p, path) \/ Chdir(p, path)
      PROVE  Idle(fs')
  BY <1>3, PathIdle
<1>4. ASSUME NEW p \in Procs, NEW d \in Fds,
             \/ Close(p, d) \/ Dup(p, d) \/ Fstat(p, d)
             \/ \E n \in ReadSizes : Read(p, d, n)
             \/ \E ns \in Buffers : Write(p, d, ns)
      PROVE  Idle(fs')
  BY <1>4, FdIdle
<1>5. ASSUME NEW p \in Procs, Pipe2(p) \/ Exit(p) \/ \E c \in Procs : Fork(p, c) PROVE Idle(fs')
  BY <1>5, ProcIdle
<1>. QED BY <1>1, <1>2, <1>3, <1>4, <1>5, <1>6 DEF Next

\* The locks that mkfs and the boot leave.
LEMMA InitIdle == Init => Idle(fs)
<1> DEFINE ent == [i \in Inos |-> IF i = RootNo THEN RootEntry ELSE FreeEntry]
           data == [b \in 0..NumBlocks |-> IF b = 1 THEN RootBlock ELSE ZeroBlock]
<1> SUFFICES ASSUME Init PROVE Idle(fs)
  OBVIOUS
<1>1. fs = Booted(ent, {1}, data)
  BY DEF Init
<1>2. fs.ent = ent /\ \A j \in Inos : IsEntry(fs.ent[j])
  <2>1. fs.ent = ent
    BY <1>1 DEF Booted
  <2>. QED BY <2>1, InitSound DEF Sound, Entries
<1>3. ent = [j \in Inos |-> ent[j]]
  OBVIOUS
<1> HIDE DEF ent, data
<1>. QED BY <1>1, <1>2, <1>3, BootIdle

\* The second part of FailuresKnown for every disk, every table and every sequence of
\* calls: whatever path a call takes through namex, create, unlinkat and their errors,
\* it has released every inode lock it took when it returns, and a release without a
\* lock (create releases a parent it never locked) only ever meets a directory.
THEOREM FileSysLocksFree == Spec => []LocksFree
<1>1. Idle(fs) => LocksFree
  <2>1. \A j \in Inos : Taken(0, 0, j) = 0 /\ j # 0
    BY ZeroNoInode DEF Taken
  <2>. QED BY <2>1 DEF Idle, Holds, HoldsBut, Locks, Fits, LocksFree
<1>2. Init => Sound(fs) /\ Idle(fs)
  BY InitSound, InitIdle
<1>3. Sound(fs) /\ Idle(fs) /\ [Next]_vars => (Sound(fs) /\ Idle(fs))'
  BY NextSound, NextIdle
<1>. QED BY <1>1, <1>2, <1>3, PTL DEF Spec
=============================================================================
