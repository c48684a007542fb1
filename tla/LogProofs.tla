----------------------------- MODULE LogProofs -----------------------------
(***************************************************************************)
(* Proofs about Log, for any number of processes, blocks and contents and  *)
(* any size of the log.  BaseInv holds whatever is killed.  LogInv holds   *)
(* up to the first kill of a process that waits in begin_op or end_op      *)
(* (kills = 0): a process killed in begin_op goes on uncounted, and the    *)
(* room in the header and the solitude of the committer are lost.          *)
(*                                                                         *)
(* After them the proofs about Pipe, the other part of src/fs with a       *)
(* protocol of its own, for any size of the pipe, any range of the indices *)
(* that is a multiple of it, and any bounds; the two share no variable.    *)
(***************************************************************************)
EXTENDS Log, Pipe, ListProofs

-----------------------------------------------------------------------------
(* The inductive invariant.                                                *)

Committing == {o \in Ops : pc[o] \in {"log", "relock", "install"}}
Sleeping   == {o \in Ops : pc[o] \in {"begin_sleep", "end_sleep"}}

\* A negative value of log.sem counts its sleepers, which are in the list.
SleepInv ==
    /\ NoDup(sleeplist)
    /\ Elems(sleeplist) = Sleeping
    /\ Len(sleeplist) = IF val < 0 THEN -val ELSE 0

\* outstanding counts the operations that run.
OpsCounted == outstanding = Cardinality(Running)

\* Nobody has panicked.
Unpanicked == \A o \in Ops : pc[o] # "panic"

\* Operations are counted; the one that commits is alone; nothing runs before
\* the file system is up.
ControlInv ==
    /\ OpsCounted
    /\ committing <=> Committing # {}
    /\ committing => Running = {}
    /\ \A o, p \in Committing : o = p
    /\ Unpanicked
    /\ phase # "up" => \A o \in Ops : pc[o] = "idle"

\* The blocks that the operations in R may still add, f giving their ctx->rm.
Slots(R, f) == {s \in Ops \X (1..OpMax) : s[1] \in R /\ s[2] <= f[s[1]]}

\* The header has room for all of them.
RoomInv ==
    /\ Len(header) + Cardinality(Slots(Running, rm)) <= LogMax
    /\ Len(disk_header) <= LogMax

\* Up to index n, the contents given by f are in the log.
InLog(n, f) == \A k \in 1..Len(header) : k < n => log_blocks[k] = f[header[k]]
InPlace(n, f) == \A k \in 1..Len(header) : k < n => disk[header[k]] = f[k]

\* Outside the log, the disk differs from the cache only in blocks that are in
\* the header; the header on disk is the one in memory from the commit point to
\* the end of the commit, and in a recovery.
DiskInv ==
    /\ NoDup(header) /\ NoDup(disk_header)
    /\ phase # "up" => cache = disk
    /\ phase = "read" => header = <<>> /\ i = 1
    /\ phase = "restore" => header = disk_header /\ InPlace(i, log_blocks)
    /\ phase = "up" => \A b \in Blocks \ Elems(header) : disk[b] = cache[b]
    /\ phase = "up" /\ (\A o \in Ops : pc[o] \notin {"relock", "install"}) => disk_header = <<>>
    /\ \A o \in Ops :
        /\ pc[o] = "log" => InLog(i, cache)
        /\ pc[o] \in {"relock", "install"} => /\ disk_header = header
                                              /\ InLog(Len(header) + 1, cache)
                                              /\ InPlace(i, log_blocks)

LogInv == TypeOK /\ SleepInv /\ ControlInv /\ RoomInv /\ DiskInv

\* The rest holds through any kills.  The header lists no block twice and fits.
HeaderInv ==
    /\ NoDup(header) /\ NoDup(disk_header)
    /\ Len(header) <= LogMax /\ Len(disk_header) <= LogMax

\* Until the file system is up nothing runs, and a recovery works off the header
\* that is on disk.
RestartInv ==
    /\ phase # "up" => \A o \in Ops : pc[o] = "idle"
    /\ phase = "read" => i = 1
    /\ phase = "restore" => header = disk_header /\ InPlace(i, log_blocks)

\* log.lock is held around the wait of end_op and by the end of a commit.
LockInv == \A o \in Ops : pc[o] \in {"end_wait", "install"} => lock = o

\* No operation is counted that does not run (one let in by a kill is not), and
\* one that ended and waits was not the last.
StrandInv ==
    Unpanicked =>
        /\ outstanding <= Cardinality(Running)
        /\ (\E o \in Ops : pc[o] \in {"end_wait", "end_sleep"}) => committing \/ Running # {}

BaseInv == TypeOK /\ SleepInv /\ HeaderInv /\ RestartInv /\ LockInv /\ StrandInv

\* No process is killed in a step that leaves nobody killed.
LEMMA NoKilled ==
  ASSUME kills' = 0, TypeOK, NEW o \in Ops, NEW after, Killed(o, after)
  PROVE  FALSE
BY DEF TypeOK, Killed

-----------------------------------------------------------------------------
(* Facts about the slots.                                                  *)

\* A finite set without one of its elements has one element less.
LEMMA RemoveOne ==
  ASSUME NEW S, IsFiniteSet(S), NEW x \in S
  PROVE  Cardinality(S \ {x}) = Cardinality(S) - 1
BY FS_RemoveElement

\* There are finitely many; fewer operations have fewer; each operation has at
\* most OpMax; adding a block uses one up.
LEMMA SlotFacts ==
  ASSUME NEW R \in SUBSET Ops, NEW f \in [Ops -> 0..OpMax]
  PROVE  /\ IsFiniteSet(Slots(R, f)) /\ Cardinality(Slots(R, f)) \in Nat
         /\ \A Q \in SUBSET R : Cardinality(Slots(Q, f)) <= Cardinality(Slots(R, f))
         /\ Cardinality(Slots(R, f)) <= Cardinality(R) * OpMax
         /\ \A o \in R : f[o] > 0 => Cardinality(Slots(R, [f EXCEPT ![o] = @ - 1]))
                                        = Cardinality(Slots(R, f)) - 1
         /\ \A g \in [Ops -> 0..OpMax] :
                (\A o \in R : g[o] = f[o]) => Slots(R, g) = Slots(R, f)
<1> USE LogAssumption
<1>1. IsFiniteSet(R) /\ Cardinality(R) \in Nat
  BY FS_Subset, FS_CardinalityType
<1>2. IsFiniteSet(1..OpMax) /\ Cardinality(1..OpMax) = OpMax
  BY FS_Interval
<1>3. IsFiniteSet(R \X (1..OpMax)) /\ Cardinality(R \X (1..OpMax)) = Cardinality(R) * OpMax
  BY <1>1, <1>2, FS_Product
<1>4. Slots(R, f) \in SUBSET (R \X (1..OpMax))
  BY DEF Slots
<1>5. /\ IsFiniteSet(Slots(R, f)) /\ Cardinality(Slots(R, f)) \in Nat
      /\ Cardinality(Slots(R, f)) <= Cardinality(R) * OpMax
  BY <1>3, <1>4, FS_Subset, FS_CardinalityType
<1>6. ASSUME NEW Q \in SUBSET R
      PROVE  Cardinality(Slots(Q, f)) <= Cardinality(Slots(R, f))
  <2>1. Slots(Q, f) \in SUBSET Slots(R, f)
    BY DEF Slots
  <2>. QED BY <2>1, <1>5, FS_Subset
<1>7. ASSUME NEW o \in R, f[o] > 0
      PROVE  Cardinality(Slots(R, [f EXCEPT ![o] = @ - 1])) = Cardinality(Slots(R, f)) - 1
  <2> DEFINE g == [f EXCEPT ![o] = @ - 1]
  <2>1. <<o, f[o]>> \in Slots(R, f)
    BY <1>7 DEF Slots
  <2>2. ASSUME NEW p \in R, NEW k \in 1..OpMax
        PROVE  k <= g[p] <=> k <= f[p] /\ <<p, k>> # <<o, f[o]>>
    BY <1>7
  <2>3. \A s \in R \X (1..OpMax) : s = <<s[1], s[2]>> /\ s[1] \in R /\ s[2] \in 1..OpMax
    OBVIOUS
  <2> HIDE DEF g
  <2>4. Slots(R, g) = Slots(R, f) \ {<<o, f[o]>>}
    <3>1. ASSUME NEW s \in Ops \X (1..OpMax), s[1] \in R
          PROVE  s \in Slots(R, g) <=> s \in Slots(R, f) \ {<<o, f[o]>>}
      <4>1. s \in R \X (1..OpMax)
        BY <3>1
      <4>2. s[2] <= g[s[1]] <=> s[2] <= f[s[1]] /\ s # <<o, f[o]>>
        BY <4>1, <2>2, <2>3
      <4>. QED BY <4>2, <3>1 DEF Slots
    <3>. QED BY <3>1 DEF Slots
  <2>5. Cardinality(Slots(R, g)) = Cardinality(Slots(R, f)) - 1
    <3>1. Cardinality(Slots(R, f) \ {<<o, f[o]>>}) = Cardinality(Slots(R, f)) - 1
      BY <2>1, <1>5, RemoveOne
    <3>. QED BY <3>1, <2>4
  <2>. QED BY <2>5 DEF g
<1>8. ASSUME NEW g \in [Ops -> 0..OpMax], \A o \in R : g[o] = f[o]
      PROVE  Slots(R, g) = Slots(R, f)
  BY <1>8 DEF Slots
<1>. QED BY <1>5, <1>6, <1>7, <1>8

-----------------------------------------------------------------------------
(* The invariant holds at the start, and every step preserves it.          *)

\* The invariant holds on a fresh file system.
LEMMA LogInvInit == Init => LogInv
<1> SUFFICES ASSUME Init PROVE LogInv
  OBVIOUS
<1> USE LogAssumption
<1>1. TypeOK
  <2>1. cache = disk /\ disk \in [Blocks -> Vals] /\ log_blocks \in [1..LogMax -> Vals]
    BY DEF Init
  <2>2. /\ pc \in [Ops -> Pcs]
        /\ rm \in [Ops -> 0..OpMax] /\ kills \in 0..MaxKills
    BY DEF Init, Pcs
  <2>4. committing \in BOOLEAN
    BY Zenon DEF Init
  <2>3. /\ phase = "read" /\ disk_header = <<>> /\ header = <<>> /\ i = 1 /\ lock = None
        /\ outstanding = 0 /\ val = 0 /\ sleeplist = <<>>
        /\ dirty \in [Ops -> SUBSET Blocks]
    BY DEF Init
  <2>. QED BY <2>1, <2>2, <2>3, <2>4 DEF TypeOK
<1>2. Running = {} /\ Sleeping = {} /\ Committing = {}
  BY DEF Init, Running, Sleeping, Committing
<1>3. SleepInv
  BY <1>2 DEF Init, SleepInv, NoDup, Elems
<1>4. ControlInv
  BY <1>2, FS_EmptySet DEF Init, ControlInv, OpsCounted, Unpanicked
<1>5. RoomInv
  <2>1. Slots(Running, rm) = {}
    BY <1>2 DEF Slots
  <2>2. Cardinality(Slots(Running, rm)) = 0
    BY <2>1, FS_EmptySet
  <2>3. Len(header) = 0 /\ Len(disk_header) = 0
    BY DEF Init
  <2>. QED BY <2>2, <2>3 DEF RoomInv
<1>6. DiskInv
  BY DEF Init, DiskInv, NoDup
<1>. QED BY <1>1, <1>3, <1>4, <1>5, <1>6 DEF LogInv

\* A post's effect on the sleepers.
LEMMA PostFacts ==
  ASSUME TypeOK, SleepInv, val < 0
  PROVE  LET w == Oldest(sleeplist)
         IN  /\ w \in Ops /\ pc[w] \in {"begin_sleep", "end_sleep"}
             /\ _detach_from_list(sleeplist, w) \in Seq(Ops)
             /\ NoDup(_detach_from_list(sleeplist, w))
             /\ Elems(_detach_from_list(sleeplist, w)) = Sleeping \ {w}
             /\ Len(_detach_from_list(sleeplist, w)) = -val - 1
<1> DEFINE w == Oldest(sleeplist)
<1>1. sleeplist \in Seq(Ops) /\ val \in Int /\ Len(sleeplist) = -val /\ Len(sleeplist) > 0
  BY DEF TypeOK, SleepInv
<1>2. w \in Ops /\ w \in Elems(sleeplist)
  BY <1>1, OldestFacts
<1>3. w \in Sleeping /\ NoDup(sleeplist)
  BY <1>2 DEF SleepInv
<1> HIDE DEF w
<1>4. /\ _detach_from_list(sleeplist, w) \in Seq(Ops)
      /\ NoDup(_detach_from_list(sleeplist, w))
      /\ Elems(_detach_from_list(sleeplist, w)) = Elems(sleeplist) \ {w}
  BY <1>1, <1>3, DetachFacts
<1>5. Len(_detach_from_list(sleeplist, w)) = -val - 1
  BY <1>1, <1>2, ListLengths
<1>. QED BY <1>2, <1>3, <1>4, <1>5 DEF w, Sleeping, SleepInv

\* The header is never longer than LogMax.
LEMMA RoomBounds ==
  ASSUME LogInv
  PROVE  Len(header) <= LogMax
<1>1. Running \in SUBSET Ops /\ rm \in [Ops -> 0..OpMax] /\ Len(header) \in Nat
  BY DEF LogInv, TypeOK, Running
<1>2. Cardinality(Slots(Running, rm)) \in Nat
  BY <1>1, SlotFacts
<1>. QED BY <1>1, <1>2, LogAssumption DEF LogInv, RoomInv

\* The invariant says more of the header than that it fits.
LEMMA LogHeader ==
  ASSUME LogInv
  PROVE  HeaderInv
BY RoomBounds DEF LogInv, RoomInv, DiskInv, HeaderInv

\* The full invariant says as much of a restart.
LEMMA LogRestart ==
  ASSUME LogInv
  PROVE  RestartInv
BY DEF LogInv, ControlInv, DiskInv, RestartInv

\* The header's type, one step on.
LEMMA LogHeaderNext ==
  ASSUME LogInv'
  PROVE  HeaderInv'
<1>1. LogInv' => HeaderInv'
  BY LogHeader, PTL
<1>. QED BY <1>1

\* A wait's effect on the sleepers.
LEMMA WaitFacts ==
  ASSUME TypeOK, SleepInv, NEW o \in Ops, o \notin Sleeping, NEW after, NEW asleep,
         after \in Pcs \ {"begin_sleep", "end_sleep"}, asleep \in {"begin_sleep", "end_sleep"},
         WaitSem(o, after, asleep)
  PROVE  /\ sleeplist' \in Seq(Ops) /\ val' \in Int
         /\ SleepInv'
         /\ pc' = [pc EXCEPT ![o] = after] \/ pc' = [pc EXCEPT ![o] = asleep]
<1>1. /\ sleeplist \in Seq(Ops) /\ val \in Int /\ pc \in [Ops -> Pcs] /\ val' = val - 1
      /\ NoDup(sleeplist) /\ Elems(sleeplist) = Sleeping /\ Len(sleeplist) \in Nat
      /\ Len(sleeplist) = IF val < 0 THEN -val ELSE 0
  BY DEF TypeOK, SleepInv, WaitSem
<1>2. CASE val > 0
  <2>1. sleeplist' = sleeplist /\ pc' = [pc EXCEPT ![o] = after]
    BY <1>2 DEF WaitSem
  <2>2. Sleeping' = Sleeping
    BY <2>1, <1>1 DEF Sleeping
  <2>. QED BY <1>1, <1>2, <2>1, <2>2 DEF SleepInv
<1>3. CASE ~(val > 0)
  <2>1. sleeplist' = _insert_into_list(sleeplist, o) /\ pc' = [pc EXCEPT ![o] = asleep]
    BY <1>3 DEF WaitSem
  <2>2. Sleeping' = Sleeping \cup {o}
    BY <2>1, <1>1 DEF Sleeping
  <2>3. /\ sleeplist' \in Seq(Ops) /\ NoDup(sleeplist')
        /\ Elems(sleeplist') = Elems(sleeplist) \cup {o}
    BY <2>1, <1>1, InsertFacts
  <2>4. Len(sleeplist') = Len(sleeplist) + 1
    BY <2>1, <1>1, ListLengths
  <2>. QED BY <1>1, <1>3, <2>1, <2>2, <2>3, <2>4 DEF SleepInv
<1>. QED BY <1>2, <1>3

\* A kill takes its process off the sleepers.
LEMMA KilledFacts ==
  ASSUME TypeOK, SleepInv, NEW o \in Sleeping, NEW after,
         after \in Pcs \ {"begin_sleep", "end_sleep"}, Killed(o, after)
  PROVE  /\ sleeplist' \in Seq(Ops) /\ val' \in Int /\ kills' \in 0..MaxKills
         /\ pc' = [pc EXCEPT ![o] = after]
         /\ SleepInv'
<1>1. /\ sleeplist \in Seq(Ops) /\ val \in Int /\ pc \in [Ops -> Pcs] /\ val' = val + 1
      /\ NoDup(sleeplist) /\ Elems(sleeplist) = Sleeping /\ Len(sleeplist) \in Nat
      /\ Len(sleeplist) = IF val < 0 THEN -val ELSE 0
      /\ sleeplist' = _detach_from_list(sleeplist, o) /\ pc' = [pc EXCEPT ![o] = after]
      /\ o \in Ops /\ o \in Elems(sleeplist)
  BY DEF TypeOK, SleepInv, Killed, Sleeping
<1>2. Sleeping' = Sleeping \ {o}
  BY <1>1 DEF Sleeping
<1>3. /\ sleeplist' \in Seq(Ops) /\ NoDup(sleeplist')
      /\ Elems(sleeplist') = Elems(sleeplist) \ {o}
  BY <1>1, DetachFacts
<1>4. Len(sleeplist') = Len(sleeplist) - 1 /\ Len(sleeplist) # 0
  BY <1>1, ListLengths DEF Elems
<1>5. SleepInv'
  BY <1>1, <1>2, <1>3, <1>4 DEF SleepInv
<1>6. kills' \in 0..MaxKills
  BY LogAssumption DEF TypeOK, Killed
<1>. QED BY <1>1, <1>3, <1>5, <1>6

\* The control points, and that a woken process is at one of them.
LEMMA PcsFacts ==
  /\ {"idle", "begin", "begin_wait", "begin_sleep", "run"} \subseteq Pcs
  /\ {"end_wait", "end_sleep", "log", "relock", "install", "panic"} \subseteq Pcs
  /\ \A at \in Pcs : Resumed(at) \in Pcs
BY DEF Pcs, Resumed

\* Every step keeps the type.
LEMMA TypeNext ==
  ASSUME TypeOK, SleepInv, HeaderInv, [Next]_vars
  PROVE  TypeOK'
<1> USE LogAssumption, PcsFacts
<1>0. TypeOK
  OBVIOUS
<1>1. CASE UNCHANGED vars
  BY <1>1, <1>0 DEF TypeOK, vars, disks, logmem, sem
<1>2. ASSUME NEW o \in Ops, begin_op(o) PROVE TypeOK'
  BY <1>2, <1>0 DEF begin_op, TypeOK, disks, logmem, sem
<1>3. ASSUME NEW o \in Ops, BeginRun(o) PROVE TypeOK'
  BY <1>3, <1>0 DEF BeginRun, TypeOK, disks, sem
<1>4. ASSUME NEW o \in Ops, BeginBlock(o) PROVE TypeOK'
  BY <1>4, <1>0 DEF BeginBlock, TypeOK, disks, logmem, sem
<1>5. ASSUME NEW o \in Ops, BeginWait(o) PROVE TypeOK'
  <2>1. o \notin Sleeping /\ WaitSem(o, "begin", "begin_sleep")
    BY <1>5 DEF BeginWait, Sleeping
  <2>2. "begin" \in Pcs \ {"begin_sleep", "end_sleep"}
    OBVIOUS
  <2>3. sleeplist' \in Seq(Ops) /\ val' \in Int
        /\ (pc' = [pc EXCEPT ![o] = "begin"] \/ pc' = [pc EXCEPT ![o] = "begin_sleep"])
    BY <2>1, <2>2, WaitFacts
  <2>4. pc \in [Ops -> Pcs]
    BY <1>0 DEF TypeOK
  <2>5. pc' \in [Ops -> Pcs]
    BY <2>3, <2>4
  <2>. QED BY <1>5, <2>3, <2>5, <1>0 DEF BeginWait, TypeOK, disks, logmem
<1>6. ASSUME NEW o \in Ops, EndWait(o) PROVE TypeOK'
  <2>1. o \notin Sleeping /\ WaitSem(o, "idle", "end_sleep")
    BY <1>6 DEF EndWait, Sleeping
  <2>2. "idle" \in Pcs \ {"begin_sleep", "end_sleep"}
    OBVIOUS
  <2>3. sleeplist' \in Seq(Ops) /\ val' \in Int
        /\ (pc' = [pc EXCEPT ![o] = "idle"] \/ pc' = [pc EXCEPT ![o] = "end_sleep"])
    BY <2>1, <2>2, WaitFacts
  <2>4. pc \in [Ops -> Pcs]
    BY <1>0 DEF TypeOK
  <2>5. pc' \in [Ops -> Pcs]
    BY <2>3, <2>4
  <2>. QED BY <1>6, <2>3, <2>5, <1>0 DEF EndWait, TypeOK, disks, logmem
<1>7. ASSUME NEW o \in Ops, BeginKilled(o) \/ EndKilled(o) PROVE TypeOK'
  <2>1. PICK after \in {"run", "panic"} : o \in Sleeping /\ Killed(o, after)
    BY <1>7 DEF BeginKilled, EndKilled, Sleeping
  <2>2. after \in Pcs \ {"begin_sleep", "end_sleep"}
    OBVIOUS
  <2>3. /\ sleeplist' \in Seq(Ops) /\ val' \in Int /\ kills' \in 0..MaxKills
        /\ pc' = [pc EXCEPT ![o] = after]
    BY <2>1, <2>2, KilledFacts
  <2>4. pc' \in [Ops -> Pcs]
    BY <2>2, <2>3, <1>0 DEF TypeOK
  <2>. QED BY <1>7, <2>3, <2>4, <1>0 DEF BeginKilled, EndKilled, TypeOK, disks, logmem
<1>8. ASSUME NEW o \in Ops, NEW b \in Blocks, NEW v \in Vals, sync(o, b, v) PROVE TypeOK'
  <2>1. header' \in Seq(Blocks)
    BY <1>8, <1>0 DEF sync, Logged, TypeOK
  <2>2. rm' \in [Ops -> 0..OpMax]
    <3>1. header' = header \/ rm[o] > 0
      BY <1>8 DEF sync, Logged
    <3>. QED BY <3>1, <1>8, <1>0 DEF sync, TypeOK
  <2>. QED BY <1>8, <2>1, <2>2, <1>0 DEF sync, TypeOK, disks, sem
<1>9. ASSUME NEW o \in Ops, SyncPanic(o) PROVE TypeOK'
  BY <1>9, <1>0 DEF SyncPanic, Panic, TypeOK, disks, sem
<1>10. ASSUME NEW o \in Ops, EndPanic(o) PROVE TypeOK'
  BY <1>10, <1>0 DEF EndPanic, Panic, TypeOK, disks, sem
<1>11. ASSUME NEW o \in Ops, EndOthers(o) PROVE TypeOK'
  <2>1. sleeplist' \in Seq(Ops) /\ val' \in Int /\ pc' \in [Ops -> Pcs]
    <3>1. CASE val < 0
      <4> DEFINE w == Oldest(sleeplist)
      <4>1. w \in Ops /\ _detach_from_list(sleeplist, w) \in Seq(Ops)
        BY <3>1, PostFacts
      <4>2. /\ sleeplist' = _detach_from_list(sleeplist, w) /\ val' = val + 1
            /\ pc' = [pc EXCEPT ![w] = Resumed(@), ![o] = "end_wait"]
        BY <3>1, <1>11 DEF EndOthers
      <4> HIDE DEF w
      <4>3. pc \in [Ops -> Pcs] /\ val \in Int
        BY <1>0 DEF TypeOK
      <4>4. [pc EXCEPT ![w] = Resumed(@)] \in [Ops -> Pcs]
        BY <4>1, <4>3
      <4>. QED BY <4>1, <4>2, <4>3, <4>4
    <3>2. CASE ~(val < 0)
      <4>1. sleeplist' = sleeplist /\ val' = val + 1 /\ pc' = [pc EXCEPT ![o] = "end_wait"]
        BY <3>2, <1>11 DEF EndOthers
      <4>2. pc \in [Ops -> Pcs] /\ val \in Int /\ sleeplist \in Seq(Ops)
        BY <1>0 DEF TypeOK
      <4>. QED BY <4>1, <4>2
    <3>. QED BY <3>1, <3>2
  <2>. QED BY <1>11, <2>1, <1>0 DEF EndOthers, TypeOK, disks
<1>12. ASSUME NEW o \in Ops, EndLast(o) PROVE TypeOK'
  <2>1. committing' \in BOOLEAN
    BY <1>12, Zenon DEF EndLast
  <2>. QED BY <1>12, <2>1, <1>0 DEF EndLast, TypeOK, disks, sem
<1>13. ASSUME NEW o \in Ops, CommitHeader(o) \/ CommitLock(o) PROVE TypeOK'
  <2>1. CASE CommitHeader(o)
    BY <2>1, <1>0 DEF CommitHeader, TypeOK, logmem, sem
  <2>2. CASE CommitLock(o)
    BY <2>2, <1>0 DEF CommitLock, TypeOK, disks, logmem, sem
  <2>. QED BY <1>13, <2>1, <2>2
<1>14. ASSUME NEW o \in Ops, CommitLog(o) \/ CommitInstall(o) PROVE TypeOK'
  <2>1. header[i] \in Blocks /\ cache[header[i]] \in Vals
    BY <1>14, <1>0 DEF CommitLog, CommitInstall, TypeOK
  <2>2. CASE CommitLog(o)
    <3>1. PICK v \in Vals : log_blocks' = [log_blocks EXCEPT ![i] = v]
      BY <2>2, <2>1 DEF CommitLog
    <3>2. log_blocks' \in [1..LogMax -> Vals]
      BY <3>1, <1>0 DEF TypeOK
    <3>. QED BY <2>2, <3>2, <1>0 DEF CommitLog, TypeOK, logmem, sem
  <2>3. CASE CommitInstall(o)
    BY <2>3, <2>1, <1>0 DEF CommitInstall, TypeOK, logmem, sem
  <2>. QED BY <1>14, <2>2, <2>3
<1>15. ASSUME NEW o \in Ops, CommitEnd(o) PROVE TypeOK'
  <2>1. committing' \in BOOLEAN
    BY <1>15, Zenon DEF CommitEnd
  <2>2. pc' \in [Ops -> Pcs]
    BY <1>15, <1>0 DEF CommitEnd, TypeOK
  <2>3. val' \in Int /\ i' \in Nat \ {0} /\ header' = <<>> /\ disk_header' = <<>> /\ sleeplist' = <<>>
    BY <1>15, <1>0 DEF CommitEnd, TypeOK
  <2>. QED BY <1>15, <2>1, <2>2, <2>3, <1>0 DEF CommitEnd, TypeOK
<1>16. CASE Crash
  <2>1. committing' \in BOOLEAN
    BY <1>16, Zenon DEF Crash
  <2>2. /\ pc' \in [Ops -> Pcs] /\ rm' \in [Ops -> 0..OpMax] /\ dirty' \in [Ops -> SUBSET Blocks]
    BY <1>16 DEF Crash
  <2>. QED BY <1>16, <2>1, <2>2, <1>0 DEF Crash, TypeOK, disks
<1>17. CASE read_header
  BY <1>17, <1>0 DEF read_header, TypeOK, disks, sem
<1>18. CASE Restore
  <2>1. header[i] \in Blocks
    BY <1>18, <1>0 DEF Restore, TypeOK
  <2>2. log_blocks[i] \in Vals
    <3>1. Len(header) <= LogMax
      BY DEF HeaderInv
    <3>. QED BY <3>1, <1>18, <1>0 DEF Restore, TypeOK
  <2>. QED BY <1>18, <2>1, <2>2, <1>0 DEF Restore, TypeOK, logmem, sem
<1>19. CASE RestoreEnd
  BY <1>19, <1>0 DEF RestoreEnd, TypeOK, disks, sem
<1>. QED BY <1>1, <1>2, <1>3, <1>4, <1>5, <1>6, <1>7, <1>8, <1>9, <1>10, <1>11, <1>12, <1>13,
            <1>14, <1>15, <1>16, <1>17, <1>18, <1>19 DEF Next, OpStep, Recover

\* What a change of one process's pc does to the sets.
LEMMA MoveFacts ==
  ASSUME TypeOK, NEW o \in Ops, NEW at, pc' = [pc EXCEPT ![o] = at]
  PROVE  /\ pc'[o] = at /\ \A p \in Ops \ {o} : pc'[p] = pc[p]
         /\ Running' = IF at = "run" THEN Running \cup {o} ELSE Running \ {o}
         /\ Sleeping' = IF at \in {"begin_sleep", "end_sleep"} THEN Sleeping \cup {o}
                                                              ELSE Sleeping \ {o}
         /\ Committing' = IF at \in {"log", "relock", "install"} THEN Committing \cup {o}
                                                       ELSE Committing \ {o}
<1>1. pc'[o] = at /\ \A p \in Ops \ {o} : pc'[p] = pc[p]
  BY DEF TypeOK
<1>. QED BY <1>1 DEF Running, Sleeping, Committing

\* What a post that wakes w does to the sets, the poster o going on to end_wait.
LEMMA WakeFacts ==
  ASSUME TypeOK, SleepInv, NEW o \in Ops, EndOthers(o)
  PROVE  /\ Running' = Running \ {o}
         /\ Committing' = Committing \ {o}
         /\ SleepInv'
         /\ \A p \in Ops : pc'[p] # "panic" \/ pc[p] = "panic"
<1>0. pc \in [Ops -> Pcs] /\ val \in Int /\ pc[o] = "run"
  BY DEF TypeOK, EndOthers
<1>1. CASE val < 0
  <2> DEFINE w == Oldest(sleeplist)
  <2>1. /\ w \in Ops /\ pc[w] \in {"begin_sleep", "end_sleep"}
        /\ NoDup(_detach_from_list(sleeplist, w))
        /\ Elems(_detach_from_list(sleeplist, w)) = Sleeping \ {w}
        /\ Len(_detach_from_list(sleeplist, w)) = -val - 1
    BY <1>1, PostFacts
  <2>2. /\ sleeplist' = _detach_from_list(sleeplist, w) /\ val' = val + 1
        /\ pc' = [pc EXCEPT ![w] = Resumed(@), ![o] = "end_wait"]
    BY <1>1 DEF EndOthers
  <2> HIDE DEF w
  <2>3. Resumed(pc[w]) \in {"begin", "idle"}
    BY <2>1 DEF Resumed
  <2>4. /\ w # o /\ pc'[o] = "end_wait" /\ pc'[w] \in {"begin", "idle"}
        /\ \A p \in Ops \ {o, w} : pc'[p] = pc[p]
    BY <2>1, <2>2, <2>3, <1>0
  <2>5. Sleeping' = Sleeping \ {w} /\ Running' = Running \ {o} /\ Committing' = Committing \ {o}
    BY <2>1, <2>4, <1>0 DEF Sleeping, Running, Committing
  <2>6. SleepInv'
    BY <2>1, <2>2, <2>5, <1>0, <1>1 DEF SleepInv
  <2>. QED BY <2>4, <2>5, <2>6
<1>2. CASE ~(val < 0)
  <2>1. sleeplist' = sleeplist /\ val' = val + 1 /\ pc' = [pc EXCEPT ![o] = "end_wait"]
    BY <1>2 DEF EndOthers
  <2>2. /\ Running' = Running \ {o} /\ Committing' = Committing \ {o} /\ Sleeping' = Sleeping \ {o}
        /\ pc'[o] = "end_wait" /\ \A p \in Ops \ {o} : pc'[p] = pc[p]
    BY <2>1, MoveFacts
  <2>3. Sleeping' = Sleeping
    BY <2>2, <1>0 DEF Sleeping
  <2>4. SleepInv'
    BY <2>1, <2>3, <1>0, <1>2 DEF SleepInv
  <2>. QED BY <2>2, <2>4
<1>. QED BY <1>1, <1>2

\* What post_all_sem at the end of a commit does to the sets.
LEMMA WakeAllFacts ==
  ASSUME TypeOK, NEW o \in Ops, CommitEnd(o)
  PROVE  /\ Running' = Running
         /\ Committing' = Committing \ {o}
         /\ Sleeping' = {}
         /\ \A p \in Ops : pc'[p] # "panic" \/ pc[p] = "panic"
<1>1. /\ pc[o] = "install" /\ pc'[o] = "idle"
      /\ \A p \in Ops \ {o} : pc'[p] = Resumed(pc[p])
  BY DEF TypeOK, CommitEnd
<1>2. \A p \in Ops : /\ Resumed(pc[p]) \notin {"begin_sleep", "end_sleep"}
                     /\ Resumed(pc[p]) = pc[p] \/ pc[p] \in {"begin_sleep", "end_sleep"}
                     /\ pc[p] \in {"begin_sleep", "end_sleep"} => Resumed(pc[p]) \in {"begin", "idle"}
  BY DEF Resumed
<1>. QED BY <1>1, <1>2 DEF Running, Sleeping, Committing

\* Every step keeps the sleepers in the list.
LEMMA SleepNext ==
  ASSUME TypeOK, SleepInv, [Next]_vars
  PROVE  SleepInv'
<1>0. TypeOK /\ SleepInv
  OBVIOUS
<1>1. ASSUME UNCHANGED sem, Sleeping' = Sleeping PROVE SleepInv'
  BY <1>1, <1>0 DEF SleepInv, sem
<1>2. ASSUME NEW o \in Ops, NEW at, at \notin {"begin_sleep", "end_sleep"}, o \notin Sleeping,
             pc' = [pc EXCEPT ![o] = at], UNCHANGED sem
      PROVE  SleepInv'
  <2>1. Sleeping' = Sleeping \ {o}
    BY <1>2, <1>0, MoveFacts
  <2>. QED BY <1>2, <2>1, <1>1
<1>3. CASE UNCHANGED vars
  <2>1. Sleeping' = Sleeping /\ UNCHANGED sem
    BY <1>3 DEF vars, sem, Sleeping
  <2>. QED BY <2>1, <1>1
<1>4. ASSUME NEW o \in Ops, begin_op(o) PROVE SleepInv'
  BY <1>4, <1>2 DEF begin_op, Sleeping
<1>5. ASSUME NEW o \in Ops, BeginRun(o) PROVE SleepInv'
  BY <1>5, <1>2 DEF BeginRun, Sleeping
<1>6. ASSUME NEW o \in Ops, BeginBlock(o) PROVE SleepInv'
  BY <1>6, <1>2 DEF BeginBlock, Sleeping
<1>7. ASSUME NEW o \in Ops, BeginWait(o) PROVE SleepInv'
  BY <1>7, PcsFacts, WaitFacts DEF BeginWait, Sleeping
<1>8. ASSUME NEW o \in Ops, EndWait(o) PROVE SleepInv'
  BY <1>8, PcsFacts, WaitFacts DEF EndWait, Sleeping
<1>9. ASSUME NEW o \in Ops, BeginKilled(o) \/ EndKilled(o) PROVE SleepInv'
  <2>1. PICK after \in {"run", "panic"} : o \in Sleeping /\ Killed(o, after)
    BY <1>9 DEF BeginKilled, EndKilled, Sleeping
  <2>2. after \in Pcs \ {"begin_sleep", "end_sleep"}
    BY PcsFacts
  <2>. QED BY <2>1, <2>2, KilledFacts
<1>10. ASSUME NEW o \in Ops, NEW b \in Blocks, NEW v \in Vals, sync(o, b, v) PROVE SleepInv'
  BY <1>10, <1>1 DEF sync, Sleeping
<1>11. ASSUME NEW o \in Ops, SyncPanic(o) \/ EndPanic(o) PROVE SleepInv'
  BY <1>11, <1>2 DEF SyncPanic, EndPanic, Panic, Sleeping
<1>12. ASSUME NEW o \in Ops, EndOthers(o) PROVE SleepInv'
  BY <1>12, <1>0, WakeFacts
<1>13. ASSUME NEW o \in Ops, EndLast(o) PROVE SleepInv'
  BY <1>13, <1>2 DEF EndLast, Sleeping
<1>14. ASSUME NEW o \in Ops, CommitHeader(o) \/ CommitLock(o) PROVE SleepInv'
  BY <1>14, <1>2 DEF CommitHeader, CommitLock, Sleeping
<1>15. ASSUME NEW o \in Ops, CommitLog(o) \/ CommitInstall(o) PROVE SleepInv'
  BY <1>15, <1>1 DEF CommitLog, CommitInstall, Sleeping
<1>16. ASSUME NEW o \in Ops, CommitEnd(o) PROVE SleepInv'
  <2>1. Sleeping' = {}
    BY <1>16, <1>0, WakeAllFacts
  <2>2. sleeplist' = <<>> /\ val' \in Int /\ ~(val' < 0)
    BY <1>16, <1>0 DEF CommitEnd, TypeOK
  <2>. QED BY <2>1, <2>2 DEF SleepInv, NoDup, Elems
<1>17. CASE Crash
  <2>1. Sleeping' = {} /\ sleeplist' = <<>> /\ val' = 0
    BY <1>17 DEF Crash, Sleeping
  <2>. QED BY <2>1 DEF SleepInv, NoDup, Elems
<1>18. CASE Recover
  BY <1>18, <1>1 DEF Recover, read_header, Restore, RestoreEnd, Sleeping
<1>. QED BY <1>3, <1>4, <1>5, <1>6, <1>7, <1>8, <1>9, <1>10, <1>11, <1>12, <1>13, <1>14, <1>15,
            <1>16, <1>17, <1>18 DEF Next, OpStep

\* A running operation that may add a block finds room for it.
LEMMA RoomForOne ==
  ASSUME LogInv, NEW o \in Running, rm[o] > 0
  PROVE  Len(header) < LogMax
<1>1. Running \in SUBSET Ops /\ rm \in [Ops -> 0..OpMax] /\ Len(header) \in Nat
  BY DEF LogInv, TypeOK, Running
<1> DEFINE g == [rm EXCEPT ![o] = @ - 1]
<1>2. g \in [Ops -> 0..OpMax]
  BY <1>1, LogAssumption
<1>3. Cardinality(Slots(Running, g)) = Cardinality(Slots(Running, rm)) - 1
  BY <1>1, SlotFacts
<1> HIDE DEF g
<1>4. Cardinality(Slots(Running, g)) \in Nat /\ Cardinality(Slots(Running, rm)) \in Nat
  BY <1>1, <1>2, SlotFacts
<1>. QED BY <1>1, <1>3, <1>4, LogAssumption DEF LogInv, RoomInv

\* Every step keeps the count of operations and the commit alone.
LEMMA ControlNext ==
  ASSUME kills' = 0, LogInv, [Next]_vars
  PROVE  ControlInv'
<1>0. TypeOK /\ ControlInv
  BY DEF LogInv
<1>1. IsFiniteSet(Running) /\ Cardinality(Running) \in Nat
  <2>1. Running \in SUBSET Ops
    BY DEF Running
  <2>. QED BY <2>1, LogAssumption, FS_Subset, FS_CardinalityType
<1>2. ASSUME Running' = Running, Committing' = Committing,
             UNCHANGED <<outstanding, committing>>, Unpanicked',
             phase' # "up" => \A p \in Ops : pc'[p] = "idle"
      PROVE  ControlInv'
  BY <1>2, <1>0 DEF ControlInv, OpsCounted
<1>3. ASSUME NEW o \in Ops, NEW at, at \notin {"run", "log", "relock", "install", "panic"},
             o \notin Running, o \notin Committing, pc[o] # "idle" \/ phase = "up",
             pc' = [pc EXCEPT ![o] = at], UNCHANGED <<phase, outstanding, committing>>
      PROVE  ControlInv'
  <2>1. /\ Running' = Running \ {o} /\ Committing' = Committing \ {o}
        /\ pc'[o] = at /\ \A p \in Ops \ {o} : pc'[p] = pc[p]
    BY <1>3, <1>0, MoveFacts
  <2>2. Running' = Running /\ Committing' = Committing
    BY <2>1, <1>3
  <2>3. Unpanicked' /\ phase = "up"
    BY <2>1, <1>3, <1>0 DEF ControlInv, Unpanicked
  <2>. QED BY <2>2, <2>3, <1>3, <1>2
<1>4. CASE UNCHANGED vars
  BY <1>4, <1>2, <1>0 DEF vars, logmem, Running, Committing, Unpanicked, ControlInv
<1>5. ASSUME NEW o \in Ops, begin_op(o) \/ BeginBlock(o) PROVE ControlInv'
  BY <1>5, <1>3 DEF begin_op, BeginBlock, logmem, Running, Committing
<1>6. ASSUME NEW o \in Ops, BeginRun(o) PROVE ControlInv'
  <2>1. pc[o] = "begin" /\ ~committing /\ o \notin Running /\ o \notin Committing /\ phase = "up"
    BY <1>6, <1>0 DEF BeginRun, MustWait, Running, Committing, ControlInv
  <2>2. /\ Running' = Running \cup {o} /\ Committing' = Committing \ {o}
        /\ pc'[o] = "run" /\ \A p \in Ops \ {o} : pc'[p] = pc[p]
    BY <1>6, <1>0, MoveFacts DEF BeginRun
  <2>3. OpsCounted'
    <3>1. Cardinality(Running') = Cardinality(Running) + 1
      BY <2>1, <2>2, <1>1, FS_AddElement
    <3>. QED BY <3>1, <1>6, <1>0 DEF OpsCounted, ControlInv, BeginRun
  <2>4. Unpanicked' /\ phase' = "up"
    BY <1>6, <2>1, <2>2, <1>0 DEF BeginRun, Unpanicked, ControlInv
  <2>5. Committing' = Committing /\ committing' = committing
    BY <2>1, <2>2, <1>6 DEF BeginRun
  <2>. QED BY <2>1, <2>3, <2>4, <2>5, <1>0 DEF ControlInv
<1>7. ASSUME NEW o \in Ops, BeginWait(o) PROVE ControlInv'
  <2>1. pc' = [pc EXCEPT ![o] = "begin"] \/ pc' = [pc EXCEPT ![o] = "begin_sleep"]
    BY <1>7 DEF BeginWait, WaitSem
  <2>. QED BY <2>1, <1>7, <1>3 DEF BeginWait, logmem, Running, Committing
<1>8. ASSUME NEW o \in Ops, EndWait(o) PROVE ControlInv'
  <2>1. pc' = [pc EXCEPT ![o] = "idle"] \/ pc' = [pc EXCEPT ![o] = "end_sleep"]
    BY <1>8 DEF EndWait, WaitSem
  <2>. QED BY <2>1, <1>8, <1>3 DEF EndWait, logmem, Running, Committing
<1>9. ASSUME NEW o \in Ops, BeginKilled(o) \/ EndKilled(o) PROVE FALSE
  BY <1>9, <1>0, NoKilled DEF BeginKilled, EndKilled
<1>10. ASSUME NEW o \in Ops, NEW b \in Blocks, NEW v \in Vals, sync(o, b, v) PROVE ControlInv'
  BY <1>10, <1>2, <1>0 DEF sync, Running, Committing, Unpanicked, ControlInv
<1>11. ASSUME NEW o \in Ops, SyncPanic(o) PROVE FALSE
  <2>1. o \in Running /\ rm[o] > 0 /\ ~(Len(header) < LogMax)
    BY <1>11, <1>0, LogAssumption DEF SyncPanic, Running, TypeOK
  <2>. QED BY <2>1, RoomForOne
<1>12. ASSUME NEW o \in Ops, EndPanic(o) PROVE FALSE
  BY <1>12, <1>0 DEF EndPanic, Running, ControlInv
<1>13. ASSUME NEW o \in Ops, EndOthers(o) \/ EndLast(o)
       PROVE  o \in Running /\ o \notin Committing /\ ~committing /\ phase = "up"
  BY <1>13, <1>0 DEF EndOthers, EndLast, Running, Committing, ControlInv
<1>14. ASSUME NEW o \in Ops, EndOthers(o) PROVE ControlInv'
  <2>1. /\ Running' = Running \ {o} /\ Committing' = Committing
        /\ \A p \in Ops : pc'[p] # "panic" \/ pc[p] = "panic"
    BY <1>14, <1>13, <1>0, WakeFacts DEF LogInv
  <2>2. OpsCounted'
    <3>1. Cardinality(Running') = Cardinality(Running) - 1
      BY <2>1, <1>13, <1>14, <1>1, FS_RemoveElement
    <3>. QED BY <3>1, <1>14, <1>0 DEF OpsCounted, ControlInv, EndOthers
  <2>3. Unpanicked' /\ phase' = "up" /\ committing' = committing
    BY <1>13, <1>14, <2>1, <1>0 DEF EndOthers, Unpanicked, ControlInv
  <2>. QED BY <2>1, <2>2, <2>3, <1>0 DEF ControlInv
<1>15. ASSUME NEW o \in Ops, EndLast(o) PROVE ControlInv'
  <2>1. /\ Running' = Running \ {o} /\ Committing' = Committing \cup {o}
        /\ pc'[o] = "log" /\ \A p \in Ops \ {o} : pc'[p] = pc[p]
    BY <1>15, <1>0, MoveFacts DEF EndLast
  <2>2. Cardinality(Running') = Cardinality(Running) - 1 /\ IsFiniteSet(Running')
    BY <2>1, <1>13, <1>15, <1>1, FS_RemoveElement
  <2>3. OpsCounted'
    BY <2>2, <1>15, <1>0 DEF OpsCounted, ControlInv, EndLast
  <2>4. Cardinality(Running) <= 1 /\ Cardinality(Running') \in Nat
    BY <1>15, <1>0, <2>2, FS_CardinalityType DEF EndLast, OpsCounted, ControlInv
  <2>5. Running' = {}
    <3>1. Cardinality(Running') = 0
      BY <2>2, <2>4, <1>1
    <3>. QED BY <3>1, <2>2, FS_EmptySet
  <2>6. Committing' = {o} /\ committing' /\ phase' = "up"
    BY <1>13, <1>15, <2>1, <1>0 DEF EndLast, ControlInv
  <2>7. Unpanicked'
    BY <2>1, <1>0 DEF Unpanicked, ControlInv
  <2>. QED BY <2>3, <2>5, <2>6, <2>7 DEF ControlInv
<1>16. ASSUME NEW o \in Ops, CommitHeader(o) \/ CommitLock(o) PROVE ControlInv'
  <2>1. o \in Committing /\ o \notin Running /\ phase = "up"
    BY <1>16, <1>0 DEF CommitHeader, CommitLock, Committing, Running, ControlInv
  <2>2. PICK at \in {"relock", "install"} : pc' = [pc EXCEPT ![o] = at]
    BY <1>16 DEF CommitHeader, CommitLock
  <2>3. /\ Running' = Running \ {o} /\ Committing' = Committing \cup {o}
        /\ pc'[o] = at /\ \A p \in Ops \ {o} : pc'[p] = pc[p]
    BY <2>2, <1>0, MoveFacts
  <2>4. Unpanicked' /\ Running' = Running /\ Committing' = Committing
    BY <2>1, <2>3, <1>0 DEF Unpanicked, ControlInv
  <2>. QED BY <2>1, <2>4, <1>16, <1>2 DEF CommitHeader, CommitLock, logmem
<1>17. ASSUME NEW o \in Ops, CommitLog(o) \/ CommitInstall(o) PROVE ControlInv'
  BY <1>17, <1>2, <1>0 DEF CommitLog, CommitInstall, logmem, Running, Committing, Unpanicked, ControlInv
<1>18. ASSUME NEW o \in Ops, CommitEnd(o) PROVE ControlInv'
  <2>1. /\ Running' = Running /\ Committing' = Committing \ {o}
        /\ \A p \in Ops : pc'[p] # "panic" \/ pc[p] = "panic"
    BY <1>18, <1>0, WakeAllFacts
  <2>2. o \in Committing /\ phase = "up"
    BY <1>18, <1>0 DEF CommitEnd, Committing, ControlInv
  <2>3. Committing' = {} /\ ~committing'
    BY <2>1, <2>2, <1>18, <1>0 DEF ControlInv, CommitEnd
  <2>4. Unpanicked' /\ OpsCounted' /\ phase' = "up"
    BY <2>1, <2>2, <1>18, <1>0 DEF ControlInv, CommitEnd, Unpanicked, OpsCounted
  <2>. QED BY <2>3, <2>4 DEF ControlInv
<1>19. CASE Crash
  <2>1. \A p \in Ops : pc'[p] = "idle"
    BY <1>19 DEF Crash
  <2>2. Running' = {} /\ Committing' = {} /\ Unpanicked'
    BY <2>1 DEF Running, Committing, Unpanicked
  <2>3. OpsCounted' /\ ~committing'
    BY <2>2, <1>19, FS_EmptySet DEF Crash, OpsCounted
  <2>. QED BY <2>1, <2>2, <2>3 DEF ControlInv
<1>20. CASE Recover
  BY <1>20, <1>2, <1>0 DEF Recover, read_header, Restore, RestoreEnd, logmem, Running, Committing,
                           Unpanicked, ControlInv
<1>. QED BY <1>4, <1>5, <1>6, <1>7, <1>8, <1>9, <1>10, <1>11, <1>12, <1>14, <1>15, <1>16, <1>17,
            <1>18, <1>19, <1>20 DEF Next, OpStep

\* Every step keeps room in the header for what running operations may add.
LEMMA RoomNext ==
  ASSUME kills' = 0, LogInv, [Next]_vars
  PROVE  RoomInv'
<1> USE LogAssumption
<1>0. TypeOK /\ TypeOK' /\ SleepInv /\ ControlInv /\ RoomInv /\ Len(header) <= LogMax
  BY RoomBounds, LogHeader, TypeNext DEF LogInv
<1>1. /\ Running \in SUBSET Ops /\ rm \in [Ops -> 0..OpMax] /\ rm' \in [Ops -> 0..OpMax]
      /\ Running' \in SUBSET Ops /\ Len(header) \in Nat /\ Len(header') \in Nat
      /\ outstanding \in Int
  BY <1>0 DEF Running, TypeOK
<1>2. Cardinality(Slots(Running, rm)) \in Nat /\ Cardinality(Slots(Running', rm')) \in Nat
  BY <1>1, SlotFacts
<1>3. ASSUME Running' \subseteq Running, \A p \in Running' : rm'[p] = rm[p],
             Len(header') <= Len(header), Len(disk_header') <= LogMax
      PROVE  RoomInv'
  <2>1. Cardinality(Slots(Running', rm)) <= Cardinality(Slots(Running, rm))
    BY <1>1, <1>3, SlotFacts
  <2>2. Slots(Running', rm') = Slots(Running', rm)
    BY <1>1, <1>3, SlotFacts
  <2>. QED BY <2>1, <2>2, <1>0, <1>1, <1>2, <1>3 DEF RoomInv
<1>4. ASSUME Running' \subseteq Running, UNCHANGED <<header, disk_header, rm>> PROVE RoomInv'
  BY <1>4, <1>3, <1>1, <1>0 DEF RoomInv
<1>5. CASE UNCHANGED vars
  BY <1>5, <1>4 DEF vars, disks, logmem, Running
<1>6. ASSUME NEW o \in Ops, begin_op(o) PROVE RoomInv'
  <2>1. o \notin Running /\ Running' = Running \ {o}
    BY <1>6, <1>0, MoveFacts DEF begin_op, Running
  <2>2. \A p \in Running : rm'[p] = rm[p]
    BY <2>1, <1>6, <1>1 DEF begin_op
  <2>. QED BY <2>1, <2>2, <1>6, <1>3, <1>1, <1>0 DEF begin_op, disks, logmem, RoomInv
<1>7. ASSUME NEW o \in Ops, BeginRun(o) PROVE RoomInv'
  <2>1. o \notin Running /\ Running' = Running \cup {o} /\ ~MustWait
    BY <1>7, <1>0, MoveFacts DEF BeginRun, Running
  <2>2. IsFiniteSet(Running) /\ Cardinality(Running) = outstanding
    BY <1>0, <1>1, FS_Subset DEF ControlInv, OpsCounted
  <2>3. Cardinality(Running') = outstanding + 1
    BY <2>1, <2>2, FS_AddElement
  <2>4. Cardinality(Slots(Running', rm')) <= (outstanding + 1) * OpMax
    BY <2>3, <1>1, SlotFacts
  <2>5. Len(header) + (outstanding + 1) * OpMax <= LogMax /\ (outstanding + 1) * OpMax \in Int
    BY <2>1, <1>1 DEF MustWait
  <2>6. header' = header /\ disk_header' = disk_header
    BY <1>7 DEF BeginRun, disks
  <2>. QED BY <2>4, <2>5, <2>6, <1>0, <1>1, <1>2 DEF RoomInv
<1>8. ASSUME NEW o \in Ops, BeginBlock(o) PROVE RoomInv'
  <2>1. Running' = Running \ {o}
    BY <1>8, <1>0, MoveFacts DEF BeginBlock
  <2>. QED BY <2>1, <1>8, <1>4 DEF BeginBlock, disks, logmem
<1>9. ASSUME NEW o \in Ops, BeginWait(o) PROVE RoomInv'
  <2>1. Running' = Running \ {o}
    BY <1>9, <1>0, MoveFacts DEF BeginWait, WaitSem
  <2>. QED BY <2>1, <1>9, <1>4 DEF BeginWait, disks, logmem
<1>10. ASSUME NEW o \in Ops, EndWait(o) PROVE RoomInv'
  <2>1. Running' = Running \ {o}
    BY <1>10, <1>0, MoveFacts DEF EndWait, WaitSem
  <2>. QED BY <2>1, <1>10, <1>4 DEF EndWait, disks, logmem
<1>11. ASSUME NEW o \in Ops, BeginKilled(o) \/ EndKilled(o) PROVE FALSE
  BY <1>11, <1>0, NoKilled DEF BeginKilled, EndKilled
<1>12. ASSUME NEW o \in Ops, NEW b \in Blocks, NEW v \in Vals, sync(o, b, v) PROVE RoomInv'
  <2>1. Running' = Running /\ o \in Running /\ disk_header' = disk_header
    BY <1>12 DEF sync, Running, disks
  <2>2. CASE b \in Elems(header)
    <3>1. header' = header /\ \A p \in Ops : rm'[p] = rm[p]
      BY <2>2, <1>12, <1>1 DEF sync, Logged
    <3>. QED BY <3>1, <2>1, <1>3, <1>1, <1>0 DEF RoomInv
  <2>3. CASE b \notin Elems(header)
    <3>1. header' = Append(header, b) /\ Len(header') = Len(header) + 1 /\ rm[o] > 0
      BY <2>3, <1>12, <1>0 DEF sync, Logged, TypeOK
    <3>2. rm' = [rm EXCEPT ![o] = @ - 1]
      <4>1. header' # header
        BY <3>1, <1>1
      <4>. QED BY <4>1, <1>12 DEF sync
    <3>3. Cardinality(Slots(Running', rm')) = Cardinality(Slots(Running, rm)) - 1
      BY <3>1, <3>2, <2>1, <1>1, SlotFacts
    <3>. QED BY <3>1, <3>3, <2>1, <1>0, <1>1, <1>2 DEF RoomInv
  <2>. QED BY <2>2, <2>3
<1>13. ASSUME NEW o \in Ops, SyncPanic(o) \/ EndPanic(o) PROVE RoomInv'
  <2>0. pc' = [pc EXCEPT ![o] = "panic"]
    BY <1>13 DEF SyncPanic, EndPanic, Panic
  <2>1. Running' = Running \ {o}
    BY <2>0, <1>0, MoveFacts
  <2>. QED BY <2>1, <1>13, <1>4 DEF SyncPanic, EndPanic, Panic, disks
<1>14. ASSUME NEW o \in Ops, EndOthers(o) PROVE RoomInv'
  <2>1. Running' = Running \ {o}
    BY <1>14, <1>0, WakeFacts
  <2>. QED BY <2>1, <1>14, <1>4 DEF EndOthers, disks
<1>15. ASSUME NEW o \in Ops, EndLast(o) PROVE RoomInv'
  <2>1. Running' = Running \ {o}
    BY <1>15, <1>0, MoveFacts DEF EndLast
  <2>. QED BY <2>1, <1>15, <1>4 DEF EndLast, disks
<1>16. ASSUME NEW o \in Ops, CommitHeader(o) PROVE RoomInv'
  <2>1. Running' = Running \ {o}
    BY <1>16, <1>0, MoveFacts DEF CommitHeader
  <2>2. header' = header /\ disk_header' = header /\ rm' = rm
    BY <1>16 DEF CommitHeader, logmem
  <2>. QED BY <2>1, <2>2, <1>0, <1>1, <1>3
<1>16a. ASSUME NEW o \in Ops, CommitLock(o) PROVE RoomInv'
  <2>1. Running' = Running \ {o}
    BY <1>16a, <1>0, MoveFacts DEF CommitLock
  <2>. QED BY <2>1, <1>16a, <1>4 DEF CommitLock, disks, logmem
<1>17. ASSUME NEW o \in Ops, CommitLog(o) \/ CommitInstall(o) PROVE RoomInv'
  BY <1>17, <1>4 DEF CommitLog, CommitInstall, logmem, Running
<1>18. ASSUME NEW o \in Ops, CommitEnd(o) PROVE RoomInv'
  <2>1. Running' = Running /\ Len(header') = 0 /\ Len(disk_header') = 0 /\ rm' = rm
    BY <1>18, <1>0, WakeAllFacts DEF CommitEnd
  <2>. QED BY <2>1, <1>0, <1>1, <1>3
<1>19. CASE Crash
  <2>1. Running' = {} /\ Len(header') = 0 /\ disk_header' = disk_header
    BY <1>19 DEF Crash, Running, disks
  <2>. QED BY <2>1, <1>0, <1>1, <1>3 DEF RoomInv
<1>20. CASE read_header
  <2>1. Running' = {} /\ header' = disk_header /\ disk_header' = disk_header
    BY <1>20, <1>0 DEF read_header, Running, disks, ControlInv
  <2>2. Slots(Running', rm') = {}
    BY <2>1 DEF Slots
  <2>3. Cardinality(Slots(Running', rm')) = 0
    BY <2>2, FS_EmptySet
  <2>. QED BY <2>1, <2>3, <1>0, <1>1 DEF RoomInv
<1>21. CASE Restore
  BY <1>21, <1>4 DEF Restore, logmem, Running
<1>22. CASE RestoreEnd
  <2>1. Running' = Running /\ Len(header') = 0 /\ Len(disk_header') = 0 /\ rm' = rm
    BY <1>22 DEF RestoreEnd, Running
  <2>. QED BY <2>1, <1>0, <1>1, <1>3
<1>. QED BY <1>5, <1>6, <1>7, <1>8, <1>9, <1>10, <1>11, <1>12, <1>13, <1>14, <1>15, <1>16, <1>16a,
            <1>17, <1>18, <1>19, <1>20, <1>21, <1>22 DEF Next, OpStep, Recover

\* Appending a block that is not in the header.
LEMMA LoggedFacts ==
  ASSUME NEW b \in Blocks, header \in Seq(Blocks), NoDup(header)
  PROVE  NoDup(Logged(b)) /\ Elems(Logged(b)) = Elems(header) \cup {b}
<1>1. CASE b \in Elems(header)
  BY <1>1 DEF Logged
<1>2. CASE b \notin Elems(header)
  <2> DEFINE r == Append(header, b)
  <2>1. /\ Logged(b) = r /\ Len(header) \in Nat /\ Len(r) = Len(header) + 1
        /\ r[Len(header) + 1] = b /\ \A k \in 1..Len(header) : r[k] = header[k]
    BY <1>2 DEF Logged
  <2> HIDE DEF r
  <2>2. \A k \in 1..Len(r) : k \in 1..Len(header) \/ k = Len(header) + 1
    BY <2>1
  <2>3. NoDup(r)
    BY <2>1, <2>2, <1>2 DEF NoDup, Elems
  <2>4. Elems(r) = Elems(header) \cup {b}
    <3>1. ASSUME NEW k \in 1..Len(header) PROVE header[k] \in Elems(r)
      BY <2>1 DEF Elems
    <3>2. b \in Elems(r)
      <4>1. Len(header) + 1 \in 1..Len(r)
        BY <2>1
      <4>. QED BY <4>1, <2>1 DEF Elems
    <3>3. ASSUME NEW k \in 1..Len(r) PROVE r[k] \in Elems(header) \cup {b}
      BY <2>1, <2>2 DEF Elems
    <3>. QED BY <3>1, <3>2, <3>3 DEF Elems
  <2>. QED BY <2>1, <2>3, <2>4
<1>. QED BY <1>1, <1>2

\* Every step keeps what is on disk recoverable.
LEMMA DiskNext ==
  ASSUME kills' = 0, LogInv, [Next]_vars
  PROVE  DiskInv'
<1> USE LogAssumption
<1>0. TypeOK /\ ControlInv /\ DiskInv /\ Len(header) <= LogMax
  BY RoomBounds DEF LogInv
<1>1. /\ header \in Seq(Blocks) /\ Len(header) \in Nat /\ i \in Nat \ {0}
      /\ disk \in [Blocks -> Vals] /\ cache \in [Blocks -> Vals]
      /\ log_blocks \in [1..LogMax -> Vals] /\ pc \in [Ops -> Pcs]
      /\ NoDup(header) /\ NoDup(disk_header)
      /\ \A k \in 1..Len(header) : header[k] \in Elems(header) /\ header[k] \in Blocks
  BY <1>0 DEF TypeOK, DiskInv, Elems
<1>2. ASSUME UNCHANGED <<phase, disks, header, cache, i>>,
             \A p \in Ops : pc'[p] = pc[p] \/ {pc'[p], pc[p]} \cap {"log", "relock", "install"} = {}
      PROVE  DiskInv'
  <2>1. \A p \in Ops : /\ pc'[p] = "log" <=> pc[p] = "log"
                       /\ pc'[p] \in {"relock", "install"} <=> pc[p] \in {"relock", "install"}
    BY <1>2
  <2>2. \A n, f : (InLog(n, f)' <=> InLog(n, f)) /\ (InPlace(n, f)' <=> InPlace(n, f))
    BY <1>2 DEF InLog, InPlace, disks
  <2>. QED BY <2>1, <1>2, <1>0 DEF DiskInv, InLog, InPlace, disks
<1>3. ASSUME NEW o \in Ops, pc[o] \in {"log", "relock", "install"}
      PROVE  phase = "up" /\ \A p \in Ops \ {o} : pc[p] \notin {"log", "relock", "install"}
  BY <1>3, <1>0 DEF ControlInv, Committing
<1>4. CASE UNCHANGED vars
  BY <1>4, <1>2 DEF vars, disks, logmem
<1>5. ASSUME NEW o \in Ops, begin_op(o) PROVE DiskInv'
  BY <1>5, <1>2, <1>1 DEF begin_op, logmem
<1>6. ASSUME NEW o \in Ops, BeginRun(o) PROVE DiskInv'
  BY <1>6, <1>2, <1>1 DEF BeginRun
<1>7. ASSUME NEW o \in Ops, BeginBlock(o) PROVE DiskInv'
  BY <1>7, <1>2, <1>1 DEF BeginBlock, logmem
<1>8. ASSUME NEW o \in Ops, BeginWait(o) PROVE DiskInv'
  BY <1>8, <1>2, <1>1 DEF BeginWait, WaitSem, logmem
<1>9. ASSUME NEW o \in Ops, EndWait(o) PROVE DiskInv'
  BY <1>9, <1>2, <1>1 DEF EndWait, WaitSem, logmem
<1>10. ASSUME NEW o \in Ops, BeginKilled(o) \/ EndKilled(o) PROVE FALSE
  BY <1>10, <1>0, NoKilled DEF BeginKilled, EndKilled
<1>11. ASSUME NEW o \in Ops, NEW b \in Blocks, NEW v \in Vals, sync(o, b, v) PROVE DiskInv'
  <2>1. phase = "up" /\ \A p \in Ops : pc[p] \notin {"log", "relock", "install"}
    BY <1>11, <1>0 DEF sync, ControlInv, Running, Committing
  <2>2. NoDup(header') /\ Elems(header') = Elems(header) \cup {b}
    BY <1>11, <1>1, LoggedFacts DEF sync
  <2>3. /\ phase' = phase /\ disk' = disk /\ disk_header' = disk_header /\ pc' = pc
        /\ cache' = [cache EXCEPT ![b] = v]
    BY <1>11 DEF sync, disks
  <2>4. ASSUME NEW c \in Blocks \ Elems(header') PROVE disk'[c] = cache'[c]
    <3>1. c # b /\ c \in Blocks \ Elems(header)
      BY <2>2
    <3>. QED BY <3>1, <2>1, <2>3, <1>1, <1>0 DEF DiskInv
  <2>5. disk_header' = <<>>
    BY <2>1, <2>3, <1>0 DEF DiskInv
  <2>. QED BY <2>1, <2>2, <2>3, <2>4, <2>5 DEF DiskInv, NoDup
<1>12. ASSUME NEW o \in Ops, SyncPanic(o) \/ EndPanic(o) PROVE DiskInv'
  BY <1>12, <1>2, <1>1 DEF SyncPanic, EndPanic, Panic
<1>13. ASSUME NEW o \in Ops, EndOthers(o) PROVE DiskInv'
  <2>1. \A p \in Ops : Resumed(pc[p]) = pc[p] \/ {Resumed(pc[p]), pc[p]} \cap {"log", "relock", "install"} = {}
    BY DEF Resumed
  <2>. QED BY <2>1, <1>13, <1>2, <1>1 DEF EndOthers
<1>14. ASSUME NEW o \in Ops, EndLast(o) PROVE DiskInv'
  <2>1. phase = "up" /\ \A p \in Ops : pc[p] \notin {"log", "relock", "install"}
    BY <1>14, <1>0 DEF EndLast, ControlInv, Running, Committing
  <2>2. /\ UNCHANGED <<phase, disks, header, cache>> /\ i' = 1
        /\ \A p \in Ops : pc'[p] \notin {"relock", "install"}
    BY <1>14, <2>1, <1>1 DEF EndLast
  <2>3. InLog(i, cache)'
    BY <2>2, <1>1 DEF InLog
  <2>. QED BY <2>1, <2>2, <2>3, <1>0 DEF DiskInv, disks
<1>15. ASSUME NEW o \in Ops, CommitLog(o) PROVE DiskInv'
  <2>1. /\ phase = "up" /\ pc[o] = "log" /\ i \in 1..Len(header)
        /\ \A p \in Ops : pc[p] \notin {"relock", "install"}
    BY <1>15, <1>3, <1>1 DEF CommitLog
  <2>2. /\ UNCHANGED <<phase, disk, disk_header, header, cache, pc>> /\ i' = i + 1
        /\ log_blocks' = [log_blocks EXCEPT ![i] = cache[header[i]]]
    BY <1>15 DEF CommitLog, logmem
  <2>3. InLog(i, cache) /\ i \in 1..LogMax
    BY <2>1, <1>0, <1>1 DEF DiskInv
  <2>4. \A k \in 1..Len(header) : k < i + 1 => log_blocks'[k] = cache[header[k]]
    BY <2>1, <2>2, <2>3, <1>1 DEF InLog
  <2>5. InLog(i, cache)'
    BY <2>2, <2>4 DEF InLog
  <2>. QED BY <2>1, <2>2, <2>5, <1>0 DEF DiskInv
<1>16. ASSUME NEW o \in Ops, CommitHeader(o) PROVE DiskInv'
  <2>1. /\ phase = "up" /\ InLog(i, cache) /\ i > Len(header)
        /\ \A p \in Ops \ {o} : pc[p] \notin {"log", "relock", "install"}
    BY <1>16, <1>3, <1>0 DEF CommitHeader, DiskInv
  <2>2. /\ UNCHANGED <<phase, disk, log_blocks, header, cache>> /\ i' = 1 /\ disk_header' = header
        /\ pc'[o] = "relock" /\ \A p \in Ops \ {o} : pc'[p] = pc[p]
    BY <1>16, <1>1 DEF CommitHeader, logmem
  <2>3. InLog(Len(header) + 1, cache)
    BY <2>1, <1>1 DEF InLog
  <2>4. InLog(Len(header) + 1, cache)' /\ InPlace(i, log_blocks)'
    BY <2>2, <2>3, <1>1 DEF InLog, InPlace
  <2>. QED BY <2>1, <2>2, <2>4, <1>0, <1>1 DEF DiskInv
<1>16a. ASSUME NEW o \in Ops, CommitLock(o) PROVE DiskInv'
  <2>1. /\ UNCHANGED <<phase, disks, header, cache, i>>
        /\ pc[o] = "relock" /\ pc'[o] = "install" /\ \A p \in Ops \ {o} : pc'[p] = pc[p]
    BY <1>16a, <1>1 DEF CommitLock, logmem
  <2>2. \A p \in Ops : /\ pc'[p] = "log" <=> pc[p] = "log"
                       /\ pc'[p] \in {"relock", "install"} <=> pc[p] \in {"relock", "install"}
    BY <2>1
  <2>. QED BY <2>1, <2>2, <1>0 DEF DiskInv, InLog, InPlace, disks
<1>17. ASSUME NEW o \in Ops, CommitInstall(o) PROVE DiskInv'
  <2>1. /\ phase = "up" /\ pc[o] = "install" /\ i \in 1..Len(header)
        /\ \A p \in Ops : pc[p] # "log"
        /\ disk_header = header /\ InLog(Len(header) + 1, cache) /\ InPlace(i, log_blocks)
    BY <1>17, <1>3, <1>0, <1>1 DEF CommitInstall, DiskInv
  <2>2. /\ UNCHANGED <<phase, log_blocks, disk_header, header, cache, pc>> /\ i' = i + 1
        /\ disk' = [disk EXCEPT ![header[i]] = cache[header[i]]]
    BY <1>17 DEF CommitInstall, logmem
  <2>3. \A k \in 1..Len(header) : k < i + 1 => disk'[header[k]] = log_blocks[k]
    BY <2>1, <2>2, <1>1 DEF InPlace, InLog, NoDup
  <2>4. InPlace(i, log_blocks)' /\ InLog(Len(header) + 1, cache)'
    BY <2>1, <2>2, <2>3 DEF InPlace, InLog
  <2>5. \A b \in Blocks \ Elems(header) : disk'[b] = cache[b]
    BY <2>1, <2>2, <1>0, <1>1 DEF DiskInv
  <2>. QED BY <2>1, <2>2, <2>4, <2>5, <1>1 DEF DiskInv
<1>18. ASSUME NEW o \in Ops, CommitEnd(o) PROVE DiskInv'
  <2>1. /\ phase = "up" /\ i > Len(header) /\ InLog(Len(header) + 1, cache) /\ InPlace(i, log_blocks)
        /\ \A b \in Blocks \ Elems(header) : disk[b] = cache[b]
    BY <1>18, <1>3, <1>0 DEF CommitEnd, DiskInv
  <2>2. \A k \in 1..Len(header) : disk[header[k]] = cache[header[k]]
    BY <2>1, <1>1 DEF InLog, InPlace
  <2>3. \A b \in Blocks : disk[b] = cache[b]
    BY <2>1, <2>2 DEF Elems
  <2>4. \A p \in Ops : pc'[p] \notin {"log", "relock", "install"}
    <3>1. pc[o] = "install" /\ Committing' = Committing \ {o}
      BY <1>18, <1>0, WakeAllFacts DEF CommitEnd
    <3>2. Committing = {o}
      BY <3>1, <1>3 DEF Committing
    <3>. QED BY <3>1, <3>2 DEF Committing
  <2>5. phase' = phase /\ disk' = disk /\ cache' = cache /\ header' = <<>> /\ disk_header' = <<>>
    BY <1>18 DEF CommitEnd
  <2>. QED BY <2>1, <2>3, <2>4, <2>5 DEF DiskInv, NoDup
<1>19. CASE Crash
  BY <1>19, <1>1 DEF Crash, DiskInv, NoDup, disks
<1>20. CASE read_header
  <2>1. /\ UNCHANGED disks /\ phase' = "restore" /\ header' = disk_header /\ cache' = disk'
        /\ i' = 1 /\ \A p \in Ops : pc'[p] = "idle"
    BY <1>20, <1>0 DEF read_header, DiskInv, ControlInv, disks
  <2>2. InPlace(i, log_blocks)'
    BY <2>1 DEF InPlace
  <2>. QED BY <2>1, <2>2, <1>1 DEF DiskInv, disks
<1>21. CASE Restore
  <2>1. /\ phase = "restore" /\ i \in 1..Len(header) /\ header = disk_header /\ InPlace(i, log_blocks)
        /\ cache = disk /\ \A p \in Ops : pc[p] = "idle"
    BY <1>21, <1>0, <1>1 DEF Restore, DiskInv, ControlInv
  <2>2. /\ UNCHANGED <<phase, log_blocks, disk_header, header, pc>> /\ i' = i + 1
        /\ disk' = [disk EXCEPT ![header[i]] = log_blocks[i]] /\ cache' = disk'
    BY <1>21, <2>1 DEF Restore, logmem
  <2>3. \A k \in 1..Len(header) : k < i + 1 => disk'[header[k]] = log_blocks[k]
    BY <2>1, <2>2, <1>1 DEF InPlace, NoDup
  <2>4. InPlace(i, log_blocks)'
    BY <2>2, <2>3 DEF InPlace
  <2>. QED BY <2>1, <2>2, <2>4, <1>1 DEF DiskInv
<1>22. CASE RestoreEnd
  <2>1. cache = disk /\ \A p \in Ops : pc[p] = "idle"
    BY <1>22, <1>0 DEF RestoreEnd, DiskInv, ControlInv
  <2>. QED BY <2>1, <1>22 DEF RestoreEnd, DiskInv, NoDup
<1>. QED BY <1>4, <1>5, <1>6, <1>7, <1>8, <1>9, <1>10, <1>11, <1>12, <1>13, <1>14, <1>15, <1>16,
            <1>16a, <1>17, <1>18, <1>19, <1>20, <1>21, <1>22 DEF Next, OpStep, Recover

-----------------------------------------------------------------------------
(* What holds through any kills.                                           *)

\* Every step keeps the headers short and without duplicates.
LEMMA HeaderNext ==
  ASSUME TypeOK, HeaderInv, [Next]_vars
  PROVE  HeaderInv'
<1> USE LogAssumption
<1>0. /\ header \in Seq(Blocks) /\ Len(header) \in Nat /\ NoDup(header) /\ NoDup(disk_header)
      /\ Len(header) <= LogMax /\ Len(disk_header) <= LogMax
  BY DEF TypeOK, HeaderInv
<1>1. ASSUME NEW o \in Ops, NEW b \in Blocks, NEW v \in Vals, sync(o, b, v) PROVE HeaderInv'
  <2>1. header' = Logged(b) /\ disk_header' = disk_header
    BY <1>1 DEF sync, disks
  <2>2. NoDup(header')
    BY <1>0, <2>1, LoggedFacts
  <2>3. Len(header') <= LogMax
    <3>1. header' = header \/ (header' = Append(header, b) /\ Len(header) < LogMax)
      BY <1>1 DEF sync, Logged
    <3>. QED BY <1>0, <3>1
  <2>. QED BY <1>0, <2>1, <2>2, <2>3 DEF HeaderInv
<1>2. ASSUME UNCHANGED <<header, disk_header>> PROVE HeaderInv'
  BY <1>0, <1>2 DEF HeaderInv
<1>3. ASSUME NEW o \in Ops, CommitHeader(o) PROVE HeaderInv'
  BY <1>0, <1>3 DEF CommitHeader, HeaderInv, logmem
<1>4. ASSUME (\E o \in Ops : CommitEnd(o)) \/ RestoreEnd \/ Crash PROVE HeaderInv'
  <2>1. header' = <<>> /\ (disk_header' = <<>> \/ disk_header' = disk_header)
    BY <1>4 DEF CommitEnd, RestoreEnd, Crash, disks
  <2>. QED BY <1>0, <2>1 DEF HeaderInv, NoDup
<1>5. CASE read_header
  BY <1>0, <1>5 DEF read_header, HeaderInv, disks
<1>6. ASSUME NEW o \in Ops,
             \/ begin_op(o) \/ BeginRun(o) \/ BeginBlock(o) \/ BeginWait(o) \/ BeginKilled(o)
             \/ SyncPanic(o) \/ EndPanic(o) \/ EndOthers(o) \/ EndWait(o) \/ EndKilled(o)
             \/ EndLast(o) \/ CommitLog(o) \/ CommitLock(o) \/ CommitInstall(o)
      PROVE  UNCHANGED <<header, disk_header>>
  BY <1>6 DEF begin_op, BeginRun, BeginBlock, BeginWait, BeginKilled, SyncPanic, EndPanic, Panic,
              EndOthers, EndWait, EndKilled, EndLast, CommitLog, CommitLock, CommitInstall,
              disks, logmem
<1>7. ASSUME UNCHANGED vars \/ Restore PROVE UNCHANGED <<header, disk_header>>
  BY <1>7 DEF vars, Restore, disks, logmem
<1>. QED BY <1>1, <1>2, <1>3, <1>4, <1>5, <1>6, <1>7 DEF Next, OpStep, Recover

\* Until the file system is up, only a recovery or a crash can happen.
LEMMA OnlyRecovery ==
  ASSUME RestartInv, phase # "up", Next
  PROVE  Recover \/ Crash
<1>1. \A o \in Ops : pc[o] = "idle"
  BY DEF RestartInv
<1>. QED BY <1>1 DEF Next, OpStep, begin_op, BeginRun, BeginBlock, BeginWait, BeginKilled, sync,
                     SyncPanic, EndPanic, EndOthers, EndWait, EndKilled, EndLast, CommitLog,
                     CommitHeader, CommitLock, CommitInstall, CommitEnd

\* Every step keeps a recovery on its way.
LEMMA RestartNext ==
  ASSUME TypeOK, HeaderInv, RestartInv, [Next]_vars
  PROVE  RestartInv'
<1>0. /\ header \in Seq(Blocks) /\ Len(header) \in Nat /\ i \in Nat \ {0} /\ NoDup(header)
      /\ disk \in [Blocks -> Vals]
  BY DEF TypeOK, HeaderInv
<1>1. CASE UNCHANGED vars
  BY <1>1 DEF vars, disks, logmem, RestartInv, InPlace
<1>2. CASE phase = "up" /\ Next
  <2>1. CASE Crash
    BY <2>1 DEF Crash, RestartInv
  <2>2. CASE ~Crash
    <3>1. phase' = "up"
      BY <1>2, <2>2 DEF Next, OpStep, Recover, begin_op, BeginRun, BeginBlock, BeginWait,
            BeginKilled, sync, SyncPanic, EndPanic, Panic, EndOthers, EndWait, EndKilled, EndLast,
            CommitLog, CommitHeader, CommitLock, CommitInstall, CommitEnd, read_header, Restore,
            RestoreEnd
    <3>. QED BY <3>1 DEF RestartInv
  <2>. QED BY <2>1, <2>2
<1>3. CASE Crash
  BY <1>3 DEF Crash, RestartInv
<1>4. CASE read_header
  BY <1>4 DEF read_header, RestartInv, InPlace, disks
<1>5. CASE Restore
  <2>1. /\ phase = "restore" /\ i \in 1..Len(header) /\ header = disk_header /\ InPlace(i, log_blocks)
        /\ \A p \in Ops : pc[p] = "idle"
    BY <1>0, <1>5 DEF Restore, RestartInv
  <2>2. /\ UNCHANGED <<phase, log_blocks, disk_header, header, pc>> /\ i' = i + 1
        /\ disk' = [disk EXCEPT ![header[i]] = log_blocks[i]]
    BY <1>5 DEF Restore, logmem
  <2>3. \A k \in 1..Len(header) : k < i + 1 => disk'[header[k]] = log_blocks[k]
    BY <1>0, <2>1, <2>2 DEF InPlace, NoDup
  <2>4. InPlace(i, log_blocks)'
    BY <2>2, <2>3 DEF InPlace
  <2>. QED BY <2>1, <2>2, <2>4 DEF RestartInv
<1>6. CASE RestoreEnd
  BY <1>6 DEF RestoreEnd, RestartInv
<1>. QED BY <1>1, <1>2, <1>3, <1>4, <1>5, <1>6, OnlyRecovery DEF Recover

\* How a step changes the pc of the processes: those it wakes go on with begin_op
\* or return from end_op, and at most the process that takes it changes otherwise.
Stays(p) == pc'[p] = pc[p] \/ (pc[p] \in {"begin_sleep", "end_sleep"} /\ pc'[p] \in {"begin", "idle"})

\* The steps of one operation that leave the others where they are.
LEMMA StaysFacts ==
  ASSUME TypeOK, NEW o \in Ops,
         \/ (\E at : pc' = [pc EXCEPT ![o] = at]) \/ EndOthers(o) \/ CommitEnd(o) \/ pc' = pc
  PROVE  \A p \in Ops \ {o} : Stays(p)
<1>0. \A p : \/ pc[p] \in {"begin_sleep", "end_sleep"} /\ Resumed(pc[p]) \in {"begin", "idle"}
             \/ Resumed(pc[p]) = pc[p]
  BY DEF Resumed
<1>1. CASE \E at : pc' = [pc EXCEPT ![o] = at]
  BY <1>1 DEF TypeOK, Stays
<1>2. CASE EndOthers(o)
  <2> DEFINE w == Oldest(sleeplist)
  <2>1. CASE pc' = [pc EXCEPT ![o] = "end_wait"]
    BY <2>1 DEF TypeOK, Stays
  <2>2. CASE pc' = [pc EXCEPT ![w] = Resumed(@), ![o] = "end_wait"]
    <3> HIDE DEF w
    <3>1. \A p \in Ops \ {o} : pc'[p] = IF p = w THEN Resumed(pc[p]) ELSE pc[p]
      BY <2>2 DEF TypeOK
    <3>. QED BY <1>0, <3>1 DEF Stays
  <2>. QED BY <1>2, <2>1, <2>2 DEF EndOthers
<1>3. CASE CommitEnd(o)
  <2>1. \A p \in Ops \ {o} : pc'[p] = Resumed(pc[p])
    BY <1>3 DEF CommitEnd
  <2>. QED BY <1>0, <2>1 DEF Stays
<1>4. CASE pc' = pc
  BY <1>4 DEF Stays
<1>. QED BY <1>1, <1>2, <1>3, <1>4

\* What each step does to the process that takes it.
LEMMA StepFacts ==
  ASSUME TypeOK, NEW o \in Ops, begin_op(o) \/ OpStep(o)
  PROVE  /\ \A p \in Ops \ {o} : Stays(p)
         /\ pc'[o] \in Pcs
         /\ \/ /\ lock' = lock /\ pc'[o] \notin {"end_wait", "install"}
               /\ pc[o] \notin {"end_wait", "install"}
            \/ lock' = lock /\ pc'[o] = pc[o]
            \/ lock = None /\ lock' = o
            \/ lock' = None /\ pc[o] \in {"end_wait", "install"}
                            /\ pc'[o] \notin {"end_wait", "install"}
         /\ pc'[o] # "panic" =>
              \/ /\ outstanding' = outstanding /\ committing' = committing
                 /\ pc[o] = "run" <=> pc'[o] = "run"
                 /\ pc'[o] \in {"end_wait", "end_sleep"} => pc[o] \in {"end_wait", "end_sleep"}
              \/ /\ outstanding' = outstanding + 1 /\ committing' = committing
                 /\ pc[o] # "run" /\ pc'[o] = "run"
              \/ /\ outstanding' = outstanding /\ committing' = committing
                 /\ pc[o] # "run" /\ pc'[o] = "run"
              \/ /\ outstanding' = outstanding - 1 /\ committing' = committing
                 /\ outstanding > 1 /\ pc[o] = "run" /\ pc'[o] = "end_wait"
              \/ /\ outstanding' = outstanding - 1 /\ committing'
                 /\ pc[o] = "run" /\ pc'[o] = "log"
              \/ /\ outstanding' = outstanding /\ pc[o] = "install" /\ pc'[o] = "idle"
                 /\ \A p \in Ops : pc'[p] # "end_sleep"
<1>0. pc \in [Ops -> Pcs]
  BY DEF TypeOK
<1> USE PcsFacts
<1>1. CASE begin_op(o)
  BY <1>0, <1>1, StaysFacts DEF begin_op, logmem
<1>2. CASE BeginRun(o)
  BY <1>0, <1>2, StaysFacts DEF BeginRun
<1>3. CASE BeginBlock(o)
  BY <1>0, <1>3, StaysFacts DEF BeginBlock, logmem
<1>4. CASE BeginWait(o)
  <2>1. PICK at \in {"begin", "begin_sleep"} : pc' = [pc EXCEPT ![o] = at]
    BY <1>4 DEF BeginWait, WaitSem
  <2>. QED BY <1>0, <1>4, <2>1, StaysFacts DEF BeginWait, logmem
<1>5. CASE BeginKilled(o)
  BY <1>0, <1>5, StaysFacts DEF BeginKilled, Killed, logmem
<1>6. ASSUME NEW b \in Blocks, NEW v \in Vals, sync(o, b, v)
      PROVE  pc' = pc /\ lock' = lock /\ outstanding' = outstanding /\ committing' = committing
  BY <1>6 DEF sync
<1>7. CASE SyncPanic(o)
  BY <1>0, <1>7, StaysFacts DEF SyncPanic, Panic
<1>8. CASE EndPanic(o)
  BY <1>0, <1>8, StaysFacts DEF EndPanic, Panic
<1>9. CASE EndOthers(o)
  <2>1. pc'[o] = "end_wait"
    <3> DEFINE w == Oldest(sleeplist)
    <3>1. CASE pc' = [pc EXCEPT ![o] = "end_wait"]
      BY <1>0, <3>1
    <3>2. CASE pc' = [pc EXCEPT ![w] = Resumed(@), ![o] = "end_wait"]
      <4> HIDE DEF w
      <4>. QED BY <1>0, <3>2
    <3>. QED BY <1>9, <3>1, <3>2 DEF EndOthers
  <2>. QED BY <1>9, <2>1, StaysFacts DEF EndOthers
<1>10. CASE EndWait(o)
  <2>1. PICK at \in {"idle", "end_sleep"} : pc' = [pc EXCEPT ![o] = at]
    BY <1>10 DEF EndWait, WaitSem
  <2>. QED BY <1>0, <1>10, <2>1, StaysFacts DEF EndWait, logmem
<1>11. CASE EndKilled(o)
  BY <1>0, <1>11, StaysFacts DEF EndKilled, Killed, logmem
<1>12. CASE EndLast(o)
  BY <1>0, <1>12, StaysFacts DEF EndLast
<1>13. CASE CommitLog(o) \/ CommitInstall(o)
  BY <1>0, <1>13, StaysFacts DEF CommitLog, CommitInstall, logmem
<1>14. CASE CommitHeader(o)
  BY <1>0, <1>14, StaysFacts DEF CommitHeader, logmem
<1>15. CASE CommitLock(o)
  BY <1>0, <1>15, StaysFacts DEF CommitLock, logmem
<1>16. CASE CommitEnd(o)
  <2>1. /\ pc[o] = "install" /\ pc'[o] = "idle" /\ lock' = None /\ outstanding' = outstanding
        /\ \A p \in Ops : p # o => pc'[p] = Resumed(pc[p])
    BY <1>16 DEF CommitEnd
  <2>2. \A p \in Ops : pc'[p] # "end_sleep"
    BY <2>1 DEF Resumed
  <2>. QED BY <1>16, <2>1, <2>2, StaysFacts
<1>17. CASE \E b \in Blocks, v \in Vals : sync(o, b, v)
  BY <1>0, <1>6, <1>17, StaysFacts
<1>. QED BY <1>1, <1>2, <1>3, <1>4, <1>5, <1>7, <1>8, <1>9, <1>10, <1>11, <1>12, <1>13, <1>14,
            <1>15, <1>16, <1>17 DEF OpStep

\* Every step keeps the lock with its holder.
LEMMA LockNext ==
  ASSUME TypeOK, LockInv, [Next]_vars
  PROVE  LockInv'
<1>1. ASSUME NEW o \in Ops, begin_op(o) \/ OpStep(o) PROVE LockInv'
  <2>1. \A p \in Ops \ {o} : pc'[p] \in {"end_wait", "install"} => lock = p /\ pc[p] = pc'[p]
    BY <1>1, StepFacts DEF Stays, LockInv
  <2>2. pc[o] \in {"end_wait", "install"} => lock = o
    BY DEF LockInv
  <2>. QED BY <1>1, <2>1, <2>2, StepFacts, LogAssumption DEF LockInv
<1>2. CASE UNCHANGED vars \/ Recover
  BY <1>2 DEF vars, Recover, read_header, Restore, RestoreEnd, LockInv
<1>3. CASE Crash
  BY <1>3 DEF Crash, LockInv
<1>. QED BY <1>1, <1>2, <1>3 DEF Next

\* Every step keeps an operation running, or a commit, while one waits in end_op.
LEMMA StrandNext ==
  ASSUME TypeOK, TypeOK', LockInv, StrandInv, [Next]_vars
  PROVE  StrandInv'
<1>0. IsFiniteSet(Running) /\ Cardinality(Running) \in Nat /\ outstanding \in Int
  BY LogAssumption, FS_Subset, FS_CardinalityType DEF Running, TypeOK
<1>1. ASSUME NEW o \in Ops, begin_op(o) \/ OpStep(o), Unpanicked'
      PROVE  /\ outstanding' <= Cardinality(Running')
             /\ (\E p \in Ops : pc'[p] \in {"end_wait", "end_sleep"}) => committing' \/ Running' # {}
  <2>1. \A p \in Ops \ {o} : /\ pc'[p] = "run" <=> pc[p] = "run"
                             /\ pc'[p] \in {"end_wait", "end_sleep"} => pc'[p] = pc[p]
                             /\ pc[p] = "panic" => pc'[p] = "panic"
    BY <1>1, StepFacts DEF Stays
  <2>2. pc'[o] # "panic" /\ pc[o] # "panic"
    <3>1. pc'[o] # "panic"
      BY <1>1 DEF Unpanicked
    <3>2. pc[o] # "panic"
      BY <1>1 DEF begin_op, OpStep, BeginRun, BeginBlock, BeginWait, BeginKilled, sync, SyncPanic,
                  EndPanic, EndOthers, EndWait, EndKilled, EndLast, CommitLog, CommitHeader,
                  CommitLock, CommitInstall, CommitEnd
    <3>. QED BY <3>1, <3>2
  <2>3. Unpanicked
    BY <1>1, <2>1, <2>2 DEF Unpanicked
  <2>4. /\ outstanding <= Cardinality(Running)
        /\ (\E p \in Ops : pc[p] \in {"end_wait", "end_sleep"}) => committing \/ Running # {}
    BY <2>3 DEF StrandInv
  <2>5. /\ pc[o] = "run" /\ pc'[o] = "run" => Running' = Running
        /\ pc[o] # "run" /\ pc'[o] # "run" => Running' = Running
        /\ pc[o] = "run" /\ pc'[o] # "run" => Running' = Running \ {o} /\ o \in Running
        /\ pc[o] # "run" /\ pc'[o] = "run" => Running' = Running \cup {o} /\ o \notin Running
    BY <2>1 DEF Running
  <2>6. /\ pc[o] = "run" /\ pc'[o] # "run" => Cardinality(Running') = Cardinality(Running) - 1
        /\ pc[o] # "run" /\ pc'[o] = "run" => Cardinality(Running') = Cardinality(Running) + 1
    BY <1>0, <2>5, FS_AddElement, FS_RemoveElement
  <2>7. CASE /\ outstanding' = outstanding /\ committing' = committing
             /\ pc[o] = "run" <=> pc'[o] = "run"
             /\ pc'[o] \in {"end_wait", "end_sleep"} => pc[o] \in {"end_wait", "end_sleep"}
    <3>1. Running' = Running
      BY <2>5, <2>7
    <3>2. \A p \in Ops : pc'[p] \in {"end_wait", "end_sleep"} => pc[p] \in {"end_wait", "end_sleep"}
      BY <2>1, <2>7
    <3>. QED BY <2>4, <2>7, <3>1, <3>2
  <2>8. CASE (outstanding' = outstanding + 1 \/ outstanding' = outstanding)
             /\ pc[o] # "run" /\ pc'[o] = "run"
    BY <1>0, <2>4, <2>5, <2>6, <2>8
  <2>9. CASE /\ outstanding' = outstanding - 1 /\ outstanding > 1
             /\ pc[o] = "run" /\ pc'[o] = "end_wait"
    <3>1. Cardinality(Running') = Cardinality(Running) - 1 /\ Cardinality(Running) > 1
      BY <1>0, <2>4, <2>6, <2>9
    <3>2. Cardinality(Running') # 0
      BY <1>0, <3>1
    <3>3. Running' # {}
      BY <3>2, FS_EmptySet
    <3>. QED BY <1>0, <2>4, <2>9, <3>1, <3>3
  <2>10. CASE outstanding' = outstanding - 1 /\ committing' /\ pc[o] = "run" /\ pc'[o] = "log"
    BY <1>0, <2>4, <2>6, <2>10
  <2>11. CASE /\ outstanding' = outstanding /\ pc[o] = "install" /\ pc'[o] = "idle"
              /\ \A p \in Ops : pc'[p] # "end_sleep"
    <3>1. Running' = Running
      BY <2>5, <2>11
    <3>2. \A p \in Ops : pc'[p] # "end_wait"
      BY <2>1, <2>11 DEF LockInv
    <3>. QED BY <2>4, <2>11, <3>1, <3>2
  <2>. QED BY <1>1, <2>2, <2>7, <2>8, <2>9, <2>10, <2>11, StepFacts
<1>2. CASE UNCHANGED vars \/ Recover
  <2>1. pc' = pc /\ outstanding' = outstanding /\ committing' = committing
    BY <1>2 DEF vars, logmem, Recover, read_header, Restore, RestoreEnd
  <2>. QED BY <2>1 DEF StrandInv, Unpanicked, Running
<1>3. CASE Crash
  <2>1. outstanding' = 0 /\ Running' = {} /\ \A p \in Ops : pc'[p] = "idle"
    BY <1>3 DEF Crash, Running
  <2>2. Cardinality(Running') = 0
    BY <2>1, FS_EmptySet
  <2>. QED BY <2>1, <2>2 DEF StrandInv
<1>4. ASSUME NEW o \in Ops, begin_op(o) \/ OpStep(o) PROVE StrandInv'
  BY <1>1, <1>4 DEF StrandInv
<1>. QED BY <1>2, <1>3, <1>4 DEF Next

\* The invariant that holds through any kills.
THEOREM LogBaseInvariant == Spec => []BaseInv
<1>1. Init => BaseInv
  <2> SUFFICES ASSUME Init PROVE BaseInv
    OBVIOUS
  <2>1. TypeOK /\ SleepInv /\ HeaderInv
    BY LogInvInit, LogHeader DEF LogInv
  <2>2. RestartInv /\ LockInv
    BY DEF Init, RestartInv, LockInv
  <2>3. StrandInv
    <3>1. Running = {} /\ outstanding = 0 /\ \A o \in Ops : pc[o] = "idle"
      BY DEF Init, Running
    <3>2. Cardinality(Running) = 0
      BY <3>1, FS_EmptySet
    <3>. QED BY <3>1, <3>2 DEF StrandInv
  <2>. QED BY <2>1, <2>2, <2>3 DEF BaseInv
<1>2. BaseInv /\ [Next]_vars => BaseInv'
  <2> SUFFICES ASSUME BaseInv, [Next]_vars PROVE BaseInv'
    OBVIOUS
  <2>1. TypeOK'
    BY TypeNext DEF BaseInv
  <2>. QED BY <2>1, SleepNext, HeaderNext, RestartNext, LockNext, StrandNext DEF BaseInv
<1>. QED BY <1>1, <1>2, PTL DEF Spec

-----------------------------------------------------------------------------
(* What is durable.                                                        *)

\* A recovery gives the blocks in the header on disk their logged contents and
\* leaves the others.
LEMMA DurableFacts ==
  ASSUME TypeOK, HeaderInv
  PROVE  /\ \A k \in 1..Len(disk_header) : Durable[disk_header[k]] = log_blocks[k]
         /\ \A b \in Blocks \ Elems(disk_header) : Durable[b] = disk[b]
<1>1. NoDup(disk_header) /\ disk_header \in Seq(Blocks)
  BY DEF HeaderInv, TypeOK
<1>2. ASSUME NEW k \in 1..Len(disk_header) PROVE Durable[disk_header[k]] = log_blocks[k]
  <2> DEFINE at == CHOOSE n \in 1..Len(disk_header) : disk_header[n] = disk_header[k]
  <2>1. at \in 1..Len(disk_header) /\ disk_header[at] = disk_header[k]
    OBVIOUS
  <2>2. at = k
    BY <2>1, <1>1 DEF NoDup
  <2>3. disk_header[k] \in Blocks
    BY <1>1
  <2>4. Durable[disk_header[k]] = log_blocks[at]
    BY <2>3 DEF Durable
  <2>. QED BY <2>2, <2>4
<1>3. ASSUME NEW b \in Blocks \ Elems(disk_header) PROVE Durable[b] = disk[b]
  BY DEF Durable, Elems
<1>. QED BY <1>2, <1>3

\* Once the blocks of the header are restored, what is durable is what is on disk.
LEMMA RestoredFacts ==
  ASSUME TypeOK, HeaderInv, RestartInv, phase = "restore", i > Len(header)
  PROVE  Durable = disk
<1>1. disk_header \in Seq(Blocks) /\ disk \in [Blocks -> Vals] /\ i \in Nat
  BY DEF TypeOK
<1>2. header = disk_header /\ InPlace(i, log_blocks)
  BY DEF RestartInv
<1>3. ASSUME NEW b \in Blocks PROVE Durable[b] = disk[b]
  <2>1. CASE b \notin Elems(disk_header)
    BY <2>1, DurableFacts
  <2>2. CASE b \in Elems(disk_header)
    <3>1. PICK k \in 1..Len(disk_header) : disk_header[k] = b
      BY <2>2, <1>1 DEF Elems
    <3>2. Durable[b] = log_blocks[k]
      BY <3>1, DurableFacts
    <3>3. k < i
      BY <3>1, <1>1, <1>2
    <3>. QED BY <3>1, <3>2, <3>3, <1>2 DEF InPlace
  <2>. QED BY <2>1, <2>2
<1>. QED BY <1>1, <1>3 DEF Durable

\* The next state's durable contents, read off its header.
LEMMA DurableFactsNext ==
  ASSUME TypeOK', HeaderInv'
  PROVE  /\ \A k \in 1..Len(disk_header') : Durable'[disk_header'[k]] = log_blocks'[k]
         /\ \A b \in Blocks \ Elems(disk_header') : Durable'[b] = disk'[b]
<1>1. (TypeOK /\ HeaderInv)' =>
          (/\ \A k \in 1..Len(disk_header) : Durable[disk_header[k]] = log_blocks[k]
           /\ \A b \in Blocks \ Elems(disk_header) : Durable[b] = disk[b])'
  BY DurableFacts, PTL
<1>. QED BY <1>1 DEF Elems

\* A recovery changes nothing of what is durable, a crash neither.
LEMMA RecoverDurable ==
  ASSUME TypeOK, HeaderInv, RestartInv, TypeOK', HeaderInv', Recover \/ Crash
  PROVE  Durable' = Durable
<1>1. /\ disk_header \in Seq(Blocks) /\ header \in Seq(Blocks) /\ Len(header) \in Nat
      /\ i \in Nat \ {0} /\ disk \in [Blocks -> Vals]
  BY DEF TypeOK
<1>2. Durable = [b \in Blocks |-> Durable[b]] /\ Durable' = [b \in Blocks |-> Durable'[b]]
  BY DEF Durable
<1>3. CASE read_header \/ Crash
  <2>1. UNCHANGED disks
    BY <1>3 DEF read_header, Crash
  <2>. QED BY <2>1 DEF disks, Durable
<1>4. CASE Restore
  <2>1. /\ disk_header = header /\ disk_header' = header /\ log_blocks' = log_blocks
        /\ i \in 1..Len(header) /\ \A b \in Blocks \ Elems(header) : disk'[b] = disk[b]
    BY <1>4, <1>1 DEF Restore, RestartInv, Elems
  <2>2. \A b \in Blocks : Durable'[b] = Durable[b]
    BY <2>1, DurableFacts, DurableFactsNext DEF Elems
  <2>. QED BY <2>2, <1>2
<1>5. CASE RestoreEnd
  <2>1. disk_header' = <<>> /\ disk' = disk /\ Durable = disk
    BY <1>5, RestoredFacts DEF RestoreEnd
  <2>2. \A b \in Blocks : Durable'[b] = disk[b]
    BY <2>1, DurableFactsNext DEF Elems
  <2>. QED BY <2>1, <2>2, <1>2
<1>. QED BY <1>3, <1>4, <1>5 DEF Recover

\* Only the commit point changes what is durable: it becomes what is cached.
LEMMA DurableNext ==
  ASSUME kills' = 0, LogInv, LogInv', [Next]_vars
  PROVE  IF \E o \in Ops : CommitHeader(o) THEN Durable' = cache ELSE Durable' = Durable
<1>0. /\ TypeOK /\ TypeOK' /\ DiskInv /\ DiskInv' /\ ControlInv
  BY DEF LogInv
<1>1. /\ disk_header \in Seq(Blocks) /\ header \in Seq(Blocks) /\ Len(header) \in Nat
      /\ i \in Nat \ {0} /\ disk \in [Blocks -> Vals] /\ cache \in [Blocks -> Vals]
      /\ NoDup(header)
  <2>1. NoDup(header)
    BY <1>0 DEF DiskInv
  <2>2. TypeOK
    BY <1>0
  <2>. QED BY <2>1, <2>2 DEF TypeOK
<1>2. /\ \A k \in 1..Len(disk_header) : Durable[disk_header[k]] = log_blocks[k]
      /\ \A b \in Blocks \ Elems(disk_header) : Durable[b] = disk[b]
  BY <1>0, LogHeader, DurableFacts
<1>3. /\ \A k \in 1..Len(disk_header') : Durable'[disk_header'[k]] = log_blocks'[k]
      /\ \A b \in Blocks \ Elems(disk_header') : Durable'[b] = disk'[b]
  BY <1>0, LogHeaderNext, DurableFactsNext
<1>4. /\ Durable = [b \in Blocks |-> Durable[b]] /\ Durable' = [b \in Blocks |-> Durable'[b]]
      /\ cache = [b \in Blocks |-> cache[b]]
  BY <1>1 DEF Durable
<1>5. ASSUME \A b \in Blocks : Durable'[b] = Durable[b] PROVE Durable' = Durable
  BY <1>4, <1>5
<1>6. ASSUME UNCHANGED disks PROVE Durable' = Durable
  BY <1>6 DEF disks, Durable
<1>7. ASSUME NEW o \in Ops, CommitLog(o) PROVE Durable' = Durable
  <2>1. \A p \in Ops : pc[p] \notin {"relock", "install"}
    BY <1>7, <1>0 DEF CommitLog, ControlInv, Committing
  <2>2. disk_header = <<>> /\ disk_header' = <<>> /\ disk' = disk
    BY <1>7, <2>1, <1>0 DEF CommitLog, ControlInv, DiskInv
  <2>. QED BY <2>2, <1>2, <1>3, <1>5 DEF Elems
<1>8. ASSUME NEW o \in Ops, CommitHeader(o) PROVE Durable' = cache
  <2>1. /\ phase = "up" /\ disk_header' = header /\ disk' = disk /\ log_blocks' = log_blocks
        /\ i > Len(header) /\ InLog(i, cache) /\ \A b \in Blocks \ Elems(header) : disk[b] = cache[b]
    BY <1>8, <1>0 DEF CommitHeader, ControlInv, DiskInv
  <2>2. \A k \in 1..Len(header) : Durable'[header[k]] = cache[header[k]]
    BY <2>1, <1>1, <1>3 DEF InLog
  <2>3. \A b \in Blocks : Durable'[b] = cache[b]
    BY <2>1, <2>2, <1>3 DEF Elems
  <2>. QED BY <2>3, <1>4
<1>9. ASSUME NEW o \in Ops, CommitInstall(o) PROVE Durable' = Durable
  <2>1. /\ disk_header = header /\ disk_header' = header /\ log_blocks' = log_blocks
        /\ i \in 1..Len(header) /\ \A b \in Blocks \ Elems(header) : disk'[b] = disk[b]
    BY <1>9, <1>0, <1>1 DEF CommitInstall, DiskInv, Elems
  <2>2. \A b \in Blocks : Durable'[b] = Durable[b]
    BY <2>1, <1>2, <1>3 DEF Elems
  <2>. QED BY <2>2, <1>5
<1>10. ASSUME NEW o \in Ops, CommitEnd(o) PROVE Durable' = Durable
  <2>1. /\ disk_header = header /\ disk_header' = <<>> /\ disk' = disk
        /\ i > Len(header) /\ InPlace(i, log_blocks)
    BY <1>10, <1>0 DEF CommitEnd, DiskInv
  <2>2. \A k \in 1..Len(header) : disk[header[k]] = Durable[header[k]]
    BY <2>1, <1>1, <1>2 DEF InPlace
  <2>3. \A b \in Blocks : disk[b] = Durable[b]
    BY <2>1, <2>2, <1>2 DEF Elems
  <2>4. \A b \in Blocks : Durable'[b] = Durable[b]
    BY <2>1, <2>3, <1>3 DEF Elems
  <2>. QED BY <2>4, <1>5
<1>11. ASSUME Recover \/ Crash PROVE Durable' = Durable
  BY <1>0, <1>11, LogHeader, LogHeaderNext, LogRestart, RecoverDurable
<1>13. CASE \E o \in Ops : CommitHeader(o)
  BY <1>13, <1>8
<1>14. CASE UNCHANGED vars
  <2>1. \A o \in Ops : ~CommitHeader(o)
    BY <1>14, <1>0 DEF CommitHeader, vars, TypeOK
  <2>. QED BY <2>1, <1>14, <1>6 DEF vars
<1>15. ASSUME ~\E o \in Ops : CommitHeader(o), Next PROVE Durable' = Durable
  BY <1>15, <1>6, <1>7, <1>9, <1>10, <1>11
     DEF Next, OpStep, begin_op, BeginRun, BeginBlock, BeginWait, BeginKilled, sync,
         SyncPanic, EndPanic, Panic, EndOthers, EndWait, EndKilled, EndLast, CommitLock
<1>. QED BY <1>13, <1>14, <1>15

-----------------------------------------------------------------------------
(* The theorems.                                                           *)

\* Every step preserves the invariant.
LEMMA LogInvNext ==
  ASSUME kills' = 0, LogInv, [Next]_vars
  PROVE  LogInv'
BY LogHeader, TypeNext, SleepNext, ControlNext, RoomNext, DiskNext DEF LogInv

\* What holds after any number of kills: the invariant, until the first.
UntilKilled == kills \in Nat /\ (kills = 0 => LogInv)

\* Kills are counted and never forgotten.
LEMMA KillsGrow ==
  ASSUME kills \in Nat, [Next]_vars
  PROVE  kills' \in Nat /\ kills' >= kills
BY DEF Next, OpStep, Recover, begin_op, BeginRun, BeginBlock, BeginWait, BeginKilled, sync, SyncPanic,
       EndPanic, EndOthers, EndWait, EndKilled, EndLast, CommitLog, CommitHeader, CommitLock,
       CommitInstall, CommitEnd, Crash, read_header, Restore, RestoreEnd, Killed, vars

\* The inductive invariant of the log holds in every state before the first kill
\* of a waiting process.
THEOREM LogInvariant == Spec => []UntilKilled
<1>1. Init => UntilKilled
  BY LogInvInit DEF Init, UntilKilled
<1>2. UntilKilled /\ [Next]_vars => UntilKilled'
  <2> SUFFICES ASSUME UntilKilled, [Next]_vars PROVE UntilKilled'
    OBVIOUS
  <2>1. kills \in Nat /\ kills' \in Nat /\ kills' >= kills
    BY KillsGrow DEF UntilKilled
  <2>2. ASSUME kills' = 0 PROVE LogInv'
    <3>1. LogInv
      BY <2>1, <2>2 DEF UntilKilled
    <3>. QED BY <3>1, <2>2, LogInvNext
  <2>. QED BY <2>1, <2>2 DEF UntilKilled
<1>. QED BY <1>1, <1>2, PTL DEF Spec

\* Type correctness of the log, for any number of processes, blocks and kills.
THEOREM LogTypeCorrect == Spec => []TypeOK
<1>1. BaseInv => TypeOK
  BY DEF BaseInv
<1>. QED BY <1>1, LogBaseInvariant, PTL

\* Nobody is stranded in end_op, whoever is killed: a process that sleeps there was
\* not the last to end, and of those that still run or commit one will wake it.
THEOREM LogNoStrandedEnd == Spec => []NoStrandedEnd
<1>1. BaseInv => NoStrandedEnd
  BY DEF BaseInv, StrandInv, Unpanicked, NoStrandedEnd
<1>. QED BY <1>1, LogBaseInvariant, PTL

\* No PANIC() of sync and end_op is reached without a kill: the room that begin_op
\* reserves is enough, and no operation ends while another one commits.
THEOREM LogNoPanic == Spec => []NoPanic
<1>1. UntilKilled => NoPanic
  BY DEF LogInv, ControlInv, Unpanicked, NoPanic, UntilKilled
<1>. QED BY <1>1, LogInvariant, PTL

\* The process that commits is alone: no operation runs until it is done.
THEOREM LogCommitAlone == Spec => []CommitAlone
<1>1. UntilKilled => CommitAlone
  <2> SUFFICES ASSUME LogInv, committing
               PROVE  Running = {} /\ Cardinality(Committing) = 1
    BY DEF CommitAlone, Committing, UntilKilled
  <2>1. Running = {} /\ Committing # {} /\ \A o, p \in Committing : o = p
    BY DEF LogInv, ControlInv
  <2>2. PICK o \in Committing : TRUE
    BY <2>1
  <2>3. Committing = {o}
    BY <2>1
  <2>. QED BY <2>1, <2>3, FS_Singleton
<1>. QED BY <1>1, LogInvariant, PTL

\* A recovery keeps what is durable, wherever it is cut off by another crash and
\* whatever was killed before.
THEOREM LogRecoveryKeeps == Spec => RecoveryKeeps
<1>1. BaseInv /\ BaseInv' /\ [Next]_vars => [phase # "up" => Durable' = Durable]_vars
  <2> SUFFICES ASSUME BaseInv, BaseInv', Next, phase # "up"
               PROVE  Durable' = Durable
    OBVIOUS
  <2>. QED BY OnlyRecovery, RecoverDurable DEF BaseInv
<1>. QED BY <1>1, LogBaseInvariant, PTL DEF Spec, RecoveryKeeps

\* The log implements the atomic disk: the write of the header is the one step
\* that makes anything durable, and it makes durable all that ended operations
\* wrote and nothing of an operation that is running, until a kill.
THEOREM LogImplementsAtomicDisk == Spec => ImplementsAtomicDisk
<1>1. Init => AD!Init
  <2> SUFFICES ASSUME Init PROVE AD!Init
    OBVIOUS
  <2>1. Durable = [b \in Blocks |-> Zero]
    BY DEF Init, Durable
  <2>2. phase = "read" /\ Running = {} /\ ~(kills > 0)
    BY DEF Init, Running
  <2>. QED BY <2>1, <2>2 DEF AD!Init
<1>2. UntilKilled /\ UntilKilled' /\ [Next]_vars => [AD!Next]_(AD!vars)
  <2> DEFINE mem == IF phase = "up" THEN cache ELSE Durable
  <2> SUFFICES ASSUME UntilKilled, UntilKilled', [Next]_vars PROVE [AD!Next]_(AD!vars)
    OBVIOUS
  <2>k. kills \in Nat /\ kills' \in Nat /\ kills' >= kills
    BY KillsGrow DEF UntilKilled
  <2> SUFFICES ASSUME ~(kills' > 0)
               PROVE  AD!Next \/ (mem' = mem /\ Durable' = Durable /\ Running' = Running)
    BY <2>k DEF AD!Next, AD!vars
  <2> kills = 0 /\ kills' = 0 /\ LogInv /\ LogInv'
    BY <2>k DEF UntilKilled
  <2>0. TypeOK
    BY DEF LogInv
  <2>1. ASSUME ~\E o \in Ops : CommitHeader(o) PROVE Durable' = Durable
    BY <2>1, DurableNext
  <2>2. ASSUME NEW o \in Ops, CommitHeader(o) PROVE AD!Next
    <3>1. Durable' = cache
      BY <2>2, DurableNext
    <3>2. phase = "up" /\ phase' = "up" /\ cache' = cache /\ Running = {} /\ Running' = Running
      <4>1. o \in Committing /\ pc[o] = "log"
        BY <2>2 DEF CommitHeader, Committing
      <4>2. phase = "up" /\ Running = {}
        BY <4>1 DEF LogInv, ControlInv
      <4>3. Running' = Running \ {o}
        BY <2>2, <2>0, MoveFacts DEF CommitHeader
      <4>. QED BY <4>2, <4>3, <2>2 DEF CommitHeader
    <3>. QED BY <3>1, <3>2 DEF AD!Next, AD!Regular, AD!Commit
  <2>3. CASE ~\E o \in Ops : CommitHeader(o)
    <3>0. Durable' = Durable
      BY <2>3, <2>1
    <3>1. CASE UNCHANGED vars
      BY <3>0, <3>1 DEF vars, Running
    <3>2. ASSUME NEW o \in Ops, BeginRun(o) PROVE AD!Next
      <4>1. o \notin Running /\ Running' = Running \cup {o}
        BY <3>2, <2>0, MoveFacts DEF BeginRun, Running
      <4>. QED BY <4>1, <3>0, <3>2 DEF BeginRun, AD!Next, AD!Regular, AD!Begin
    <3>3. ASSUME NEW o \in Ops, NEW b \in Blocks, NEW v \in Vals, sync(o, b, v) PROVE AD!Next
      <4>1. o \in Running /\ Running' = Running
        BY <3>3 DEF sync, Running
      <4>2. phase = "up" /\ phase' = "up"
        BY <3>3 DEF sync, LogInv, ControlInv
      <4>. QED BY <4>1, <4>2, <3>0, <3>3 DEF sync, AD!Next, AD!Regular, AD!Write
    <3>4. ASSUME NEW o \in Ops, EndOthers(o) \/ EndLast(o) PROVE AD!Next
      <4>1. o \in Running
        BY <3>4 DEF EndOthers, EndLast, Running
      <4>2. Running' = Running \ {o}
        <5>1. CASE EndOthers(o)
          BY <5>1, <2>0, WakeFacts DEF LogInv
        <5>2. CASE EndLast(o)
          BY <5>2, <2>0, MoveFacts DEF EndLast
        <5>. QED BY <3>4, <5>1, <5>2
      <4>3. phase' = phase /\ cache' = cache
        BY <3>4 DEF EndOthers, EndLast
      <4>. QED BY <4>1, <4>2, <4>3, <3>0 DEF AD!Next, AD!Regular, AD!End
    <3>5. CASE Crash
      <4>1. Running' = {} /\ phase' = "read"
        BY <3>5 DEF Crash, Running
      <4>. QED BY <4>1, <3>0 DEF AD!Next, AD!Regular, AD!Crash
    <3>6. CASE Recover
      <4>1. Running' = Running /\ phase # "up"
        BY <3>6 DEF Recover, read_header, Restore, RestoreEnd, Running
      <4>2. CASE phase' # "up"
        BY <4>1, <4>2, <3>0
      <4>3. CASE phase' = "up"
        <5>1. RestoreEnd
          BY <4>3, <3>6, <4>1 DEF Recover, read_header, Restore
        <5>2. phase = "restore" /\ i > Len(header) /\ cache' = cache
          BY <5>1 DEF RestoreEnd
        <5>3. Durable = disk /\ cache = disk
          <6>1. Durable = disk
            BY <5>2, <2>0, LogHeader, LogRestart, RestoredFacts
          <6>. QED BY <6>1, <5>2 DEF LogInv, DiskInv
        <5>. QED BY <4>1, <4>3, <5>2, <5>3, <3>0
      <4>. QED BY <4>2, <4>3
    <3>7. ASSUME NEW o \in Ops,
                 \/ begin_op(o) \/ BeginBlock(o) \/ BeginWait(o) \/ EndWait(o)
                 \/ CommitLog(o) \/ CommitLock(o) \/ CommitInstall(o) \/ CommitEnd(o)
          PROVE  mem' = mem /\ Durable' = Durable /\ Running' = Running
      <4>1. phase' = phase /\ cache' = cache
        BY <3>7 DEF begin_op, BeginBlock, BeginWait, EndWait, CommitLog, CommitLock,
                    CommitInstall, CommitEnd
      <4>2. Running' = Running
        <5>1. CASE begin_op(o) \/ BeginBlock(o) \/ CommitLock(o)
          BY <5>1, <2>0, MoveFacts DEF begin_op, BeginBlock, CommitLock, Running
        <5>2. CASE BeginWait(o) \/ EndWait(o)
          <6>1. PICK at \in {"begin", "begin_sleep", "idle", "end_sleep"} :
                     pc' = [pc EXCEPT ![o] = at]
            BY <5>2 DEF BeginWait, EndWait, WaitSem
          <6>2. pc[o] # "run"
            BY <5>2 DEF BeginWait, EndWait
          <6>. QED BY <6>1, <6>2, <2>0, MoveFacts DEF Running
        <5>3. CASE CommitLog(o) \/ CommitInstall(o)
          BY <5>3 DEF CommitLog, CommitInstall, Running
        <5>4. CASE CommitEnd(o)
          BY <5>4, <2>0, WakeAllFacts
        <5>. QED BY <3>7, <5>1, <5>2, <5>3, <5>4
      <4>. QED BY <4>1, <4>2, <3>0
    <3>8. ASSUME NEW o \in Ops, BeginKilled(o) \/ SyncPanic(o) \/ EndPanic(o) \/ EndKilled(o)
          PROVE  FALSE
      <4>1. CASE BeginKilled(o) \/ EndKilled(o)
        BY <4>1, <2>0, NoKilled DEF BeginKilled, EndKilled
      <4>2. CASE SyncPanic(o) \/ EndPanic(o)
        <5>1. pc'[o] = "panic"
          BY <4>2, <2>0 DEF SyncPanic, EndPanic, Panic, TypeOK
        <5>. QED BY <5>1 DEF LogInv, ControlInv, Unpanicked
      <4>. QED BY <3>8, <4>1, <4>2
    <3> HIDE DEF mem
    <3>. QED BY <2>3, <3>1, <3>2, <3>3, <3>4, <3>5, <3>6, <3>7, <3>8 DEF Next, OpStep
  <2>. QED BY <2>2, <2>3
<1>. QED BY <1>1, <1>2, LogInvariant, PTL DEF Spec, ImplementsAtomicDisk, AD!Spec

-----------------------------------------------------------------------------
(* The pipe: its inductive invariant.                                      *)

Positions == 0..(Wrap - 1)
Succ(n) == (n + 1) % Wrap
Prev(n) == (n + Wrap - 1) % Wrap

\* The bytes in the pipe, as the indices count them.
Used == (nwrite - nread) % Wrap

PipeTypeOK ==
    /\ owner \in Procs \cup {"none"}
    /\ credits \in [Procs -> Nat]
    /\ data \in [0..(Size - 1) -> 0..Wrap]
    /\ nread \in Positions /\ nwrite \in Positions
    /\ open \in [Procs -> BOOLEAN]
    /\ freed \in BOOLEAN
    /\ step \in [Procs -> {"idle", "call", "loop", "wait", "asleep", "panic", "copy", "done", "post",
                         "set", "check", "free", "closed"} \cup Leaving \cup Halfway]
    /\ left \in [Procs -> Nat]
    /\ killed \in [Procs -> BOOLEAN]
    /\ missed \in [Procs -> BOOLEAN]
    /\ met \in BOOLEAN /\ bad \in BOOLEAN /\ strayed \in BOOLEAN

\* An end is open until its process has closed it, and a byte is copied for a call
\* that asked for it.
CallInv ==
    \A p \in Procs : /\ open[p] <=> step[p] \notin {"check", "free", "closed"}
                     /\ step[p] \in Halfway => left[p] > 0

\* A process that goes to sleep saw no reason to go on: what has changed since is
\* about to be posted, was posted too early, or left a credit behind. A writer that
\* found the pipe full has yet to look at the other end.
ReaderInv ==
    (step["reader"] \in {"empty", "wait", "asleep"} /\ MayGoOn("reader"))
        => \/ missed["reader"]
           \/ step["writer"] \in {"loop", "full", "set"} \cup Halfway
           \/ killed["writer"] /\ open["writer"]
           \/ step["reader"] # "asleep" /\ credits["reader"] > 0

WriterInv ==
    (step["writer"] \in {"full", "drop", "wait", "asleep"} /\ MayGoOn("writer"))
        => \/ missed["writer"]
           \/ step["reader"] \in {"copy", "done", "post", "set"} \cup Halfway
           \/ step["writer"] = "full" /\ ~open["reader"]

\* Until a process has released the lock of the other one: the lock is held
\* through a close, and who frees the pipe has been left alone with it.
CloseInv ==
    ~strayed => \A p \in Procs :
        /\ step[p] \in {"set", "check"} => owner = p
        /\ step[p] = "free" => step[Other(p)] = "closed"
        /\ freed => step[p] = "closed"

\* There is room for the byte that is being written, and a byte to be read.
IndexInv ==
    /\ Used <= Size
    /\ step["writer"] = "index" => Used < Size
    /\ step["reader"] = "index" => Used > 0

\* Position n is between the indices, and its byte is not about to be stored.
Stable(n) ==
    /\ (n - nread) % Wrap < Used
    /\ ~(step["writer"] = "data" /\ n = Prev(nwrite))

\* The bytes between the indices are in their slots, the one whose index
\* follows too, and the one whose index has moved on unless the writer was met.
DataInv ==
    /\ InSection("writer") => met
    /\ \A n \in Positions : Stable(n) => data[n % Size] = n
    /\ step["writer"] = "index" => data[nwrite % Size] = nwrite
    /\ (step["reader"] = "data" /\ ~met) => data[Prev(nread) % Size] = Prev(nread)
    /\ ~bad

PipeInv == PipeTypeOK /\ CallInv /\ ReaderInv /\ WriterInv /\ CloseInv /\ IndexInv /\ DataInv

-----------------------------------------------------------------------------
(* Arithmetic modulo Wrap and Size.                                        *)

\* The constants are positive, and the range of the indices is several times the
\* size.
LEMMA PipeConsts ==
  /\ Size \in Nat \ {0} /\ Wrap \in Nat \ {0} /\ MaxBytes \in Nat /\ MaxCredits \in Nat
  /\ Size < Wrap /\ Wrap % Size = 0
  BY PipeAssumption

\* The number of steps from one position to another.
LEMMA Distance ==
  ASSUME NEW a \in Positions, NEW b \in Positions
  PROVE  (b - a) % Wrap = IF b >= a THEN b - a ELSE b - a + Wrap
  BY PipeConsts DEF Positions

\* Succ and Prev without the remainder.
LEMMA SuccPrev ==
  ASSUME NEW n \in Positions
  PROVE  /\ Succ(n) = IF n = Wrap - 1 THEN 0 ELSE n + 1
         /\ Prev(n) = IF n = 0 THEN Wrap - 1 ELSE n - 1
         /\ Succ(n) \in Positions /\ Prev(n) \in Positions
         /\ Prev(Succ(n)) = n
<1>1. Succ(n) = IF n = Wrap - 1 THEN 0 ELSE n + 1
  BY PipeConsts DEF Positions, Succ
<1>2. ASSUME NEW m \in Positions PROVE Prev(m) = IF m = 0 THEN Wrap - 1 ELSE m - 1
  <2>1. CASE m = 0
    BY <2>1, PipeConsts DEF Positions, Prev
  <2>2. CASE m # 0
    <3>1. m + Wrap - 1 = Wrap * 1 + (m - 1) /\ m - 1 \in 0..(Wrap - 1)
      BY <2>2, PipeConsts DEF Positions
    <3>. QED BY <2>2, <3>1, PipeConsts DEF Positions, Prev
  <2>. QED BY <2>1, <2>2
<1>3. Succ(n) \in Positions
  BY <1>1, PipeConsts DEF Positions
<1>. QED BY <1>1, <1>2, <1>3, PipeConsts DEF Positions

\* Positions fewer than Size steps apart have different slots.
LEMMA SlotsApart ==
  ASSUME NEW a \in Positions, NEW b \in Positions, (b - a) % Wrap \in 1..(Size - 1)
  PROVE  a % Size # b % Size
<1> SUFFICES ASSUME a % Size = b % Size PROVE FALSE
  OBVIOUS
<1> DEFINE d == (b - a) % Wrap
           k == (b \div Size) - (a \div Size)
           w == Wrap \div Size
<1>1. /\ a = Size * (a \div Size) + (a % Size) /\ a \div Size \in Int
      /\ b = Size * (b \div Size) + (b % Size) /\ b \div Size \in Int
  BY PipeConsts DEF Positions
<1>2. Wrap = Size * w /\ w \in Int
  BY PipeConsts
<1>3. b - a = Size * k /\ k \in Int
  BY <1>1, PipeConsts DEF Positions
<1>4. d = b - a \/ d = b - a + Wrap
  BY Distance DEF Positions
<1>5. d = Size * k \/ d = Size * (k + w)
  BY <1>2, <1>3, <1>4, PipeConsts
<1> HIDE DEF k, w, d
<1>6. \A q \in Int : ~(Size * q > 0 /\ Size * q < Size)
  BY PipeConsts
<1>. QED BY <1>2, <1>3, <1>5, <1>6, PipeConsts DEF d

\* The slot of a position.
LEMMA SlotType == ASSUME NEW n \in Positions PROVE n % Size \in 0..(Size - 1)
  BY PipeConsts DEF Positions

\* Full and Empty in terms of the bytes in the pipe, and how the indices move it.
LEMMA UsedFacts ==
  ASSUME nread \in Positions, nwrite \in Positions, Used <= Size
  PROVE  /\ Used \in 0..Size
         /\ Full <=> Used = Size
         /\ Empty <=> Used = 0
         /\ Used < Size => (Succ(nwrite) - nread) % Wrap = Used + 1
         /\ Used > 0 => (nwrite - Succ(nread)) % Wrap = Used - 1
<1>1. Used = IF nwrite >= nread THEN nwrite - nread ELSE nwrite - nread + Wrap
  BY Distance DEF Used
<1>2. Used \in 0..Size
  BY <1>1, PipeConsts DEF Positions
<1>3. (nread + Size) % Wrap = IF nread + Size < Wrap THEN nread + Size ELSE nread + Size - Wrap
  BY PipeConsts DEF Positions
<1>4. Full <=> Used = Size
  BY <1>1, <1>3, PipeConsts DEF Positions, Full
<1>5. Empty <=> Used = 0
  BY <1>1, PipeConsts DEF Positions, Empty
<1>6. ASSUME Used < Size PROVE (Succ(nwrite) - nread) % Wrap = Used + 1
  <2>1. Succ(nwrite) \in Positions
    BY SuccPrev
  <2>2. (Succ(nwrite) - nread) % Wrap
          = IF Succ(nwrite) >= nread THEN Succ(nwrite) - nread ELSE Succ(nwrite) - nread + Wrap
    BY <2>1, Distance
  <2>. QED BY <1>1, <1>6, <2>2, SuccPrev, PipeConsts DEF Positions
<1>7. ASSUME Used > 0 PROVE (nwrite - Succ(nread)) % Wrap = Used - 1
  <2>1. Succ(nread) \in Positions
    BY SuccPrev
  <2>2. (nwrite - Succ(nread)) % Wrap
          = IF nwrite >= Succ(nread) THEN nwrite - Succ(nread) ELSE nwrite - Succ(nread) + Wrap
    BY <2>1, Distance
  <2>. QED BY <1>1, <1>7, <2>2, SuccPrev, PipeConsts DEF Positions
<1>. QED BY <1>2, <1>4, <1>5, <1>6, <1>7

-----------------------------------------------------------------------------
(* Types, the ends, and the sleepers.                                      *)

\* Every step keeps the types.
LEMMA PipeTypeNext == PipeTypeOK /\ CallInv /\ [PipeNext]_pipe_vars => PipeTypeOK'
<1> SUFFICES ASSUME PipeTypeOK, CallInv, [PipeNext]_pipe_vars PROVE PipeTypeOK'
  OBVIOUS
<1> USE PipeConsts
<1> USE DEF PipeTypeOK, CallInv, At, Watch, InSection, Halfway, Leaving, Procs, ring, hist, Other
<1>1. ASSUME NEW p \in Procs, Call(p) PROVE PipeTypeOK'
  BY <1>1 DEF Call
<1>2. ASSUME NEW p \in Procs, Enter(p) PROVE PipeTypeOK'
  BY <1>2 DEF Enter, Acquire
<1>3. ASSUME NEW p \in Procs, Kill(p) PROVE PipeTypeOK'
  BY <1>3 DEF Kill
<1>4. ASSUME NEW p \in Procs, Wait(p) PROVE PipeTypeOK'
  BY <1>4 DEF Wait
<1>5. ASSUME NEW p \in Procs, WaitKilled(p) PROVE PipeTypeOK'
  BY <1>5 DEF WaitKilled
<1>6. ASSUME NEW p \in Procs, Close(p) PROVE PipeTypeOK'
  BY <1>6 DEF Close, Acquire
<1>7. ASSUME NEW p \in Procs, CloseSet(p) PROVE PipeTypeOK'
  BY <1>7 DEF CloseSet, PostAllSem, Wake
<1>8. ASSUME NEW p \in Procs, CloseCheck(p) PROVE PipeTypeOK'
  BY <1>8 DEF CloseCheck, Release
<1>9. ASSUME NEW p \in Procs, CloseFree(p) PROVE PipeTypeOK'
  BY <1>9 DEF CloseFree
<1>10. ASSUME WriteFull PROVE PipeTypeOK'
  BY <1>10 DEF WriteFull, Block
<1>11. ASSUME WriteFail PROVE PipeTypeOK'
  BY <1>11 DEF WriteFail, Leave, Release
<1>12. ASSUME WritePost PROVE PipeTypeOK'
  BY <1>12 DEF WritePost, Wake, PostSem
<1>13. ASSUME WriteDrop PROVE PipeTypeOK'
  BY <1>13 DEF WriteDrop, Leave, Release
<1>14. ASSUME WriteRest PROVE PipeTypeOK'
  <2>1. nwrite' \in Positions /\ data' \in [0..(Size - 1) -> 0..Wrap]
    <3>1. Prev(nwrite) \in Positions /\ Succ(nwrite) \in Positions
      BY SuccPrev
    <3>2. Stored(Prev(nwrite)) \in [0..(Size - 1) -> 0..Wrap]
      <4> DEFINE m == Prev(nwrite)
      <4>1. m % Size \in 0..(Size - 1)
        BY <3>1, SlotType
      <4>2. m \in 0..Wrap
        BY <3>1 DEF Positions
      <4> HIDE DEF m
      <4>. QED BY <4>1, <4>2 DEF Stored, m
    <3>. QED BY <1>14, <3>1, <3>2 DEF WriteRest, Succ, Prev
  <2>2. left' \in [Procs -> Nat]
    BY <1>14 DEF WriteRest
  <2>3. met' \in BOOLEAN
    BY <1>14 DEF WriteRest
  <2>. QED BY <1>14, <2>1, <2>2, <2>3 DEF WriteRest
<1>15. ASSUME WriteDone PROVE PipeTypeOK'
  BY <1>15 DEF WriteDone, PostAllSem, Wake
<1>16. ASSUME WriteReturn PROVE PipeTypeOK'
  BY <1>16 DEF WriteReturn, Leave, Release
<1>17. ASSUME ReadLoop PROVE PipeTypeOK'
  <2>1. CASE Empty /\ open["writer"]
    <3>1. Block("reader", "empty")
      BY <1>17, <2>1 DEF ReadLoop
    <3>2. met' \in BOOLEAN /\ missed' \in [Procs -> BOOLEAN]
      BY <3>1 DEF Block
    <3>. QED BY <3>1, <3>2 DEF Block
  <2>2. CASE ~(Empty /\ open["writer"])
    BY <1>17, <2>2 DEF ReadLoop
  <2>. QED BY <2>1, <2>2
<1>18. ASSUME ReadDrop PROVE PipeTypeOK'
  BY <1>18 DEF ReadDrop, Leave, Release
<1>19. ASSUME ReadRest PROVE PipeTypeOK'
  <2>1. nread' \in Positions /\ bad' \in BOOLEAN
    BY <1>19, SuccPrev DEF ReadRest, Load, Succ
  <2>. QED BY <1>19, <2>1 DEF ReadRest
<1>20. ASSUME ReadDone PROVE PipeTypeOK'
  BY <1>20 DEF ReadDone
<1>21. ASSUME ReadReturn PROVE PipeTypeOK'
  BY <1>21 DEF ReadReturn, Leave, Release
<1>22. ASSUME ReadPost PROVE PipeTypeOK'
  BY <1>22 DEF ReadPost, PostAllSem, Wake
<1>23. ASSUME NEW half \in Halfway, WriteByte(half) PROVE PipeTypeOK'
  <2>1. nwrite' \in Positions /\ data' \in [0..(Size - 1) -> 0..Wrap]
    <3>1. Succ(nwrite) \in Positions
      BY SuccPrev
    <3>2. Stored(nwrite) \in [0..(Size - 1) -> 0..Wrap]
      BY SlotType DEF Stored, Positions
    <3>. QED BY <1>23, <3>1, <3>2 DEF WriteByte, Succ
  <2>. QED BY <1>23, <2>1 DEF WriteByte
<1>24. ASSUME NEW half \in Halfway, ReadByte(half) PROVE PipeTypeOK'
  <2>1. nread' \in Positions /\ bad' \in BOOLEAN
    BY <1>24, SuccPrev DEF ReadByte, Load, Succ
  <2>. QED BY <1>24, <2>1 DEF ReadByte
<1>25. ASSUME UNCHANGED pipe_vars PROVE PipeTypeOK'
  BY <1>25 DEF pipe_vars
<1>. QED BY <1>1, <1>2, <1>3, <1>4, <1>5, <1>6, <1>7, <1>8, <1>9, <1>10, <1>11, <1>12, <1>13,
         <1>14, <1>15, <1>16, <1>17, <1>18, <1>19, <1>20, <1>21, <1>22, <1>23, <1>24, <1>25
      DEF PipeNext

\* Every step leaves an end open until it is closed.
LEMMA CallNext == PipeTypeOK /\ CallInv /\ [PipeNext]_pipe_vars => CallInv'
<1> SUFFICES ASSUME PipeTypeOK, CallInv, [PipeNext]_pipe_vars PROVE CallInv'
  OBVIOUS
<1> USE DEF PipeTypeOK, CallInv, At, Halfway, Leaving, Procs, ring, hist, Other
<1>1. ASSUME NEW p \in Procs, Call(p) PROVE CallInv'
  BY <1>1 DEF Call
<1>2. ASSUME NEW p \in Procs, Enter(p) PROVE CallInv'
  BY <1>2 DEF Enter, Acquire
<1>3. ASSUME NEW p \in Procs, Kill(p) PROVE CallInv'
  BY <1>3 DEF Kill
<1>4. ASSUME NEW p \in Procs, Wait(p) PROVE CallInv'
  BY <1>4 DEF Wait
<1>5. ASSUME NEW p \in Procs, WaitKilled(p) PROVE CallInv'
  BY <1>5 DEF WaitKilled
<1>6. ASSUME NEW p \in Procs, Close(p) PROVE CallInv'
  BY <1>6 DEF Close, Acquire
<1>7. ASSUME NEW p \in Procs, CloseSet(p) PROVE CallInv'
  BY <1>7 DEF CloseSet, PostAllSem, Wake
<1>8. ASSUME NEW p \in Procs, CloseCheck(p) PROVE CallInv'
  BY <1>8 DEF CloseCheck, Release
<1>9. ASSUME NEW p \in Procs, CloseFree(p) PROVE CallInv'
  BY <1>9 DEF CloseFree
<1>10. ASSUME WriteFull PROVE CallInv'
  BY <1>10 DEF WriteFull, Block
<1>11. ASSUME WriteFail PROVE CallInv'
  BY <1>11 DEF WriteFail, Leave, Release
<1>12. ASSUME WritePost PROVE CallInv'
  BY <1>12 DEF WritePost, Wake, PostSem
<1>13. ASSUME WriteDrop PROVE CallInv'
  BY <1>13 DEF WriteDrop, Leave, Release
<1>14. ASSUME WriteRest PROVE CallInv'
  BY <1>14 DEF WriteRest, Stored
<1>15. ASSUME WriteDone PROVE CallInv'
  BY <1>15 DEF WriteDone, PostAllSem, Wake
<1>16. ASSUME WriteReturn PROVE CallInv'
  BY <1>16 DEF WriteReturn, Leave, Release
<1>17. ASSUME ReadLoop PROVE CallInv'
  BY <1>17 DEF ReadLoop, Block
<1>18. ASSUME ReadDrop PROVE CallInv'
  BY <1>18 DEF ReadDrop, Leave, Release
<1>19. ASSUME ReadRest PROVE CallInv'
  BY <1>19 DEF ReadRest, Load
<1>20. ASSUME ReadDone PROVE CallInv'
  BY <1>20 DEF ReadDone
<1>21. ASSUME ReadReturn PROVE CallInv'
  BY <1>21 DEF ReadReturn, Leave, Release
<1>22. ASSUME ReadPost PROVE CallInv'
  BY <1>22 DEF ReadPost, PostAllSem, Wake
<1>23. ASSUME NEW half \in Halfway, WriteByte(half) PROVE CallInv'
  BY <1>23 DEF WriteByte, Stored
<1>24. ASSUME NEW half \in Halfway, ReadByte(half) PROVE CallInv'
  BY <1>24 DEF ReadByte, Load
<1>25. ASSUME UNCHANGED pipe_vars PROVE CallInv'
  BY <1>25 DEF pipe_vars
<1>. QED BY <1>1, <1>2, <1>3, <1>4, <1>5, <1>6, <1>7, <1>8, <1>9, <1>10, <1>11, <1>12, <1>13,
         <1>14, <1>15, <1>16, <1>17, <1>18, <1>19, <1>20, <1>21, <1>22, <1>23, <1>24, <1>25
      DEF PipeNext

\* No step leaves a reader asleep with a reason to go on that nobody will post.
LEMMA ReaderNext == PipeTypeOK /\ CallInv /\ ReaderInv /\ [PipeNext]_pipe_vars => ReaderInv'
<1> SUFFICES ASSUME PipeTypeOK, CallInv, ReaderInv, [PipeNext]_pipe_vars PROVE ReaderInv'
  OBVIOUS
<1> USE DEF PipeTypeOK, CallInv, ReaderInv, At, MayGoOn, Empty, Halfway, Leaving, Procs, ring, hist, Other
<1>1. ASSUME NEW p \in Procs, Call(p) PROVE ReaderInv'
  BY <1>1 DEF Call
<1>2. ASSUME NEW p \in Procs, Enter(p) PROVE ReaderInv'
  BY <1>2 DEF Enter, Acquire
<1>3. ASSUME NEW p \in Procs, Kill(p) PROVE ReaderInv'
  BY <1>3 DEF Kill
<1>4. ASSUME NEW p \in Procs, Wait(p) PROVE ReaderInv'
  BY <1>4 DEF Wait
<1>5. ASSUME NEW p \in Procs, WaitKilled(p) PROVE ReaderInv'
  BY <1>5 DEF WaitKilled
<1>6. ASSUME NEW p \in Procs, Close(p) PROVE ReaderInv'
  BY <1>6 DEF Close, Acquire
<1>7. ASSUME NEW p \in Procs, CloseSet(p) PROVE ReaderInv'
  BY <1>7 DEF CloseSet, PostAllSem, Wake
<1>8. ASSUME NEW p \in Procs, CloseCheck(p) PROVE ReaderInv'
  BY <1>8 DEF CloseCheck, Release
<1>9. ASSUME NEW p \in Procs, CloseFree(p) PROVE ReaderInv'
  BY <1>9 DEF CloseFree
<1>10. ASSUME WriteFull PROVE ReaderInv'
  BY <1>10 DEF WriteFull, Block
<1>11. ASSUME WriteFail PROVE ReaderInv'
  BY <1>11 DEF WriteFail, Leave, Release
<1>12. ASSUME WritePost PROVE ReaderInv'
  BY <1>12 DEF WritePost, Wake, PostSem
<1>13. ASSUME WriteDrop PROVE ReaderInv'
  BY <1>13 DEF WriteDrop, Leave, Release
<1>14. ASSUME WriteRest PROVE ReaderInv'
  BY <1>14 DEF WriteRest, Stored
<1>15. ASSUME WriteDone PROVE ReaderInv'
  BY <1>15 DEF WriteDone, PostAllSem, Wake
<1>16. ASSUME WriteReturn PROVE ReaderInv'
  BY <1>16 DEF WriteReturn, Leave, Release
<1>17. ASSUME ReadLoop PROVE ReaderInv'
  BY <1>17 DEF ReadLoop, Block
<1>18. ASSUME ReadDrop PROVE ReaderInv'
  BY <1>18 DEF ReadDrop, Leave, Release
<1>19. ASSUME ReadRest PROVE ReaderInv'
  BY <1>19 DEF ReadRest, Load
<1>20. ASSUME ReadDone PROVE ReaderInv'
  BY <1>20 DEF ReadDone
<1>21. ASSUME ReadReturn PROVE ReaderInv'
  BY <1>21 DEF ReadReturn, Leave, Release
<1>22. ASSUME ReadPost PROVE ReaderInv'
  BY <1>22 DEF ReadPost, PostAllSem, Wake
<1>23. ASSUME NEW half \in Halfway, WriteByte(half) PROVE ReaderInv'
  BY <1>23 DEF WriteByte, Stored
<1>24. ASSUME NEW half \in Halfway, ReadByte(half) PROVE ReaderInv'
  BY <1>24 DEF ReadByte, Load
<1>25. ASSUME UNCHANGED pipe_vars PROVE ReaderInv'
  BY <1>25 DEF pipe_vars
<1>. QED BY <1>1, <1>2, <1>3, <1>4, <1>5, <1>6, <1>7, <1>8, <1>9, <1>10, <1>11, <1>12, <1>13,
         <1>14, <1>15, <1>16, <1>17, <1>18, <1>19, <1>20, <1>21, <1>22, <1>23, <1>24, <1>25
      DEF PipeNext

\* The same for a writer.
LEMMA WriterNext == PipeTypeOK /\ CallInv /\ WriterInv /\ [PipeNext]_pipe_vars => WriterInv'
<1> SUFFICES ASSUME PipeTypeOK, CallInv, WriterInv, [PipeNext]_pipe_vars PROVE WriterInv'
  OBVIOUS
<1> USE DEF PipeTypeOK, CallInv, WriterInv, At, MayGoOn, Full, Halfway, Leaving, Procs, ring, hist, Other
<1>1. ASSUME NEW p \in Procs, Call(p) PROVE WriterInv'
  BY <1>1 DEF Call
<1>2. ASSUME NEW p \in Procs, Enter(p) PROVE WriterInv'
  BY <1>2 DEF Enter, Acquire
<1>3. ASSUME NEW p \in Procs, Kill(p) PROVE WriterInv'
  BY <1>3 DEF Kill
<1>4. ASSUME NEW p \in Procs, Wait(p) PROVE WriterInv'
  BY <1>4 DEF Wait
<1>5. ASSUME NEW p \in Procs, WaitKilled(p) PROVE WriterInv'
  BY <1>5 DEF WaitKilled
<1>6. ASSUME NEW p \in Procs, Close(p) PROVE WriterInv'
  BY <1>6 DEF Close, Acquire
<1>7. ASSUME NEW p \in Procs, CloseSet(p) PROVE WriterInv'
  BY <1>7 DEF CloseSet, PostAllSem, Wake
<1>8. ASSUME NEW p \in Procs, CloseCheck(p) PROVE WriterInv'
  BY <1>8 DEF CloseCheck, Release
<1>9. ASSUME NEW p \in Procs, CloseFree(p) PROVE WriterInv'
  BY <1>9 DEF CloseFree
<1>10. ASSUME WriteFull PROVE WriterInv'
  BY <1>10 DEF WriteFull, Block
<1>11. ASSUME WriteFail PROVE WriterInv'
  BY <1>11 DEF WriteFail, Leave, Release
<1>12. ASSUME WritePost PROVE WriterInv'
  BY <1>12 DEF WritePost, Wake, PostSem
<1>13. ASSUME WriteDrop PROVE WriterInv'
  BY <1>13 DEF WriteDrop, Leave, Release
<1>14. ASSUME WriteRest PROVE WriterInv'
  BY <1>14 DEF WriteRest, Stored
<1>15. ASSUME WriteDone PROVE WriterInv'
  BY <1>15 DEF WriteDone, PostAllSem, Wake
<1>16. ASSUME WriteReturn PROVE WriterInv'
  BY <1>16 DEF WriteReturn, Leave, Release
<1>17. ASSUME ReadLoop PROVE WriterInv'
  BY <1>17 DEF ReadLoop, Block
<1>18. ASSUME ReadDrop PROVE WriterInv'
  BY <1>18 DEF ReadDrop, Leave, Release
<1>19. ASSUME ReadRest PROVE WriterInv'
  BY <1>19 DEF ReadRest, Load
<1>20. ASSUME ReadDone PROVE WriterInv'
  BY <1>20 DEF ReadDone
<1>21. ASSUME ReadReturn PROVE WriterInv'
  BY <1>21 DEF ReadReturn, Leave, Release
<1>22. ASSUME ReadPost PROVE WriterInv'
  BY <1>22 DEF ReadPost, PostAllSem, Wake
<1>23. ASSUME NEW half \in Halfway, WriteByte(half) PROVE WriterInv'
  BY <1>23 DEF WriteByte, Stored
<1>24. ASSUME NEW half \in Halfway, ReadByte(half) PROVE WriterInv'
  BY <1>24 DEF ReadByte, Load
<1>25. ASSUME UNCHANGED pipe_vars PROVE WriterInv'
  BY <1>25 DEF pipe_vars
<1>. QED BY <1>1, <1>2, <1>3, <1>4, <1>5, <1>6, <1>7, <1>8, <1>9, <1>10, <1>11, <1>12, <1>13,
         <1>14, <1>15, <1>16, <1>17, <1>18, <1>19, <1>20, <1>21, <1>22, <1>23, <1>24, <1>25
      DEF PipeNext

\* The lock is held through a close until one process has released the other's.
LEMMA CloseNext == PipeTypeOK /\ CallInv /\ CloseInv /\ [PipeNext]_pipe_vars => CloseInv'
<1> SUFFICES ASSUME PipeTypeOK, CallInv, CloseInv, [PipeNext]_pipe_vars PROVE CloseInv'
  OBVIOUS
<1> USE DEF PipeTypeOK, CallInv, CloseInv, At, Stopped, LastEnd, Halfway, Leaving, Procs, ring, hist, Other
<1>1. ASSUME NEW p \in Procs, Call(p) PROVE CloseInv'
  BY <1>1 DEF Call
<1>2. ASSUME NEW p \in Procs, Enter(p) PROVE CloseInv'
  BY <1>2 DEF Enter, Acquire
<1>3. ASSUME NEW p \in Procs, Kill(p) PROVE CloseInv'
  BY <1>3 DEF Kill
<1>4. ASSUME NEW p \in Procs, Wait(p) PROVE CloseInv'
  BY <1>4 DEF Wait
<1>5. ASSUME NEW p \in Procs, WaitKilled(p) PROVE CloseInv'
  BY <1>5 DEF WaitKilled
<1>6. ASSUME NEW p \in Procs, Close(p) PROVE CloseInv'
  BY <1>6 DEF Close, Acquire
<1>7. ASSUME NEW p \in Procs, CloseSet(p) PROVE CloseInv'
  BY <1>7 DEF CloseSet, PostAllSem, Wake
<1>8. ASSUME NEW p \in Procs, CloseCheck(p) PROVE CloseInv'
  BY <1>8 DEF CloseCheck, Release
<1>9. ASSUME NEW p \in Procs, CloseFree(p) PROVE CloseInv'
  BY <1>9 DEF CloseFree
<1>10. ASSUME WriteFull PROVE CloseInv'
  BY <1>10 DEF WriteFull, Block
<1>11. ASSUME WriteFail PROVE CloseInv'
  BY <1>11 DEF WriteFail, Leave, Release
<1>12. ASSUME WritePost PROVE CloseInv'
  BY <1>12 DEF WritePost, Wake, PostSem
<1>13. ASSUME WriteDrop PROVE CloseInv'
  BY <1>13 DEF WriteDrop, Leave, Release
<1>14. ASSUME WriteRest PROVE CloseInv'
  BY <1>14 DEF WriteRest, Stored
<1>15. ASSUME WriteDone PROVE CloseInv'
  BY <1>15 DEF WriteDone, PostAllSem, Wake
<1>16. ASSUME WriteReturn PROVE CloseInv'
  BY <1>16 DEF WriteReturn, Leave, Release
<1>17. ASSUME ReadLoop PROVE CloseInv'
  BY <1>17 DEF ReadLoop, Block
<1>18. ASSUME ReadDrop PROVE CloseInv'
  BY <1>18 DEF ReadDrop, Leave, Release
<1>19. ASSUME ReadRest PROVE CloseInv'
  BY <1>19 DEF ReadRest, Load
<1>20. ASSUME ReadDone PROVE CloseInv'
  BY <1>20 DEF ReadDone
<1>21. ASSUME ReadReturn PROVE CloseInv'
  BY <1>21 DEF ReadReturn, Leave, Release
<1>22. ASSUME ReadPost PROVE CloseInv'
  BY <1>22 DEF ReadPost, PostAllSem, Wake
<1>23. ASSUME NEW half \in Halfway, WriteByte(half) PROVE CloseInv'
  BY <1>23 DEF WriteByte, Stored
<1>24. ASSUME NEW half \in Halfway, ReadByte(half) PROVE CloseInv'
  BY <1>24 DEF ReadByte, Load
<1>25. ASSUME UNCHANGED pipe_vars PROVE CloseInv'
  BY <1>25 DEF pipe_vars
<1>. QED BY <1>1, <1>2, <1>3, <1>4, <1>5, <1>6, <1>7, <1>8, <1>9, <1>10, <1>11, <1>12, <1>13,
         <1>14, <1>15, <1>16, <1>17, <1>18, <1>19, <1>20, <1>21, <1>22, <1>23, <1>24, <1>25
      DEF PipeNext

-----------------------------------------------------------------------------
(* The indices and the bytes between them.                                 *)

\* There is room for every byte that is written, and a byte to read.
LEMMA IndexNext == PipeTypeOK /\ IndexInv /\ [PipeNext]_pipe_vars => IndexInv'
<1> SUFFICES ASSUME PipeTypeOK, IndexInv, [PipeNext]_pipe_vars PROVE IndexInv'
  OBVIOUS
<1> USE PipeConsts
<1>0. /\ Used \in 0..Size
      /\ Full <=> Used = Size
      /\ Empty <=> Used = 0
      /\ Used < Size => (Succ(nwrite) - nread) % Wrap = Used + 1
      /\ Used > 0 => (nwrite - Succ(nread)) % Wrap = Used - 1
  BY UsedFacts DEF PipeTypeOK, IndexInv
<1> USE DEF PipeTypeOK, At, Halfway, Leaving, Procs, ring, hist, Other
<1>1. ASSUME NEW p \in Procs, Call(p) PROVE IndexInv'
  BY <1>1 DEF Call, IndexInv, Used
<1>2. ASSUME NEW p \in Procs, Enter(p) PROVE IndexInv'
  BY <1>2 DEF Enter, Acquire, IndexInv, Used
<1>3. ASSUME NEW p \in Procs, Kill(p) PROVE IndexInv'
  BY <1>3 DEF Kill, IndexInv, Used
<1>4. ASSUME NEW p \in Procs, Wait(p) PROVE IndexInv'
  BY <1>4 DEF Wait, IndexInv, Used
<1>5. ASSUME NEW p \in Procs, WaitKilled(p) PROVE IndexInv'
  BY <1>5 DEF WaitKilled, IndexInv, Used
<1>6. ASSUME NEW p \in Procs, Close(p) PROVE IndexInv'
  BY <1>6 DEF Close, Acquire, IndexInv, Used
<1>7. ASSUME NEW p \in Procs, CloseSet(p) PROVE IndexInv'
  BY <1>7 DEF CloseSet, PostAllSem, Wake, IndexInv, Used
<1>8. ASSUME NEW p \in Procs, CloseCheck(p) PROVE IndexInv'
  BY <1>8 DEF CloseCheck, Release, IndexInv, Used
<1>9. ASSUME NEW p \in Procs, CloseFree(p) PROVE IndexInv'
  BY <1>9 DEF CloseFree, IndexInv, Used
<1>10. ASSUME WriteFull PROVE IndexInv'
  BY <1>10 DEF WriteFull, Block, IndexInv, Used
<1>11. ASSUME WriteFail PROVE IndexInv'
  BY <1>11 DEF WriteFail, Leave, Release, IndexInv, Used
<1>12. ASSUME WritePost PROVE IndexInv'
  BY <1>12 DEF WritePost, Wake, PostSem, IndexInv, Used
<1>13. ASSUME WriteDrop PROVE IndexInv'
  BY <1>13 DEF WriteDrop, Leave, Release, IndexInv, Used
<1>14. ASSUME WriteRest PROVE IndexInv'
  <2>1. CASE step["writer"] = "index"
    <3>1. Used' = Used + 1 /\ Used < Size
      BY <1>0, <1>14, <2>1 DEF WriteRest, Used, Succ, IndexInv
    <3>. QED BY <1>0, <1>14, <2>1, <3>1 DEF WriteRest, IndexInv
  <2>2. CASE step["writer"] = "data"
    BY <1>14, <2>2 DEF WriteRest, IndexInv, Used
  <2>. QED BY <2>1, <2>2, <1>14 DEF WriteRest
<1>15. ASSUME WriteDone PROVE IndexInv'
  BY <1>15 DEF WriteDone, PostAllSem, Wake, IndexInv, Used
<1>16. ASSUME WriteReturn PROVE IndexInv'
  BY <1>16 DEF WriteReturn, Leave, Release, IndexInv, Used
<1>17. ASSUME ReadLoop PROVE IndexInv'
  BY <1>17 DEF ReadLoop, Block, IndexInv, Used
<1>18. ASSUME ReadDrop PROVE IndexInv'
  BY <1>18 DEF ReadDrop, Leave, Release, IndexInv, Used
<1>19. ASSUME ReadRest PROVE IndexInv'
  <2>1. CASE step["reader"] = "index"
    <3>1. Used' = Used - 1 /\ Used > 0
      BY <1>0, <1>19, <2>1 DEF ReadRest, Used, Succ, IndexInv
    <3>. QED BY <1>0, <1>19, <2>1, <3>1 DEF ReadRest, IndexInv
  <2>2. CASE step["reader"] = "data"
    BY <1>19, <2>2 DEF ReadRest, IndexInv, Used
  <2>. QED BY <2>1, <2>2, <1>19 DEF ReadRest
<1>20. ASSUME ReadDone PROVE IndexInv'
  BY <1>20 DEF ReadDone, IndexInv, Used
<1>21. ASSUME ReadReturn PROVE IndexInv'
  BY <1>21 DEF ReadReturn, Leave, Release, IndexInv, Used
<1>22. ASSUME ReadPost PROVE IndexInv'
  BY <1>22 DEF ReadPost, PostAllSem, Wake, IndexInv, Used
<1>23. ASSUME NEW half \in Halfway, WriteByte(half) PROVE IndexInv'
  <2>1. Used < Size /\ nread' = nread
    BY <1>0, <1>23 DEF WriteByte
  <2>2. CASE half = "index"
    BY <1>23, <2>1, <2>2 DEF WriteByte, IndexInv, Used
  <2>3. CASE half = "data"
    <3>1. Used' = Used + 1
      BY <1>0, <1>23, <2>1, <2>3 DEF WriteByte, Used, Succ
    <3>. QED BY <1>0, <1>23, <2>1, <2>3, <3>1 DEF WriteByte, IndexInv
  <2>. QED BY <2>2, <2>3, <1>23
<1>24. ASSUME NEW half \in Halfway, ReadByte(half) PROVE IndexInv'
  <2>1. Used > 0 /\ nwrite' = nwrite
    BY <1>0, <1>24 DEF ReadByte
  <2>2. CASE half = "index"
    BY <1>24, <2>1, <2>2 DEF ReadByte, IndexInv, Used
  <2>3. CASE half = "data"
    <3>1. Used' = Used - 1
      BY <1>0, <1>24, <2>1, <2>3 DEF ReadByte, Used, Succ
    <3>. QED BY <1>0, <1>24, <2>1, <2>3, <3>1 DEF ReadByte, IndexInv
  <2>. QED BY <2>2, <2>3, <1>24
<1>25. ASSUME UNCHANGED pipe_vars PROVE IndexInv'
  BY <1>25 DEF pipe_vars, IndexInv, Used
<1>. QED BY <1>1, <1>2, <1>3, <1>4, <1>5, <1>6, <1>7, <1>8, <1>9, <1>10, <1>11, <1>12, <1>13,
         <1>14, <1>15, <1>16, <1>17, <1>18, <1>19, <1>20, <1>21, <1>22, <1>23, <1>24, <1>25
      DEF PipeNext

\* The positions between the indices: how far they are from nwrite, and which of
\* them an index that moves adds or removes.
LEMMA Window ==
  ASSUME nread \in Positions, nwrite \in Positions, Used <= Size, NEW n \in Positions
  PROVE  LET at == (n - nread) % Wrap
         IN  /\ (at < Used /\ Used < Size) => (nwrite - n) % Wrap \in 1..(Size - 1)
             /\ (at < Used /\ n # Prev(nwrite)) => (Prev(nwrite) - n) % Wrap \in 1..(Size - 1)
             /\ (at < Used + 1 /\ n # nwrite) => at < Used
             /\ (Used > 0 /\ (n - Succ(nread)) % Wrap < Used - 1) => at < Used
             /\ (Used > 0 /\ n = nread) => at < Used
<1> DEFINE at == (n - nread) % Wrap
<1>1. Used = IF nwrite >= nread THEN nwrite - nread ELSE nwrite - nread + Wrap
  BY Distance DEF Used
<1>2. at = IF n >= nread THEN n - nread ELSE n - nread + Wrap
  BY Distance
<1>3. (nwrite - n) % Wrap = IF nwrite >= n THEN nwrite - n ELSE nwrite - n + Wrap
  BY Distance
<1>4. /\ Prev(nwrite) = IF nwrite = 0 THEN Wrap - 1 ELSE nwrite - 1
      /\ Prev(nwrite) \in Positions
      /\ Succ(nread) = IF nread = Wrap - 1 THEN 0 ELSE nread + 1
      /\ Succ(nread) \in Positions
  BY SuccPrev
<1>5. (Prev(nwrite) - n) % Wrap
        = IF Prev(nwrite) >= n THEN Prev(nwrite) - n ELSE Prev(nwrite) - n + Wrap
  BY <1>4, Distance
<1>6. (n - Succ(nread)) % Wrap
        = IF n >= Succ(nread) THEN n - Succ(nread) ELSE n - Succ(nread) + Wrap
  BY <1>4, Distance
<1> HIDE DEF at
<1> USE PipeConsts DEF Positions
<1>7. (at < Used /\ Used < Size) => (nwrite - n) % Wrap \in 1..(Size - 1)
  BY <1>1, <1>2, <1>3
<1>8. (at < Used /\ n # Prev(nwrite)) => (Prev(nwrite) - n) % Wrap \in 1..(Size - 1)
  BY <1>1, <1>2, <1>4, <1>5
<1>9. (at < Used + 1 /\ n # nwrite) => at < Used
  BY <1>1, <1>2
<1>10. (Used > 0 /\ (n - Succ(nread)) % Wrap < Used - 1) => at < Used
  BY <1>1, <1>2, <1>4, <1>6
<1>11. (Used > 0 /\ n = nread) => at < Used
  BY <1>1, <1>2
<1>. QED BY <1>7, <1>8, <1>9, <1>10, <1>11 DEF at

\* A step that leaves the ring alone, and in which nobody begins or ends a byte.
Quiet ==
    /\ UNCHANGED <<ring, bad>>
    /\ \A p \in Procs : (step[p] \in Halfway \/ step'[p] \in Halfway) => step'[p] = step[p]
    /\ Watch \/ (UNCHANGED met /\ (InSection("writer")' <=> InSection("writer")))

\* Such a step keeps the bytes.
LEMMA QuietData == PipeTypeOK /\ DataInv /\ Quiet => DataInv'
<1> SUFFICES ASSUME PipeTypeOK, DataInv, Quiet PROVE DataInv'
  OBVIOUS
<1>1. UNCHANGED <<data, nread, nwrite, bad>>
  BY DEF Quiet, ring
<1>2. /\ step'["writer"] = "data" <=> step["writer"] = "data"
      /\ step'["writer"] = "index" <=> step["writer"] = "index"
      /\ step'["reader"] = "data" <=> step["reader"] = "data"
  BY DEF Quiet, Procs, Halfway
<1>3. (InSection("writer")' => met') /\ (step'["reader"] = "data" /\ ~met' => ~met)
  <2>1. CASE Watch
    BY <2>1, <1>2 DEF Watch, DataInv, Halfway
  <2>2. CASE UNCHANGED met /\ (InSection("writer")' <=> InSection("writer"))
    BY <2>2, <1>2 DEF DataInv
  <2>. QED BY <2>1, <2>2 DEF Quiet
<1>4. \A n \in Positions : Stable(n)' => Stable(n)
  BY <1>1, <1>2 DEF Stable, Used, Prev
<1>. QED BY <1>1, <1>2, <1>3, <1>4 DEF DataInv, Prev

\* All steps but those of the copy loops are such.
LEMMA QuietNext ==
  ASSUME PipeTypeOK, [PipeNext]_pipe_vars
  PROVE  \/ Quiet \/ WriteRest \/ ReadRest
         \/ \E half \in Halfway : WriteByte(half) \/ ReadByte(half)
<1> USE DEF PipeTypeOK, At, InSection, Halfway, Leaving, Procs, ring, hist, Other
<1>1. ASSUME NEW p \in Procs, Call(p) PROVE Quiet
  BY <1>1 DEF Call, Quiet
<1>2. ASSUME NEW p \in Procs, Enter(p) PROVE Quiet
  BY <1>2 DEF Enter, Acquire, Quiet
<1>3. ASSUME NEW p \in Procs, Kill(p) PROVE Quiet
  BY <1>3 DEF Kill, Quiet
<1>4. ASSUME NEW p \in Procs, Wait(p) PROVE Quiet
  BY <1>4 DEF Wait, Quiet
<1>5. ASSUME NEW p \in Procs, WaitKilled(p) PROVE Quiet
  BY <1>5 DEF WaitKilled, Quiet
<1>6. ASSUME NEW p \in Procs, Close(p) PROVE Quiet
  BY <1>6 DEF Close, Acquire, Quiet
<1>7. ASSUME NEW p \in Procs, CloseSet(p) PROVE Quiet
  BY <1>7 DEF CloseSet, PostAllSem, Wake, Quiet
<1>8. ASSUME NEW p \in Procs, CloseCheck(p) PROVE Quiet
  BY <1>8 DEF CloseCheck, Release, Quiet
<1>9. ASSUME NEW p \in Procs, CloseFree(p) PROVE Quiet
  BY <1>9 DEF CloseFree, Quiet
<1>10. ASSUME WriteFull PROVE Quiet
  BY <1>10 DEF WriteFull, Block, Quiet
<1>11. ASSUME WriteFail PROVE Quiet
  BY <1>11 DEF WriteFail, Leave, Release, Quiet
<1>12. ASSUME WritePost PROVE Quiet
  BY <1>12 DEF WritePost, Wake, PostSem, Quiet
<1>13. ASSUME WriteDrop PROVE Quiet
  BY <1>13 DEF WriteDrop, Leave, Release, Quiet
<1>14. ASSUME WriteDone PROVE Quiet
  BY <1>14 DEF WriteDone, PostAllSem, Wake, Quiet
<1>15. ASSUME WriteReturn PROVE Quiet
  BY <1>15 DEF WriteReturn, Leave, Release, Quiet
<1>16. ASSUME ReadLoop PROVE Quiet
  BY <1>16 DEF ReadLoop, Block, Quiet
<1>17. ASSUME ReadDrop PROVE Quiet
  BY <1>17 DEF ReadDrop, Leave, Release, Quiet
<1>18. ASSUME ReadDone PROVE Quiet
  BY <1>18 DEF ReadDone, Quiet
<1>19. ASSUME ReadReturn PROVE Quiet
  BY <1>19 DEF ReadReturn, Leave, Release, Quiet
<1>20. ASSUME ReadPost PROVE Quiet
  BY <1>20 DEF ReadPost, PostAllSem, Wake, Quiet
<1>21. ASSUME UNCHANGED pipe_vars PROVE Quiet
  BY <1>21 DEF pipe_vars, Quiet
<1>. QED BY <1>1, <1>2, <1>3, <1>4, <1>5, <1>6, <1>7, <1>8, <1>9, <1>10, <1>11, <1>12, <1>13,
         <1>14, <1>15, <1>16, <1>17, <1>18, <1>19, <1>20, <1>21 DEF PipeNext

\* Every step keeps the bytes.
LEMMA DataNext == PipeTypeOK /\ CallInv /\ IndexInv /\ DataInv /\ [PipeNext]_pipe_vars => DataInv'
<1> SUFFICES ASSUME PipeTypeOK, CallInv, IndexInv, DataInv, [PipeNext]_pipe_vars PROVE DataInv'
  OBVIOUS
<1> USE PipeConsts
<1>1. /\ nread \in Positions /\ nwrite \in Positions /\ Used <= Size
      /\ step \in [Procs -> {"idle", "call", "loop", "wait", "asleep", "panic", "copy", "done", "post",
                           "set", "check", "free", "closed"} \cup Leaving \cup Halfway]
      /\ "reader" \in Procs /\ "writer" \in Procs /\ "reader" # "writer"
      /\ DOMAIN data = 0..(Size - 1)
  BY DEF PipeTypeOK, IndexInv, Procs
<1>2. /\ Used \in 0..Size
      /\ Full <=> Used = Size
      /\ Empty <=> Used = 0
      /\ Used < Size => (Succ(nwrite) - nread) % Wrap = Used + 1
      /\ Used > 0 => (nwrite - Succ(nread)) % Wrap = Used - 1
  BY <1>1, UsedFacts
<1>3. /\ Succ(nwrite) \in Positions /\ Prev(nwrite) \in Positions /\ Succ(nread) \in Positions
      /\ Prev(Succ(nwrite)) = nwrite /\ Prev(Succ(nread)) = nread
  BY <1>1, SuccPrev
<1>4. ASSUME NEW m \in Positions, NEW n \in Positions, data' = Stored(m)
      PROVE  /\ data'[m % Size] = m
             /\ (m - n) % Wrap \in 1..(Size - 1) => data'[n % Size] = data[n % Size]
  <2>1. m % Size \in 0..(Size - 1) /\ n % Size \in 0..(Size - 1)
    BY SlotType
  <2>2. (m - n) % Wrap \in 1..(Size - 1) => n % Size # m % Size
    BY SlotsApart
  <2>. QED BY <1>1, <1>4, <2>1, <2>2 DEF Stored
\* Without the writer in its section the next byte is in its slot.
<1>5. ASSUME Used > 0, ~met PROVE data[nread % Size] = nread
  <2>1. Stable(nread)
    BY <1>1, <1>5, Window DEF Stable, DataInv, InSection, Halfway
  <2>. QED BY <1>1, <2>1 DEF DataInv
<1>6. ASSUME NEW half \in Halfway, WriteByte(half) PROVE DataInv'
  <2>1. /\ step["writer"] = "loop" /\ step' = [step EXCEPT !["writer"] = half] /\ Used < Size
        /\ UNCHANGED <<nread, bad>> /\ met'
    BY <1>1, <1>2, <1>6 DEF WriteByte, At, Watch, InSection, Halfway
  <2>2. CASE half = "index"
    <3>1. data' = Stored(nwrite) /\ nwrite' = nwrite
      BY <1>6, <2>2 DEF WriteByte
    <3>2. ASSUME NEW n \in Positions, Stable(n)' PROVE data'[n % Size] = n
      <4>1. Stable(n) /\ (n - nread) % Wrap < Used
        BY <2>1, <3>1, <3>2 DEF Stable, Used
      <4>2. (nwrite - n) % Wrap \in 1..(Size - 1)
        BY <1>1, <2>1, <4>1, Window
      <4>. QED BY <1>1, <1>4, <3>1, <4>1, <4>2 DEF DataInv
    <3>. QED BY <1>1, <1>4, <2>1, <2>2, <3>1, <3>2 DEF DataInv
  <2>3. CASE half = "data"
    <3>1. data' = data /\ nwrite' = Succ(nwrite)
      BY <1>6, <2>3 DEF WriteByte, Succ, Halfway
    <3>2. ASSUME NEW n \in Positions, Stable(n)' PROVE data'[n % Size] = n
      <4>1. (n - nread) % Wrap < Used + 1 /\ n # nwrite
        BY <1>1, <1>2, <1>3, <2>1, <2>3, <3>1, <3>2 DEF Stable, Used, Prev
      <4>2. Stable(n)
        BY <1>1, <2>1, <4>1, Window DEF Stable
      <4>. QED BY <3>1, <4>2 DEF DataInv
    <3>. QED BY <1>1, <2>1, <2>3, <3>1, <3>2 DEF DataInv
  <2>. QED BY <2>2, <2>3, <1>6 DEF Halfway
<1>7. ASSUME WriteRest PROVE DataInv'
  <2>1. /\ step["writer"] \in Halfway /\ step' = [step EXCEPT !["writer"] = "loop"]
        /\ UNCHANGED <<nread, bad>> /\ met'
    BY <1>1, <1>7 DEF WriteRest, At, Watch, InSection, Halfway
  <2>2. CASE step["writer"] = "data"
    <3>1. data' = Stored(Prev(nwrite)) /\ nwrite' = nwrite
      BY <1>7, <2>2 DEF WriteRest, Prev
    <3>2. ASSUME NEW n \in Positions, Stable(n)' PROVE data'[n % Size] = n
      <4>1. (n - nread) % Wrap < Used
        BY <2>1, <3>1, <3>2 DEF Stable, Used
      <4>2. CASE n = Prev(nwrite)
        BY <1>3, <1>4, <3>1, <4>2
      <4>3. CASE n # Prev(nwrite)
        <5>1. (Prev(nwrite) - n) % Wrap \in 1..(Size - 1)
          BY <1>1, <4>1, <4>3, Window
        <5>2. data[n % Size] = n
          BY <4>1, <4>3 DEF Stable, DataInv
        <5>. QED BY <1>3, <1>4, <3>1, <5>1, <5>2
      <4>. QED BY <4>2, <4>3
    <3>. QED BY <1>1, <2>1, <3>2 DEF DataInv
  <2>3. CASE step["writer"] = "index"
    <3>1. data' = data /\ nwrite' = Succ(nwrite)
      BY <1>7, <2>3 DEF WriteRest, Succ
    <3>2. ASSUME NEW n \in Positions, Stable(n)' PROVE data'[n % Size] = n
      <4>1. (n - nread) % Wrap < Used + 1
        BY <1>2, <2>1, <2>3, <3>1, <3>2 DEF Stable, Used, IndexInv
      <4>2. CASE n = nwrite
        BY <2>3, <3>1, <4>2 DEF DataInv
      <4>3. CASE n # nwrite
        <5>1. Stable(n)
          BY <1>1, <2>3, <4>1, <4>3, Window DEF Stable
        <5>. QED BY <3>1, <5>1 DEF DataInv
      <4>. QED BY <4>2, <4>3
    <3>. QED BY <1>1, <2>1, <3>2 DEF DataInv
  <2>. QED BY <2>1, <2>2, <2>3 DEF Halfway
<1>8. ASSUME UNCHANGED <<data, nwrite>>, Watch, step'["writer"] = step["writer"],
             nread' = nread \/ (Used > 0 /\ nread' = Succ(nread)), ~bad',
             (step'["reader"] = "data" /\ ~met') => data'[Prev(nread') % Size] = Prev(nread')
      PROVE  DataInv'
  <2>1. InSection("writer")' => met'
    BY <1>8 DEF Watch
  <2>2. ASSUME NEW n \in Positions, Stable(n)' PROVE Stable(n)
    <3>1. CASE nread' = nread
      BY <1>8, <2>2, <3>1 DEF Stable, Used, Prev
    <3>2. CASE Used > 0 /\ nread' = Succ(nread)
      <4>1. (n - Succ(nread)) % Wrap < Used - 1
        BY <1>2, <1>8, <2>2, <3>2 DEF Stable, Used
      <4>2. (n - nread) % Wrap < Used
        BY <1>1, <3>2, <4>1, Window
      <4>. QED BY <1>8, <2>2, <4>2 DEF Stable, Prev
    <3>. QED BY <1>8, <3>1, <3>2
  <2>. QED BY <1>8, <2>1, <2>2 DEF DataInv, Prev
<1>9. ASSUME NEW half \in Halfway, ReadByte(half) PROVE DataInv'
  <2>1. /\ UNCHANGED <<data, nwrite>> /\ Watch /\ step'["writer"] = step["writer"] /\ Used > 0
        /\ step'["reader"] = half /\ half \in Halfway
    BY <1>1, <1>2, <1>9 DEF ReadByte
  <2>2. CASE half = "index"
    BY <1>5, <1>8, <1>9, <2>1, <2>2 DEF ReadByte, Load, DataInv
  <2>3. CASE half = "data"
    <3>1. nread' = Succ(nread) /\ ~bad'
      BY <1>9, <2>3 DEF ReadByte, Succ, DataInv
    <3>2. ~met' => ~met
      BY <2>1 DEF Watch
    <3>. QED BY <1>3, <1>5, <1>8, <2>1, <3>1, <3>2
  <2>. QED BY <1>9, <2>2, <2>3 DEF Halfway
<1>10. ASSUME ReadRest PROVE DataInv'
  <2>1. /\ UNCHANGED <<data, nwrite>> /\ Watch /\ step'["writer"] = step["writer"]
        /\ step'["reader"] = "copy" /\ step["reader"] \in Halfway
    BY <1>1, <1>10 DEF ReadRest
  <2>2. CASE step["reader"] = "data"
    BY <1>8, <1>10, <2>1, <2>2 DEF ReadRest, Load, DataInv, Prev
  <2>3. CASE step["reader"] = "index"
    BY <1>8, <1>10, <2>1, <2>3 DEF ReadRest, IndexInv, Succ, DataInv
  <2>. QED BY <2>1, <2>2, <2>3 DEF Halfway
<1>. QED BY <1>6, <1>7, <1>9, <1>10, QuietNext, QuietData

-----------------------------------------------------------------------------
(* The theorems.                                                           *)

\* The first state satisfies the invariant.
LEMMA PipeInvInit == init_pipe => PipeInv
<1> SUFFICES ASSUME init_pipe PROVE PipeInv
  OBVIOUS
<1>1. PipeTypeOK
  <2>1. data \in [0..(Size - 1) -> 0..Wrap] /\ nread \in Positions /\ nwrite \in Positions
    BY PipeConsts DEF init_pipe, Positions
  <2>. QED BY <2>1 DEF init_pipe, PipeTypeOK, Procs
<1>2. Used = 0
  BY PipeConsts DEF init_pipe, Used
<1>3. \A n \in Positions : (n - nread) % Wrap \in 0..(Wrap - 1)
  BY PipeConsts DEF init_pipe, Positions
<1>4. IndexInv /\ DataInv
  BY <1>2, <1>3, PipeConsts DEF init_pipe, IndexInv, DataInv, Stable, InSection, Halfway, Leaving, Procs
<1>5. CallInv /\ ReaderInv /\ WriterInv /\ CloseInv
  BY DEF init_pipe, CallInv, ReaderInv, WriterInv, CloseInv, MayGoOn, Halfway, Leaving, Procs, Other
<1>. QED BY <1>1, <1>4, <1>5 DEF PipeInv

\* The invariant holds in every state.
THEOREM PipeInvariant == PipeSpec => []PipeInv
<1>1. PipeInv /\ [PipeNext]_pipe_vars => PipeInv'
  BY PipeTypeNext, CallNext, ReaderNext, WriterNext, CloseNext, IndexNext, DataNext DEF PipeInv
<1>. QED BY PipeInvInit, <1>1, PTL DEF PipeSpec

\* The pipe's state keeps its type, whatever the size of the pipe.
THEOREM PipeTypeCorrect == PipeSpec => []PipeTypeOK
<1>1. PipeInv => PipeTypeOK
  BY DEF PipeInv
<1>. QED BY PipeInvariant, <1>1, PTL

\* pipe_read and pipe_write, with the lock or without it, never run over each
\* other's index, and a byte read is the next of the stream unless the writer was
\* in its critical section meanwhile.
THEOREM PipeStreamExact == PipeSpec => []StreamExact
<1>1. PipeInv => StreamExact
  BY DEF PipeInv, IndexInv, DataInv, Used, StreamExact
<1>. QED BY PipeInvariant, <1>1, PTL

\* A reader or writer that sleeps in unalertable_wait_sem without a reason is
\* about to be posted, or missed a post that told it so between its test and its wait.
THEOREM PipeSleepersKnown == PipeSpec => []SleepersKnown
<1>1. PipeInv => SleepersKnown
  BY DEF PipeInv, ReaderInv, WriterInv, SleepersKnown
<1>. QED BY PipeInvariant, <1>1, PTL

\* pipe_close frees the pipe when both ends are done with it, unless a process
\* released a lock it did not hold.
THEOREM PipeFreedLast == PipeSpec => []FreedLast
<1>1. PipeInv => FreedLast
  BY DEF PipeInv, CloseInv, FreedLast
<1>. QED BY PipeInvariant, <1>1, PTL
=============================================================================
