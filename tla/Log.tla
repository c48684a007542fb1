-------------------------------- MODULE Log --------------------------------
(***************************************************************************)
(* The write-ahead log of src/src/fs/cache.c: begin_op, sync and end_op of *)
(* concurrent atomic operations, the commit by the last one to end, crashes *)
(* at every point and the recovery of init_log.  The cache of block        *)
(* contents is ideal here: a block that is in the header is pinned and     *)
(* keeps its contents, any other block reads as it is on disk.  A device   *)
(* write of one 512-byte block is atomic, the header's included.  log.sem  *)
(* is used through its operations (module Sem): a wait takes a token or    *)
(* queues, a post hands its token to the oldest waiter.                    *)
(***************************************************************************)
EXTENDS Integers, Sequences, FiniteSets, ListOps

CONSTANTS
    Ops,       \* the processes that run atomic operations, one at a time each
    Blocks,    \* the numbers of the blocks outside the log
    Vals, Zero, \* block contents, and those of a fresh disk
    OpMax,     \* OP_MAX_NUM_BLOCKS: new blocks one operation may sync
    LogMax,    \* LOG_MAX_SIZE: block numbers the header can hold
    MaxKills,  \* bound: how often a process is killed while it waits
    None       \* nobody

ASSUME LogAssumption ==
    /\ IsFiniteSet(Ops) /\ None \notin Ops /\ MaxKills \in Nat
    /\ OpMax \in Nat /\ LogMax \in Nat
    /\ Zero \in Vals

VARIABLES
    phase,       \* "read", "restore" (both in init_log) or "up"
    disk,        \* the blocks outside the log, on disk
    log_blocks,  \* the log blocks on disk
    disk_header, \* the log header on disk
    header,      \* the log header in memory
    cache,       \* the contents the block cache gives its callers
    i,           \* the loop index of a commit or a recovery
    lock,        \* the process that holds log.lock over several steps, or None
    outstanding, \* log.outstanding
    committing,  \* log.committing
    val,         \* log.sem.val
    sleeplist,   \* log.sem.sleeplist, the newest waiter first
    pc,          \* what each process does next
    rm,          \* ctx->rm of each process
    kills,       \* the kills so far
    dirty        \* history: blocks its operation wrote, not yet committed

disks  == <<disk, log_blocks, disk_header>>
logmem == <<header, outstanding, committing>>
sem    == <<val, sleeplist>>
vars   == <<phase, disks, logmem, cache, i, lock, sem, pc, rm, kills, dirty>>

\* A fresh file system, about to be mounted.
Init ==
    /\ phase = "read"
    /\ disk = [b \in Blocks |-> Zero]
    /\ log_blocks = [k \in 1..LogMax |-> Zero]
    /\ disk_header = <<>>
    /\ header = <<>>
    /\ cache = disk
    /\ i = 1
    /\ lock = None
    /\ outstanding = 0
    /\ committing = FALSE
    /\ val = 0
    /\ sleeplist = <<>>
    /\ pc = [o \in Ops |-> "idle"]
    /\ rm = [o \in Ops |-> 0]
    /\ kills = 0
    /\ dirty = [o \in Ops |-> {}]

-----------------------------------------------------------------------------
(* log.sem.                                                                *)

\* What a woken process goes on with: begin_op tries again, end_op returns.
Resumed(at) == CASE at = "begin_sleep" -> "begin"
                 [] at = "end_sleep"   -> "idle"
                 [] OTHER              -> at

\* _wait_sem by process o: it goes on as after, or sleeps as asleep.
WaitSem(o, after, asleep) ==
    /\ val' = val - 1
    /\ IF val > 0
       THEN /\ pc' = [pc EXCEPT ![o] = after]
            /\ UNCHANGED sleeplist
       ELSE /\ pc' = [pc EXCEPT ![o] = asleep]
            /\ sleeplist' = _insert_into_list(sleeplist, o)

\* A sleeping process o is killed: its wait fails and it goes on as after.
Killed(o, after) ==
    /\ kills < MaxKills
    /\ kills' = kills + 1
    /\ val' = val + 1
    /\ sleeplist' = _detach_from_list(sleeplist, o)
    /\ pc' = [pc EXCEPT ![o] = after]

\* PANIC(): process o stops for good, with log.lock if it holds it.
Panic(o) ==
    /\ pc' = [pc EXCEPT ![o] = "panic"]
    /\ UNCHANGED <<phase, disks, header, committing, cache, i, rm, dirty>>

-----------------------------------------------------------------------------
(* cache_begin_op.                                                         *)

begin_op(o) ==
    /\ phase = "up" /\ pc[o] = "idle"
    /\ pc' = [pc EXCEPT ![o] = "begin"]
    /\ rm' = [rm EXCEPT ![o] = OpMax]
    /\ UNCHANGED <<phase, disks, logmem, cache, i, lock, sem, kills, dirty>>

\* Mutants of MustWait: the caller's own reservation is forgotten; a commit in
\* progress is.
MustWaitShort == committing \/ Len(header) + outstanding * OpMax > LogMax
MustWaitRoom  == Len(header) + (outstanding + 1) * OpMax > LogMax

MustWait == committing \/ Len(header) + (outstanding + 1) * OpMax > LogMax

BeginRun(o) ==
    /\ pc[o] = "begin" /\ lock = None
    /\ ~MustWait
    /\ outstanding' = outstanding + 1
    /\ pc' = [pc EXCEPT ![o] = "run"]
    /\ UNCHANGED <<phase, disks, header, committing, cache, i, lock, sem, rm, kills, dirty>>

\* log.lock is released before wait_sem.
BeginBlock(o) ==
    /\ pc[o] = "begin" /\ lock = None
    /\ MustWait
    /\ pc' = [pc EXCEPT ![o] = "begin_wait"]
    /\ UNCHANGED <<phase, disks, logmem, cache, i, lock, sem, rm, kills, dirty>>

BeginWait(o) ==
    /\ pc[o] = "begin_wait"
    /\ WaitSem(o, "begin", "begin_sleep")
    /\ UNCHANGED <<phase, disks, logmem, cache, i, lock, rm, kills, dirty>>

\* The process is killed while it waits: wait_sem returns false, begin_op
\* returns all the same and the caller goes on with its operation.
BeginKilled(o) ==
    /\ pc[o] = "begin_sleep"
    /\ Killed(o, "run")
    /\ UNCHANGED <<phase, disks, logmem, cache, i, lock, rm, dirty>>

-----------------------------------------------------------------------------
(* cache_sync with a context, with the caller's change of the block.       *)

\* The header once block b is in it.
Logged(b) == IF b \in Elems(header) THEN header ELSE Append(header, b)

\* The caller keeps to its OpMax new blocks (ctx->rm, a documented panic).
sync(o, b, v) ==
    /\ pc[o] = "run" /\ lock = None
    /\ b \in Elems(header) \/ (rm[o] > 0 /\ Len(header) < LogMax)
    /\ header' = Logged(b)
    /\ rm' = [rm EXCEPT ![o] = IF header' = header THEN @ ELSE @ - 1]
    /\ cache' = [cache EXCEPT ![b] = v]
    /\ dirty' = [dirty EXCEPT ![o] = @ \cup {b}]
    /\ UNCHANGED <<phase, disks, outstanding, committing, i, lock, sem, pc, kills>>

\* The header is full.
SyncPanic(o) ==
    /\ pc[o] = "run" /\ lock = None
    /\ rm[o] > 0 /\ Len(header) >= LogMax /\ Blocks \ Elems(header) # {}
    /\ Panic(o)
    /\ lock' = o
    /\ UNCHANGED <<outstanding, sem, kills>>

-----------------------------------------------------------------------------
(* cache_end_op.                                                           *)

\* A commit is in progress.
EndPanic(o) ==
    /\ pc[o] = "run" /\ lock = None
    /\ committing
    /\ outstanding' = outstanding - 1
    /\ lock' = o
    /\ Panic(o)
    /\ UNCHANGED <<sem, kills>>

\* Other operations are running: one post, with log.lock held until the
\* process has locked the semaphore again.
EndOthers(o) ==
    /\ pc[o] = "run" /\ lock = None
    /\ ~committing /\ outstanding > 1
    /\ outstanding' = outstanding - 1
    /\ IF val < 0
       THEN LET w == Oldest(sleeplist)
            IN  /\ sleeplist' = _detach_from_list(sleeplist, w)
                /\ pc' = [pc EXCEPT ![w] = Resumed(@), ![o] = "end_wait"]
                /\ val' = val + 1
       ELSE /\ val' = val + 1
            /\ pc' = [pc EXCEPT ![o] = "end_wait"]
            /\ UNCHANGED sleeplist
    /\ lock' = o
    /\ UNCHANGED <<phase, disks, header, committing, cache, i, rm, kills, dirty>>

EndWait(o) ==
    /\ pc[o] = "end_wait"
    /\ WaitSem(o, "idle", "end_sleep")
    /\ lock' = None
    /\ UNCHANGED <<phase, disks, logmem, cache, i, rm, kills, dirty>>

\* The process is killed while it waits for the commit.
EndKilled(o) ==
    /\ pc[o] = "end_sleep"
    /\ Killed(o, "panic")
    /\ UNCHANGED <<phase, disks, logmem, cache, i, lock, rm, dirty>>

\* The last operation to end commits.
EndLast(o) ==
    /\ pc[o] = "run" /\ lock = None
    /\ ~committing /\ outstanding <= 1
    /\ outstanding' = outstanding - 1
    /\ committing' = TRUE
    /\ i' = 1
    /\ pc' = [pc EXCEPT ![o] = "log"]
    /\ UNCHANGED <<phase, disks, header, cache, lock, sem, rm, kills, dirty>>

\* One log block is written.
CommitLog(o) ==
    /\ pc[o] = "log" /\ i <= Len(header)
    /\ log_blocks' = [log_blocks EXCEPT ![i] = cache[header[i]]]
    /\ i' = i + 1
    /\ UNCHANGED <<phase, disk, disk_header, logmem, cache, lock, sem, pc, rm, kills, dirty>>

\* A mutant of CommitHeader: the header is written before the log blocks.
CommitHeaderEarly(o) ==
    /\ pc[o] = "log"
    /\ disk_header' = header
    /\ i' = 1
    /\ dirty' = [p \in Ops |-> {}]
    /\ pc' = [pc EXCEPT ![o] = "relock"]
    /\ UNCHANGED <<phase, disk, log_blocks, logmem, cache, lock, sem, rm, kills>>

\* write_header(): the commit point.
CommitHeader(o) ==
    /\ pc[o] = "log" /\ i > Len(header)
    /\ disk_header' = header
    /\ i' = 1
    /\ dirty' = [p \in Ops |-> {}]
    /\ pc' = [pc EXCEPT ![o] = "relock"]
    /\ UNCHANGED <<phase, disk, log_blocks, logmem, cache, lock, sem, rm, kills>>

\* log.lock is then held to the end of the commit.
CommitLock(o) ==
    /\ pc[o] = "relock" /\ lock = None
    /\ lock' = o
    /\ pc' = [pc EXCEPT ![o] = "install"]
    /\ UNCHANGED <<phase, disks, logmem, cache, i, sem, rm, kills, dirty>>

\* One block is written to its place.
CommitInstall(o) ==
    /\ pc[o] = "install" /\ i <= Len(header)
    /\ disk' = [disk EXCEPT ![header[i]] = cache[header[i]]]
    /\ i' = i + 1
    /\ UNCHANGED <<phase, log_blocks, disk_header, logmem, cache, lock, sem, pc, rm, kills, dirty>>

\* A mutant of CommitEnd: the waiters are not woken.
CommitEndQuiet(o) ==
    /\ pc[o] = "install" /\ i > Len(header)
    /\ header' = <<>>
    /\ disk_header' = <<>>
    /\ committing' = FALSE
    /\ lock' = None
    /\ pc' = [pc EXCEPT ![o] = "idle"]
    /\ i' = 1
    /\ UNCHANGED <<phase, disk, log_blocks, outstanding, sem, cache, rm, kills, dirty>>

\* The header is cleared in memory and on disk, and post_all_sem wakes every
\* waiter; it leaves no token for those that come later.
CommitEnd(o) ==
    /\ pc[o] = "install" /\ i > Len(header)
    /\ header' = <<>>
    /\ disk_header' = <<>>
    /\ committing' = FALSE
    /\ val' = IF val < 0 THEN 0 ELSE val
    /\ sleeplist' = <<>>
    /\ pc' = [p \in Ops |-> IF p = o THEN "idle" ELSE Resumed(pc[p])]
    /\ lock' = None
    /\ i' = 1
    /\ UNCHANGED <<phase, disk, log_blocks, outstanding, cache, rm, kills, dirty>>

-----------------------------------------------------------------------------
(* A crash loses the memory, and init_log recovers.                        *)

Crash ==
    /\ phase' = "read"
    /\ header' = <<>>
    /\ outstanding' = 0
    /\ committing' = FALSE
    /\ i' = 1
    /\ lock' = None
    /\ val' = 0
    /\ sleeplist' = <<>>
    /\ pc' = [o \in Ops |-> "idle"]
    /\ rm' = [o \in Ops |-> 0]
    /\ dirty' = [o \in Ops |-> {}]
    /\ cache' = disk
    /\ UNCHANGED <<disks, kills>>

read_header ==
    /\ phase = "read"
    /\ header' = disk_header
    /\ phase' = "restore"
    /\ UNCHANGED <<disks, outstanding, committing, cache, i, lock, sem, pc, rm, kills, dirty>>

\* One block is restored from the log.
Restore ==
    /\ phase = "restore" /\ i <= Len(header)
    /\ disk' = [disk EXCEPT ![header[i]] = log_blocks[i]]
    /\ cache' = [cache EXCEPT ![header[i]] = log_blocks[i]]
    /\ i' = i + 1
    /\ UNCHANGED <<phase, log_blocks, disk_header, logmem, lock, sem, pc, rm, kills, dirty>>

\* A mutant of RestoreEnd: the header on disk is cleared before the blocks are
\* restored.
RestoreEndEarly ==
    /\ phase = "restore" /\ i >= Len(header)
    /\ header' = <<>>
    /\ disk_header' = <<>>
    /\ i' = 1
    /\ phase' = "up"
    /\ UNCHANGED <<disk, log_blocks, outstanding, committing, cache, lock, sem, pc, rm, kills, dirty>>

\* The empty header is written and the file system is up.
RestoreEnd ==
    /\ phase = "restore" /\ i > Len(header)
    /\ header' = <<>>
    /\ disk_header' = <<>>
    /\ i' = 1
    /\ phase' = "up"
    /\ UNCHANGED <<disk, log_blocks, outstanding, committing, cache, lock, sem, pc, rm, kills, dirty>>

-----------------------------------------------------------------------------
OpStep(o) ==
    \/ BeginRun(o) \/ BeginBlock(o) \/ BeginWait(o) \/ BeginKilled(o)
    \/ (\E b \in Blocks, v \in Vals : sync(o, b, v)) \/ SyncPanic(o)
    \/ EndPanic(o) \/ EndOthers(o) \/ EndWait(o) \/ EndKilled(o) \/ EndLast(o)
    \/ CommitLog(o) \/ CommitHeader(o) \/ CommitLock(o) \/ CommitInstall(o) \/ CommitEnd(o)

Recover == read_header \/ Restore \/ RestoreEnd

Next == (\E o \in Ops : begin_op(o) \/ OpStep(o)) \/ Recover \/ Crash

Spec == Init /\ [][Next]_vars

\* The steps that begin with spinning for log.lock, and those that do not.
LockSteps(o) == BeginRun(o) \/ BeginBlock(o) \/ EndOthers(o) \/ EndLast(o) \/ CommitLock(o)
FreeSteps(o) ==
    BeginWait(o) \/ EndWait(o) \/ CommitLog(o) \/ CommitHeader(o) \/ CommitInstall(o) \/ CommitEnd(o)

\* A process that spins for log.lock gets it, and a started operation does
\* finitely many syncs and ends.
Fairness ==
    /\ WF_vars(Recover)
    /\ \A o \in Ops : SF_vars(LockSteps(o)) /\ WF_vars(FreeSteps(o))

FairSpec == Spec /\ Fairness

-----------------------------------------------------------------------------
(* Properties.                                                             *)

Pcs == {"idle", "begin", "begin_wait", "begin_sleep", "run", "end_wait", "end_sleep", "log",
        "relock", "install", "panic"}

TypeOK ==
    /\ phase \in {"read", "restore", "up"}
    /\ disk \in [Blocks -> Vals]
    /\ log_blocks \in [1..LogMax -> Vals]
    /\ disk_header \in Seq(Blocks)
    /\ header \in Seq(Blocks)
    /\ cache \in [Blocks -> Vals]
    /\ i \in Nat \ {0}
    /\ lock \in Ops \cup {None}
    /\ outstanding \in Int
    /\ committing \in BOOLEAN
    /\ val \in Int
    /\ sleeplist \in Seq(Ops)
    /\ pc \in [Ops -> Pcs]
    /\ rm \in [Ops -> 0..OpMax]
    /\ kills \in 0..MaxKills
    /\ dirty \in [Ops -> SUBSET Blocks]

Running == {o \in Ops : pc[o] = "run"}

\* No PANIC() is reached unless a waiting process was killed: begin_op reserved
\* room in the header for every block a running operation may still add, and no
\* operation ends while another commits.
NoPanic == kills = 0 => \A o \in Ops : pc[o] # "panic"

\* No operation runs, so no block enters the header or changes, while the last
\* one commits, and only one process commits, unless a kill let one in.
CommitAlone ==
    kills = 0 /\ committing =>
                  /\ Running = {}
                  /\ Cardinality({o \in Ops : pc[o] \in {"log", "relock", "install"}}) = 1

\* What a crash now would leave, once recovered.
Durable ==
    [b \in Blocks |->
        IF \E k \in 1..Len(disk_header) : disk_header[k] = b
        THEN log_blocks[CHOOSE k \in 1..Len(disk_header) : disk_header[k] = b]
        ELSE disk[b]]

\* The log implements the atomic disk, crashes during a commit or a recovery
\* included: until a waiting process is killed, every durable state is the
\* result of whole operations.
AD == INSTANCE AtomicDisk WITH
          mem <- IF phase = "up" THEN cache ELSE Durable,
          durable <- Durable,
          running <- Running,
          faulty <- kills > 0
ImplementsAtomicDisk == AD!Spec

\* A recovery changes nothing of what was durable, so a crash in the middle of a
\* recovery, and a second recovery, are harmless.
RecoveryKeeps == [][phase # "up" => Durable' = Durable]_vars

\* Nobody is stranded in end_op, kills or not: while a process sleeps there, some
\* operation still runs, whose end_op will commit or wake it, or commits already,
\* or the kernel has panicked (NoPanic: never without a kill).
NoStrandedEnd ==
    (\E o \in Ops : pc[o] = "end_sleep") =>
        \/ committing \/ Running # {}
        \/ \E o \in Ops : pc[o] = "panic"

\* cache.h: begin_op "should sleep until we can start a new operation".
BeginOpStarts == \A o \in Ops : pc[o] = "begin" ~> pc[o] \in {"run", "idle"}

\* cache.h: end_op "sleeps until all associated blocks are written to disk".
DurableOnReturn == \A o \in Ops : pc[o] = "idle" => dirty[o] = {}
=============================================================================
