# TLA+ specifications of OS-shiki

OS-shiki is a small AArch64 multiprocessor kernel: a scheduler with one run
queue, semaphores, a process tree with fork, exit, wait and kill, a file system
with a write-ahead log over a virtio disk, pipes, a console, a slab allocator and
user paging. All paths below are those of the repository (`src/src/...`).

The development holds specifications of the kernel's concurrent core, of its
file system and of its disk, timer and pipe code, TLC configurations that check
them on small instances, and TLAPS proofs of the core for every number of CPUs,
processes, blocks and operations.

## 1. Inventory

Kernel code runs with interrupts masked. So a CPU is preempted by its timer in
user mode and in the idle loop only, and concurrency in the kernel comes from
other CPUs, from context switches inside `sched()` and from the places that
release a spinlock and go on.

| component | state | operations | interacts with |
|---|---|---|---|
| scheduler (`kernel/sched.c`, `aarch64/swtch.S`) | `rq`, `rqlock`, `Proc.state`, `wait_time`, `killed`, `cpus[].sched` | `sched`, `yield`, `_activate_proc`, `is_zombie`, `is_unused` | called by every sleep, post, start, exit and by the timer; hands `rqlock` from stack to stack |
| semaphores (`common/sem.c`) | `val`, `sleeplist`, `lock`, `WaitData.up` | wait, post, get, get_all, post_all | sleeps and wakes through the scheduler; `kill` alerts its sleepers |
| lists (`common/list.c`) | circular links | merge, detach, iterate | run queue, sleep lists, children, cache |
| processes (`kernel/proc.c`) | tree of `parent`/`children`, `childexit`, `plock`, `elock`, `klock`, pids | fork, exit, reparent, wait, kill | scheduler, semaphores, file table, paging |
| write-ahead log (`fs/cache.c`) | `log.header`, `outstanding`, `committing`, `log.sem`, `log.lock`; header and blocks on disk | `begin_op`, `sync`, `end_op`, recovery | all inode operations; block cache; device |
| block cache (`fs/cache.c`) | list of `Block`s: `acquired`, `pinned`, `valid` | acquire, release, evict, bitmap alloc/free | log, inodes, device |
| inodes (`fs/inode.c`) | `Inode` list with `rc`, entries, block maps, directories | get, share, put, lock, sync, read, write, lookup, insert, remove | log and cache; files |
| file table (`fs/file.c`, `kernel/sysfile.c`) | `ftable`, `ref`, per-process `oftable` | alloc, dup, close, read, write, open, link, unlink, ... | inodes, pipes, process exit |
| pipes (`fs/pipe.c`) | ring buffer, `nread`, `nwrite`, two semaphores | read, write, close | file table |
| console (`kernel/console.c`) | input ring `r`, `w`, `e` | interrupt handler, read, write | UART interrupt, readers |
| virtio block driver (`driver/virtio_blk.c`, `fs/block_device.c`) | descriptor table, avail and used ring | request, interrupt | device; waiters |
| memory allocator (`kernel/mem.c`) | page list, slabs | kalloc, kfree, page alloc | everything |
| page tables and paging (`kernel/pt.c`, `paging.c`, `exec.c`) | page tables, sections, VMAs | map, copy on write, mmap, fault, exec | process, files |
| CPU timers (`kernel/cpu.c`, `driver/clock.c`) | tree of timers, virtual timer | set, cancel, clock interrupt | scheduler |
| red-black tree (`common/rbtree.c`) | nodes with parent, children, colour | insert, erase, lookup, first | CPU timers |
| traps, interrupts, system calls | registers | entry and return | all of the above |
| printing, strings, boot | none | | |

What makes each one correct:

- scheduler: one CPU per kernel stack, although a thread is RUNNABLE before
  `swtch` leaves its stack; an exact run queue; a kill is not lost on a process
  about to sleep; a stack is not freed under its user; no starvation.
- semaphores: tokens conserved when a post races an alert that ends the same
  wait; no wakeup lost between queueing and sleeping.
- log: every durable state is the result of whole operations, whenever the
  machine stops; room for every block of an admitted operation; nobody asleep
  for ever.
- processes: a tree at all times; exactly one token per child to reap; no lock
  cycle.
- memory allocator: no block or page in two hands; a page goes back exactly with
  its last block; no block lost.
- block cache: a holder sees what the last holder wrote, through evictions,
  rereads and checkpoints; no block is freed under a process that uses it.
- inodes and files: the bitmap marks exactly the blocks in use and none twice;
  every unit of a file is one that was written to that inode at that offset; link counts are the names;
  reference counts are the holders; nothing but a full disk, a full inode table or a
  file at its limit brings the kernel down.
- pipes: bytes in order, across the wrap of the indices; every sleeper woken; the
  pipe freed once, by the last end.
- virtio driver: no descriptor with two owners, none lost; every request returns.
- timers and tree: a balanced search tree with exactly the armed timers, and an
  interrupt no later than the first of them.

The hard behaviours are listed line by line under `hazards` in `PROJECT.json`.

## 2. Plan

| order | module | status |
|---|---|---|
| 1 | `ListOps`, `Sched` with `AbstractSched`, proofs | done |
| 2 | `Sem`, proofs | done |
| 3 | `Log` with `AtomicDisk`, proofs | done |
| 4 | `Proc`, proofs | done |
| 5 | `Slab`, proofs | done |
| 6 | `Inode`, `FileSys`: inodes, directories, file table, system calls; proofs of the reference counts | done |
| 7 | `BlockCache`, proofs | done |
| 8 | `Virtio`, proofs | done |
| 9 | `RbTree`, `CpuTimer` | done |
| 10 | `Pipe`, proofs | done |
| 11 | console, pid allocation, the walk of `dfs_kill`, address spaces | open |

How the modules rest on each other: `Proc`, `Log`, `Virtio` and `Pipe` use
semaphores through their operations, which `Sem` justifies; `Sem` uses `sched` and
`_activate_proc` the same way, which `Sched` justifies. `FileSys` composes the file
table with `Inode`, and takes an atomic operation as one step, which `Log`
justifies. `Log` takes the cache's contents as ideal; `BlockCache` shows how far
they are. `BlockCache` takes a disk transfer as one step that a kill may cut
short, which is what `Virtio` shows of the driver. `CpuTimer` composes the timer
code with `RbTree` and justifies the `yield` of `Sched`.

## 3. The modules

### ListOps
A circular list is the sequence of its nodes from `next` to `prev`.
`_insert_into_list` puts a node right behind the head, `_detach_from_list`
removes it (a node in no list stays so). `Oldest` is `sleeplist.prev`.

### Sched, AbstractSched, MCSched
State: see the comments of `VARIABLES`. `stack[c]` is the thread whose kernel
stack CPU `c` really executes on, which differs from `thisproc[c]` between
`update_this_proc` and `swtch`. CPU `c`'s idle thread is named `c`.

A critical section of `rqlock` without a context switch is one step. `sched()`
is three: `SchedChoose` takes the lock, runs `update_this_state`, `pick_next` and
`update_this_proc`; `swtch` changes the stack; `release_sched_lock` is run by the
thread that was resumed. `SchedKilled` is the early return of a killed caller.
The callers are `yield` (the timer handler, the idle loop), `Sleep` (`_wait_sem`),
`exit`, `activate_proc`, `kill` with `is_unused`, `SetKilled` and its alert, and
`wait`'s `FoundZombie` and `Reap`. A reaped slot becomes a fresh process.
`wait_time` ages as in `pick_next`.

`AbstractSched` is what the rest of the kernel relies on: a set of process
states, atomic switches, and no CPU that goes idle while a process is RUNNABLE.
`Sched` implements it with the identity mapping on `state` and `thisproc`.

### Sem, MCSem
One semaphore, processes and an interrupt handler `Irq` that posts. A step is a
critical section of the semaphore's lock or of `rqlock`; `_wait_sem` is
`WaitFast` or `WaitQueue`, `WaitLocks`, `WaitSched`, `WaitResume`, so that posts,
kills and alerts come between any two. `post_all_sem` goes waiter by waiter.

### Log, AtomicDisk, MCLog
`begin_op` is `BeginRun` (room), or `BeginBlock` and `BeginWait` (log.lock is
released in between, as in the code). `sync` is the caller's change of the block
with `cache_sync`. `end_op` is `EndOthers` and `EndWait`, or `EndLast` and the
commit: `CommitLog` for each log block, `CommitHeader` (the commit point),
`CommitLock`, `CommitInstall` for each block, `CommitEnd`. `Crash` can happen in
every state; `read_header`, `Restore`, `RestoreEnd` are `init_log`, and can crash
too. `BeginKilled` and `EndKilled` are what a kill does to the two waits.
`dirty` is a history variable: blocks an operation wrote that are not committed.

`AtomicDisk` has a memory image, a durable image and the set of running
operations. A commit, possible only when nothing runs, makes the memory durable
in one step; a crash sets the memory back to the durable image; nothing is
promised once `faulty`, which stands for a kill that let an operation in uncounted. The refinement
mapping takes `durable` as what recovery would leave: `log_blocks` for blocks in
the header on disk, else the block itself.

### Proc, MCProc
A step is what a process does between two acquisitions of `elock`, `klock`, a
`plock` or `rqlock`. `fork` is `ForkLink` and `ForkStart`; `wait` is
`WaitCheck`, `WaitToken` or `WaitKilled`, the scan child by child and `WaitFree`;
`exit` is `ExitLock` to `ExitZombie` with a loop of `reparent`, `ReparentInsert`,
`ReparentPost`. After `ReparentInsert` the child may be reaped and freed by
`root_proc`; `ReparentPost` then reads freed memory, a nondeterministic choice.
`lost` is a history variable that counts tokens a wait took for nothing.
`TokenPerExit` asks of root_proc only that it has no token too many: an orphan
reaped between its insertion and `is_zombie`, with another child's token, leaves
root_proc one short.

### Slab, MCSlab
A block is a page and an index in it. `free_list`, `head` and `block_count` are
the code's; `used` and `used_pages` are what callers hold. The blocks of a page
are not linked when it is split: while `head` is set, the first block of the list
is a frontier and the block behind it is carved when the frontier is handed out.
A critical section is one step unless it takes the other lock. `kalloc` is
`KallocSecond`, `KallocLast`, or `KallocEmpty` followed by `KallocSlab` or
`NoPage` and `KallocFail`; `kfree` ends in `KfreeSlab` when the page becomes empty;
`kalloc_page` counts before it takes `page_lock`, then `TakePage` or `NoPage`.
Out of pages, `NoPage` keeps `page_lock` and releases `mem_lock`, whoever holds it.

### RbTree, CpuTimer, MCTimer
`RbTree` has the tree's operations as operators on a record of nodes, one per
rebalancing case of `rbtree.c` (the mirrored halves of the code are one operator
with a direction). `CpuTimer` runs them: `SetCpuTimer`, `CancelCpuTimer`, the
clock interrupt with its loop, `FireHello`, `FireSched` (the handler calls
`sched`, which updates the preemption timer and may switch to a process that is in
or out of the same loop), `FireKilled`, and `Sched` for every other call. Times
are relative to now and `Tick` moves them. The second workload is
`test/rbtree_test.c`: nodes inserted, looked up and erased in any order.

### Inode, FileSys, MCFileSys
`Inode` has one operator per function of `inode.c`, from states to states; `Then`
chains them and stops at the first panic, failed assertion or endless wait, whose
reason is kept in `bad`. A loop of the code (the blocks of a write, the elements of
a path, the buffers of `writev`, the descriptors `exit` closes) is a recursive
function of the number of turns. A unit of a block is a directory entry, an address or a
datum. `FileSys` has one action per system call of `sysfile.c`, with `file.c` and
the file side of `fork` and `exit`. `Reboot` can follow any call and `WriteCut` is a
reboot between two atomic operations of one `write` or `writev`; `exit`, the other
call of several operations, closes its files as `close` does. A datum is the tag
of the inode and offset it was written at, so that one found anywhere else is
seen (an overwrite at the same offset that is lost is not). `counted`, `strayed`, `orphans` are histories of two things the code does:
`chdir` moves the current directory without its reference, and `pipe2` without two
free descriptors drops a file that keeps its reference. A process whose directory was
removed (`strayed`) finds in its ".." an inode that may be gone as well; `openat` does
not look at the type, so that it can write to one that is free on disk, and blocks
are marked that no inode in use owns: `BlocksOwned`, like `LinksExact`, speaks about the
time before.

### Virtio, MCVirtio
The critical section of `virtio_blk_rw` is `Submit` (or `SubmitPanic`), what
follows the wait is `Finish` or, for a killed caller, `Abandon`. The interrupt
handles all of the used ring in one step under `disk.lk`, unless a request's caller
is gone (`InterruptDead`) or its status is an error (`InterruptError`, a panic). The
device is external: it serves any request it was given, in any order. `Follow` is the walk along the
`next` fields, of `free_desc` and of the free list.

### BlockCache, MCBlockCache
A `Block` struct is a block number and a copy index, since the code can have
two of one number. `cache_acquire` is `AcquireHit`, `AcquireLock`, `AcquireMove`,
or `AcquireMiss` with the transfer behind it; `Sync`, `Checkpoint` (the end of
`end_op`) and `Release` are the holder's. `val` says whether data is what was last
written, `spoiled` and `shared` are histories of what the code allows and the
properties except.

### Pipe, MCPipe
One process per end, on CPUs of their own. The lock can be released by
who does not hold it (`strayed`), because after a sleep both calls go on without
it; so every test, post and release, and every access of the copy loops, is a step:
`pipe_write` that finds the pipe full is `WriteFull`, then `WriteFail` or `WritePost`,
`WriteDrop` and `Wait`. The byte and the index of
`data[nwrite++ % PIPE_SIZE]` are accessed in either order. `missed` is a history: a
post that told the process it could go on fell between its test and its wait. A post
that did not excuses no sleeper in `SleepersKnown`. A byte is its position
in the stream.

## 4. Runs

Every run takes about three minutes or less with two workers.

| run | instance | checks |
|---|---|---|
| `sched` | 2 CPUs, 3 process slots, all user processes, symmetry | `OneCpuPerStack`, `SchedAsserts`, `RqExact`, `KstackLive`, `KilledNotAsleep`, `BoundedBypass`, `ImplementsAbstractSched` |
| `sched_live` | 1 CPU, 3 slots, fairness | `StarvationFree` |
| `sem` | 3 processes, 1 interrupt handler, at most 3 tokens above the waiters | `SemAccounting`, `TokensConserved`, `NoLostWakeup`, `KilledWaiterAlerted` |
| `log` | 3 operations, 3 blocks, 2 values, log of 2, one kill in a wait, symmetry | `NoPanic`, `CommitAlone`, `NoStrandedEnd`, `ImplementsAtomicDisk`, `RecoveryKeeps` |
| `proc` | root_proc and 3 reusable structures, root_proc kills, symmetry | `FamilyTree`, `TokenPerExit`, `DeadlocksKnown` |
| `slab` | 2 CPUs, 3 pages of 56 bytes, blocks of 16 and 24 bytes, symmetry | `BlocksExclusive`, `PagesExclusive`, `NoBlockLost`, `PagesCounted` |
| `filesys` | 1 process, 3 inodes, 6 blocks of 2 units, 1 direct block, paths of files and directories | `BlocksOwned`, `ContentExact`, `LinksExact`, `CacheCoherent`, `FailuresKnown` |
| `files` | 2 processes, 2 files, 2 descriptors each, a pipe, a directory | `RefsExact` |
| `timer` | two timers with late interrupts; a tree of up to 11 nodes | `Balanced`, `MembersExact`, `ClockCovers` |
| `virtio` | 3 processes, 10 descriptors, 2 kills, fairness | `DescsOwned`, `RequestsReturn` |
| `cache` | 2 processes, 2 blocks, eviction above 1, one kill, symmetry | `LatestSeen`, `FreedOnlyShared` |
| `pipe` | pipe of 2 bytes, indices modulo 6, calls of up to 3 bytes | `StreamExact`, `SleepersKnown`, `FreedLast` |

`TypeOK` of `Sched`, `Sem`, `Log`, `Proc`, `Slab` and `BlockCache`, `VirtioTypeOK` and
`PipeTypeOK` are proved (section 5) and no run repeats them.

### What the code does and its comments, assertions or tests deny
These configurations are extra: they are not among the runs that `PROJECT.json`
lists, which all pass. Each checks one property that the code does not have, and TLC
prints the counterexample.

| configuration | property | what happens |
|---|---|---|
| `MCSemUnalertable.cfg` | `UnalertableSucceeds` | a killed process calls `unalertable_wait_sem`; `sched` returns at once (`kernel/sched.c:182`), the wait fails and its `ASSERT` (`common/sem.h:30`) with it |
| `MCLogBegin.cfg` | `BeginOpStarts` | `begin_op` unlocks, the commit ends and posts to nobody, `begin_op` sleeps (`fs/cache.c:279`); nothing wakes it if no other operation ends, where `fs/cache.h:154` has it sleep "until we can start a new operation" |
| `MCLogDurable.cfg` | `DurableOnReturn` | with no waiter queued `end_op` takes back the token it posted (`fs/cache.c:340`) and returns before the commit, where `fs/cache.h:185` says it "sleeps until all associated blocks are written to disk" |
| `MCProcWait.cfg` | `WaitFindsZombie` | `exit` posts before it is a ZOMBIE; `wait` takes the token, finds no zombie and returns -1 (`test/proc_test.c:65` asserts that it does not) |
| `MCProcKill.cfg` | `KillReturns` | a kill that finds its process returns with `klock` held (`kernel/proc.c:303`); the next one spins for ever |
| `MCFilesAssert.cfg` | `AssertsHold` | mkdir a, fork, the child goes to a and exits: it puts a directory it never counted, and the next path walk fails "ASSERT(inode->rc.count > 0)" of `inode_lock` |
| `MCPipeAsleep.cfg` | `NotBothAsleep` | reader and writer each miss the other's post between test and wait, and sleep for ever |

Other effects the models contain and the properties account for: `create` unlocks a
parent it never locked, which adds a permit to that directory's lock at every
create; a directory's removed entries are never reused, so that a directory in
use grows to its limit, where the kernel panics, as on a full disk and a full inode
table; a killed disk request leaks three descriptors and leaves the device a
dead stack frame; a stray release in the pipe code lets both ends see the other
closed and free the pipe twice; the second erasure of `sched_timer` by
`update_this_state` is harmless with the kernel's two timers.

`proc` does not ask TLC for deadlocks, because the code has some:
a child in `exit` holds its `plock` and takes `elock` again while its parent holds
`elock` in `exit` and spins for that `plock` in `reparent`; root_proc holds its
`plock` in `wait` and spins for a child's while the child spins for root_proc's in
`reparent`; and the leaked `klock`. `DeadlocksKnown` shows that every set of
processes that spin for each other contains one of these three acquisitions.

`slab` does not ask for deadlocks either: out of pages the code keeps `page_lock`, and
every later call for a page stops. In `filesys`, `files`, `virtio` and `cache` a
panic or the use of freed memory ends the behaviour; `pipe` can deadlock as above.

### Bounds
- `Sched`: two CPUs are the least with a race on a stack, three slots the least
  where ageing chooses between waiting processes while another runs. `wait_time`
  needs no bound: `BoundedBypass` gives it one.
- `Sem`: `MaxCredit` bounds posts and `get`s above what waiters use; three processes allow a
  queued waiter, one that resumes and one that posts or is killed.
- `Log`: `OpMax` = 1 and `LogMax` = 2 make the log full with two operations, so
  that the third waits; three blocks make a full header with a block outside it.
  `MaxKills` bounds kills of waiting processes: after the first one the properties
  that survive are `NoStrandedEnd` and `RecoveryKeeps`. Crashes are not bounded.
- `Proc`: three structures below root_proc are the least for a grandchild
  handed over while another child exits. Structures are reused, so histories are
  unbounded. Only the processes in `Killers` call kill.
- `Slab`: both sizes fill the page to its last byte, as 8 and 56 do with 4096, so that the
  offset test alone does not stop the carving; three pages let one size own two
  pages while the other owns one, or memory run out.

- `FileSys`: one direct block and an indirect block of two addresses make files
  that cross into the indirect block, end in the middle of one and reach their
  limit; `OpMax` = 6 makes a write of three units two operations, with a crash
  between them; six blocks hold a directory and a file of maximal size in it, or a
  directory in a directory, removed while it is open, and fill up. `MaxMade` bounds
  the inodes created in a run (numbers are reused), `MaxForks` the forks,
  `MaxPermits` the count of a lock's spare permits, `Pipes` the pipes.
  The paths are a fixed set with a directory, a file in it, ".." and a file
  used as a directory.
- `CpuTimer`: eleven nodes are the least with every case of the deletion's
  rebalancing; elapses of 7 and 3 with ticks of 1 give every order of the two
  timers, equal deadlines included; `MaxLag` bounds how late an interrupt is taken.
- `Virtio`: ten descriptors hold three requests and not a fourth, so that two kills
  make the next request panic; the code's NQUEUE holds five.
- `BlockCache`: eviction above one block makes every miss evict; two processes are
  the least for the races. Three processes on two blocks are out of TLC's time.
- `Pipe`: calls of 3 bytes on a pipe of 2 make a writer wait in the middle; the
  indices wrap after 6, a multiple of the size as 2^32 is. `MaxCredits` bounds the
  tokens that nobody waits for.

### Fairness
- `Sched`: somebody gets a free `rqlock` (WF on the union of the steps that take
  it: a spinlock promises no more), a CPU completes `swtch` and the unlock, each
  CPU's timer fires again and again (SF on `yield`), and a killed user process
  exits on its way back to user mode (`trap.c`).
- `Log`: a CPU goes on (WF), a process that spins for `log.lock` gets it when it
  is free again and again (SF), and an operation does finitely many `sync`s and
  calls `end_op`, as every caller in `inode.c` and `sysfile.c` does.
- `Virtio`: the device serves what it was given, its interrupt is taken, and a
  process whose semaphore was posted runs (WF); `virtio_blk_intr` is called by the
  interrupt controller for as long as the device has used entries.
- `Proc`: only for `KillReturns`: a spinning process gets `klock` or `rqlock` if
  they are free again and again.

## 5. Proofs

Each row's invariant was checked with TLC on small instances before it was proved.
The theorems hold for every value of the constants that the modules' `ASSUME`s
allow.

| module | theorems | inductive invariant |
|---|---|---|
| `ListProofs` | insertion and removal: membership, length, no duplicates; heads and tails; the length of a list without duplicates; a least natural number | |
| `SchedProofs` | every invariant of run `sched` and `ImplementsAbstractSched` | `SchedInv`: types; who holds `rqlock` (`LockInv`); arguments of calls (`CallInv`); the current thread is RUNNING and current on one CPU (`CurrentInv`); the stack is the current thread's except between choice and `swtch` (`StackInv`); the queue (`QueueInv`); a process's waiting time plus the number of processes ahead of it is below the number of slots (`Bypass`) |
| `SemProofs` | every invariant of run `sem` | types, where each waiter stands with respect to the list, and the balance of tokens |
| `LogProofs` | every property of run `log`: `TypeOK`, `NoStrandedEnd` and `RecoveryKeeps` through kills; `NoPanic`, `CommitAlone` and `ImplementsAtomicDisk` | `BaseInv`, through any kills: types; who sleeps is who is queued (`SleepInv`); the header lists no block twice and fits (`HeaderInv`); what recovery works on (`RestartInv`); who holds `log.lock` (`LockInv`); who waits in `end_op` and for whom (`StrandInv`). `LogInv`, until a kill: moreover `outstanding` counts the running operations and the committer is alone (`ControlInv`); room for all admitted operations (`RoomInv`); what log, disk and cache hold at each point of commit and recovery (`DiskInv`) |
| `ProcProofs` | every invariant of the `Proc` runs: `FamilyTree`, `TokenPerExit`, `DeadlocksKnown` | `ProcInv`: types; what a state says of its process (`StateInv`); who holds which `plock` and `elock` (`LockInv`); started and unstarted children (`StartInv`); the process in the hands of one that adopts or frees it (`HandInv`); orphans (`OrphanInv`); `FamilyTree`; no list has a node twice (`ListInv`); a rank that grows from parent to child, so that nobody is its own ancestor (`DepthInv`); the tokens, of processes that have not started too (`TokenInv`) |
| `SlabProofs` | every invariant of run `slab`, and `CountExact` | `SlabInv`: types; who is inside which critical section (`LockInv`); what is in use lies in a page of its size (`UsedInv`); pages between their last block and `free_pages` (`LimboInv`); `block_count` (`CountInv`); the frontier of each list and what lies behind it (`FrontierInv`); the three exclusion and counting properties |
| `LogProofs`, second part | every invariant of run `pipe` | `PipeInv`: types; each process where its call can be (`CallInv`); what a sleeping reader or writer is owed (`ReaderInv`, `WriterInv`); the ends and the freeing (`CloseInv`); the indices modulo their wrap-around (`IndexInv`); the bytes between them (`DataInv`) |
| `BlockCacheProofs` | every invariant of run `cache`, and `OneHolder`: no two processes are past the sleep lock of one `Block` | `CacheInv`: types; every allocated `Block` is in the list once or is being read by the one process that knows of it (`ListInv`); a process inside a call is at a `Block` (`AtInv`); holder and waiters of the sleep lock (`HolderInv`); the `acquired` flag says who claims, until two claim (`ShareInv`); one copy of a block, and where its last value is (`DataInv`) |
| `BlockCacheProofs`, second part | the invariant of run `virtio`, and `DeviceChainsKept`: no step changes a descriptor of a request that the device has | `VirtioInv`: types; the free list has no descriptor twice and all but its last have F_NEXT (`FreeInv`); a request has three descriptors, the last without F_NEXT, none of them free or another's, and `nfree` counts the rest (`ChainInv`); where each request is, and whose (`RequestInv`) |
| `FileSysProofs` | the invariant of run `files` | `FsInv`: the fields of the state, and no count at an inode that is not cached (`Shape`); every file has as many references as claims, counts on an inode or a pipe only by its type and while it is open, and no two have one end of a pipe (`FilesOK`); a process that is not there holds nothing (`ProcsOK`); the counts of the inodes, until a failure (`RcExact`) |
| `FileSysProofs`, second part | `CacheCoherent` of run `filesys` | `Sound`: the fields of the state and of every entry; every in-memory inode has the entry of the disk, and a reference if it has no links |
| `FileSysProofs`, third part | `LocksFree`, the part of `FailuresKnown` about the inode locks | `Sound`, and `Idle`: no lock is taken, the one of a file or a device has exactly one permit and that of a directory at least one |

Why the properties alone are not inductive:

- `OneCpuPerStack` needs that `rqlock` is held from the choice to the end of the
  switch, and that the thread chosen was current nowhere. `BoundedBypass` needs
  `Bypass`: how often a RUNNABLE process was passed over plus the number of those
  ahead of it stays below the number of slots.
- `FamilyTree` needs to know of the process in hand between two lists, and that its
  new parent cannot begin to leave meanwhile. `TokenPerExit` counts a token
  on its way through the wait and the scan, and needs the same of processes that fork has
  linked and not started. `DeadlocksKnown` is a
  finite-set argument: outside the three places every member of a deadlock spins for
  the `plock` of a child of its own; different members have different children, so on a
  finite set every member is a child of another, and the one of least rank cannot be.
- `NoBlockLost` and `BlocksExclusive` need the frontier: the head of a list is the
  only block whose successors in its page are neither used nor listed, and the offset
  test of `kalloc` stops exactly at the end because sizes and pages are multiples of 8.
- `StreamExact` needs the bytes between the indices in the moments when a
  process has written the byte and not the index, or the reverse, without the lock.
- `LatestSeen` needs that a `Block` being read is known to nobody else, and that a
  value that is not on disk is in a copy that is pinned or being written, so that
  eviction loses nothing. `FreedOnlyShared` needs `ShareInv`, since `release`
  drops everybody's claim with its own.
- `DescsOwned` says that the walk of `nfree` links from `free_head` meets `nfree`
  descriptors. `free_desc` appends the old free list behind the chain it frees, at the
  first descriptor without F_NEXT; that the walk then meets both, and ends
  there, needs the flags of the free list and of the chains (`FreeInv`, `ChainInv`).
- `RefsExact` compares the counts with the tables after a call; inside one they
  differ. Each operator of `Inode` has a lemma on how it moves the counts, if it
  does not fail: nowhere (`Keeps`), at one inode by d (`Moves`), from one inode to another
  (`Shifts`, a step of `namex`). The lemmas compose along `Then`, so that the one of a
  call says what the file it opens or closes accounts for. The pipe part
  needs that no two files have the same end: `file_close` closes the end of the
  last file only. The loops are proved by a least counterexample
  (`NatMin`): a turn at which the claim fails first has one before it at which it
  holds.
- `CacheCoherent` is not true inside a call: `inode_alloc` writes an entry that memory may
  remember differently until the link count is synced, and `unlinkat` has taken the last
  link of an inode before it puts it. `Coherent(s, e, l)` says where a step may be: the
  entry of inode `e` may differ from the disk, and inode `l` may have lost its links and
  its reference. Every operator of `Inode` has a lemma on what it does to `e` and `l`; every call
  ends with neither (`Settled`). A call that fails leaves what the log had committed,
  so `Sound` holds after it too, and at the next boot.
- `LocksFree` needs to know what is held inside a call: `Holds(s, a, b, d)` says that the
  locks of `a` and `b` are taken (`unlinkat` holds two, and `a` may be `b`) and that `d`
  is a directory in memory. The last is for `create`, which unlocks a parent it never
  locked: that adds a permit, and only what `namex` found out about the parent tells
  that no file's lock ever gets two.

`LogProofs` and `BlockCacheProofs` each hold the proofs of two components: the log and
`Pipe`, the two protocols of `src/fs` with locks of their own, and the cache
and `Virtio`, which serves it. The two modules share no variable; `Pipe` and `Virtio`
name their specifications `PipeSpec` and `VirtioSpec` so that both can be extended.

Assumptions: the `ASSUME`s of the modules, which TLC evaluates in each run: finite
sets of CPUs, processes and pages, `None` outside of them, natural bounds. `Pipe`:
the indices wrap at a multiple of the size, as 2^32 is of 1024. `Slab`: the sizes grow, are
multiples of 8, as are pages, each page holds more than one block, and no request
exceeds the largest size. `FileSys`: `OpMax` above 5, so that `file_write` makes
progress in each operation (the code's is 10), and paths and buffers are finite
lists. A process killed in `begin_op` goes on uncounted, after which `NoPanic`
and `CommitAlone` are false in the code: these and `ImplementsAtomicDisk` are
proved for every number of kills, and speak about the time until the first
(`UntilKilled` is `LogInv` until then).

Model-checked only:

- liveness (`StarvationFree`, `RequestsReturn`), out of the prover's reach;
- `RbTree` and `CpuTimer`, whose trees are followed by recursive operators, which the
  prover cannot use and about which it has no induction;
- the other properties of run `filesys` (`BlocksOwned`, `ContentExact`, `LinksExact`, and
  of `FailuresKnown` the list of reasons why a call may fail): what lies in the blocks of a file or a directory is
  found through its map, block by block, and the link and block counts are
  cardinalities over contents that one write changes in several places.

## 6. Abstractions

- The block cache under the log is ideal: a block in the header keeps its
  contents, any other reads as on disk. Device writes of one 512-byte block are
  atomic, the header's included. The log area on disk has room for the header's
  capacity; `begin_op` never compares the two.
- `pick_next` iterates over the list head too and reads the memory in front of it
  as a `Proc`; the model's queue has no head.
- The idle thread's `Proc` comes from the allocator and its `killed` field is
  taken as zero, as fresh memory is.
- In `Sched` the timer is a call of `yield` at any time the code allows it.
- File system: calls are one at a time, as if each held every lock it needs; nobody
  writes through a descriptor of a directory (the code does not forbid it, and no
  directory property would survive it); names are their path elements; a
  device's offset is not counted beyond the size of a file; the root directory is
  as `mkfs` leaves it. A crash inside an atomic operation is `Log`'s subject. `cwd` is
  an inode number: `chdir` does not keep the reference (`kernel/sysfile.c:584`), so
  that once the directory is removed, and its number in use again (`strayed`), the
  model goes on in the new inode where the code follows a freed struct.
- Block cache: a disk transfer is one step, a process holds one block at a time,
  and what follows the use of a freed `Block` is not followed.
- Virtio: requests carry no data and the rings are sets of chain heads, since three
  descriptors a request leave them far from full.
- Pipe: one process per end (descriptors shared by fork are in `FileSys`), and
  memory is sequentially consistent up to the order of a byte and its index.
- Timer: one CPU; times are small numbers, relative to now.
- Proc: LIVE stands for the states that `Sched` tells apart; pids, exit codes,
  open files and mappings are left out, `file_close` in `exit` is the step pair
  `ExitClose`, `ExitClosed`. A fork whose `uvmcopy` fails (`kernel/proc.c:338`) leaves a
  `Proc` that is in no list and never runs: no state of the model changes, so that it
  is no step. `dfs_kill` sees the tree in one step and may find any
  started process.
- Slab: no caller asks for a block of which a page holds only one (above 2040
  bytes). The reference counts of pages are left out, as are the steps inside a critical
  section of `mem_lock`: after memory ran out and `NoPage` released another CPU's
  `mem_lock`, two such sections could overlap.
- `my_wait_sem` and `my_post_sem` are copies of the modelled operations.

## 7. Not modelled

- Open: the console (the pipe's shape with line editing and a kill from the
  interrupt), pid allocation (`get_pid` tests the recycle list without `pidlock`),
  `dfs_kill`'s walk node by node without a `plock`, exit's sleep in `file_close`
  while it holds the spinlock `elock`, page reference counts, address spaces with
  faults, `exec`, `mmap` and `munmap` (`uvmunmap` and the error path of the page
  fault give a page of `kalloc_page` to `kfree`, and the seventeenth mapping of the
  system panics), the log area being smaller than the header's capacity, and file
  system calls of several processes inside one another.
- Not planned: page-table bits, ELF parsing, interrupt controller and UART
  registers, formatting and string functions, start-up code (no protocol state, or
  hardware access), and the lock-free queue of `list.c`, which nothing in the kernel
  calls.
