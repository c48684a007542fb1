-------------------------------- MODULE Pipe --------------------------------
(***************************************************************************)
(* A pipe of src/src/fs/pipe.c between the process that has its read end   *)
(* and the one that has its write end, each on a CPU of its own.           *)
(*                                                                         *)
(* Both release pi->lock to sleep and go on without it when they wake, so  *)
(* that their accesses are steps of their own: a test, the post and the    *)
(* release that follow it, the byte and the index of a copy in either      *)
(* order; a release opens the lock whoever took it.  A byte is known by    *)
(* its position in the stream, as the indices count them (modulo Wrap, the *)
(* range of a u32).                                                        *)
(***************************************************************************)
EXTENDS Integers

CONSTANTS
    Size,       \* PIPE_SIZE
    Wrap,       \* 2^32: the indices wrap
    MaxBytes,   \* bound: bytes of one call
    MaxCredits  \* bound: posts of rlock nobody has waited for

ASSUME PipeAssumption ==
    /\ {Size, Wrap, MaxBytes, MaxCredits} \subseteq Nat \ {0}
    /\ Wrap % Size = 0 /\ Wrap > 2 * Size

Procs == {"reader", "writer"}
Other(p) == IF p = "reader" THEN "writer" ELSE "reader"

VARIABLES
    owner,    \* who took pi->lock, or "none"
    credits,  \* rlock, wlock: the positive value of the semaphore p waits for
    data, nread, nwrite,
    open,     \* readopen, writeopen
    freed,    \* the pipe was given to kfree
    step,     \* what every process does next
    left,     \* the bytes left of its call
    killed,
    \* histories
    missed,   \* p was posted, with a reason to go on, between its test and its wait
    met,      \* the writer was in its critical section since this byte's read began
    bad,      \* a byte was read that is not the next, and the writer was not met
    strayed   \* a process released the lock the other one had taken

ring == <<data, nread, nwrite>>
hist == <<missed, met, bad, strayed>>
pipe_vars == <<owner, credits, ring, open, freed, step, left, killed, hist>>

\* An empty slot holds no byte of the stream.
init_pipe ==
    /\ owner = "none"
    /\ credits = [p \in Procs |-> 0]
    /\ data = [s \in 0..(Size - 1) |-> Wrap]
    /\ nread = 0 /\ nwrite = 0
    /\ open = [p \in Procs |-> TRUE]
    /\ freed = FALSE
    /\ step = [p \in Procs |-> "idle"]
    /\ left = [p \in Procs |-> 0]
    /\ killed = [p \in Procs |-> FALSE]
    /\ missed = [p \in Procs |-> FALSE]
    /\ met = FALSE /\ bad = FALSE /\ strayed = FALSE

-----------------------------------------------------------------------------
(* The lock and the semaphores. *)

Halfway == {"index", "data"}
Leaving == {"full", "empty", "drop"}
InSection(p) ==
    step[p] \in {"loop", "copy", "done", "set", "check", "free"} \cup Leaving \cup Halfway

\* After the pipe was freed, or a process panicked, nothing is followed.
Stopped == freed \/ \E p \in Procs : step[p] = "panic"
At(p, where) == ~Stopped /\ step[p] = where

\* The writer is seen by the byte that is being read.
Watch == met' = \/ InSection("writer")'
                \/ met /\ step'["reader"] \in Halfway

\* acquire_spinlock.
Acquire(p, then) ==
    /\ owner = "none"
    /\ owner' = p
    /\ step' = [step EXCEPT ![p] = then]
    /\ Watch
    /\ UNCHANGED <<credits, ring, open, freed, left, killed, missed, bad, strayed>>

\* release_spinlock by p, who need not have the lock.
Release(p) ==
    /\ owner' = "none"
    /\ strayed' = (strayed \/ owner = Other(p))

\* p goes on at `then`, and the process q that is posted, when it is asleep, at
\* its loop.
Wake(p, then, q) ==
    step' = [step EXCEPT ![p] = then, ![q] = IF @ = "asleep" THEN "loop" ELSE @]

\* A mutant of Full: one byte more than there is room for.
FullLate == nwrite = (nread + Size + 1) % Wrap

\* What p waits for: room, or a byte, or that there is nobody to wait for.
Full == nwrite = (nread + Size) % Wrap
Empty == nread = nwrite
MayGoOn(p) == ~open[Other(p)] \/ IF p = "reader" THEN ~Empty ELSE ~Full

\* post_sem and post_all_sem of the semaphore q waits for; the latter leaves no
\* credit behind, and is missed by a q that is on its way to its wait and has `reason`
\* to go on.
PostSem(q) == credits' = [credits EXCEPT ![q] = IF step[q] = "asleep" THEN @ ELSE @ + 1]

PostAllSem(q, reason) ==
    /\ missed' = [missed EXCEPT ![q] = @ \/ (reason /\ step[q] \in Leaving \cup {"wait"})]
    /\ UNCHANGED credits

\* unalertable_wait_sem, after the lock is released.
Wait(p) ==
    /\ At(p, "wait") /\ (credits[p] > 0 \/ ~killed[p])
    /\ IF credits[p] > 0
       THEN /\ credits' = [credits EXCEPT ![p] = @ - 1]
            /\ step' = [step EXCEPT ![p] = "loop"]
       ELSE step' = [step EXCEPT ![p] = "asleep"] /\ UNCHANGED credits
    /\ Watch
    /\ UNCHANGED <<owner, ring, open, freed, left, killed, missed, bad, strayed>>

\* sched does not put a killed caller to sleep: the wait fails, and its ASSERT.
WaitKilled(p) ==
    /\ At(p, "wait") /\ credits[p] = 0 /\ killed[p]
    /\ step' = [step EXCEPT ![p] = "panic"]
    /\ Watch
    /\ UNCHANGED <<owner, credits, ring, open, freed, left, killed, missed, bad, strayed>>

\* The caller finds the pipe full or empty; it has missed nothing yet.
Block(p, then) ==
    /\ step' = [step EXCEPT ![p] = then]
    /\ missed' = [missed EXCEPT ![p] = FALSE]
    /\ Watch
    /\ UNCHANGED <<owner, credits, ring, open, freed, left, killed, bad, strayed>>

\* It lets go of the lock.
Leave(p, then) ==
    /\ Release(p)
    /\ step' = [step EXCEPT ![p] = then]
    /\ Watch
    /\ UNCHANGED <<credits, ring, open, freed, left, killed, missed, bad>>

-----------------------------------------------------------------------------
(* A system call of p, until it takes the lock. *)

Call(p) ==
    /\ At(p, "idle") /\ open[p] /\ ~killed[p]
    /\ \E n \in 0..MaxBytes : left' = [left EXCEPT ![p] = n]
    /\ step' = [step EXCEPT ![p] = "call"]
    /\ UNCHANGED <<owner, credits, ring, open, freed, killed, hist>>

Enter(p) == At(p, "call") /\ Acquire(p, "loop")

Kill(p) ==
    /\ ~Stopped /\ step[p] # "closed" /\ ~killed[p]
    /\ killed' = [killed EXCEPT ![p] = TRUE]
    /\ UNCHANGED <<owner, credits, ring, open, freed, step, left, hist>>

-----------------------------------------------------------------------------
(* pipe_write. *)

\* The while loop finds the pipe full.
WriteFull ==
    /\ At("writer", "loop") /\ left["writer"] > 0 /\ Full
    /\ Block("writer", "full")

\* The call fails when nobody reads or the writer is killed, else a reader is
\* posted, the lock released, and the writer waits.
WriteFail ==
    /\ At("writer", "full") /\ (~open["reader"] \/ killed["writer"])
    /\ Leave("writer", "idle")

WritePost ==
    /\ At("writer", "full") /\ open["reader"] /\ ~killed["writer"]
    /\ credits["reader"] < MaxCredits
    /\ Wake("writer", "drop", "reader")
    /\ PostSem("reader")
    /\ Watch
    /\ UNCHANGED <<owner, ring, open, freed, left, killed, missed, bad, strayed>>

WriteDrop == At("writer", "drop") /\ Leave("writer", "wait")

\* data[nwrite++ % PIPE_SIZE] = src[i], one half first.
Stored(n) == [data EXCEPT ![n % Size] = n]

WriteByte(half) ==
    /\ At("writer", "loop") /\ left["writer"] > 0 /\ ~Full
    /\ IF half = "index" THEN data' = Stored(nwrite) /\ UNCHANGED nwrite
       ELSE nwrite' = (nwrite + 1) % Wrap /\ UNCHANGED data
    /\ step' = [step EXCEPT !["writer"] = half]
    /\ Watch
    /\ UNCHANGED <<owner, credits, nread, open, freed, left, killed, missed, bad, strayed>>

WriteRest ==
    /\ step["writer"] \in Halfway /\ At("writer", step["writer"])
    /\ IF step["writer"] = "data" THEN data' = Stored((nwrite + Wrap - 1) % Wrap) /\ UNCHANGED nwrite
       ELSE nwrite' = (nwrite + 1) % Wrap /\ UNCHANGED data
    /\ left' = [left EXCEPT !["writer"] = @ - 1]
    /\ step' = [step EXCEPT !["writer"] = "loop"]
    /\ Watch
    /\ UNCHANGED <<owner, credits, nread, open, freed, killed, missed, bad, strayed>>

\* All bytes are written: the readers are posted.
WriteDone ==
    /\ At("writer", "loop") /\ left["writer"] = 0
    /\ PostAllSem("reader", MayGoOn("reader"))
    /\ Wake("writer", "done", "reader")
    /\ Watch
    /\ UNCHANGED <<owner, ring, open, freed, left, killed, bad, strayed>>

WriteReturn == At("writer", "done") /\ Leave("writer", "idle")

-----------------------------------------------------------------------------
(* pipe_read. *)

\* The while loop finds the pipe empty, or the copying begins.
ReadLoop ==
    /\ At("reader", "loop")
    /\ IF Empty /\ open["writer"] THEN Block("reader", "empty")
       ELSE /\ step' = [step EXCEPT !["reader"] = "copy"]
            /\ Watch
            /\ UNCHANGED <<owner, credits, ring, open, freed, left, killed, missed, bad, strayed>>

\* The lock is released; a killed reader gives up.
ReadDrop ==
    /\ At("reader", "empty")
    /\ Leave("reader", IF killed["reader"] THEN "idle" ELSE "wait")

\* The byte at position n is loaded from its slot.
Load(n) == bad' = (bad \/ (data[n % Size] # n /\ ~met))

\* dst[i] = data[nread++ % PIPE_SIZE], one half first.
ReadByte(half) ==
    /\ At("reader", "copy") /\ left["reader"] > 0 /\ ~Empty
    /\ IF half = "index" THEN Load(nread) /\ UNCHANGED nread
       ELSE nread' = (nread + 1) % Wrap /\ UNCHANGED bad
    /\ step' = [step EXCEPT !["reader"] = half]
    /\ Watch
    /\ UNCHANGED <<owner, credits, data, nwrite, open, freed, left, killed, missed, strayed>>

ReadRest ==
    /\ step["reader"] \in Halfway /\ At("reader", step["reader"])
    /\ IF step["reader"] = "data" THEN Load((nread + Wrap - 1) % Wrap) /\ UNCHANGED nread
       ELSE nread' = (nread + 1) % Wrap /\ UNCHANGED bad
    /\ left' = [left EXCEPT !["reader"] = @ - 1]
    /\ step' = [step EXCEPT !["reader"] = "copy"]
    /\ Watch
    /\ UNCHANGED <<owner, credits, data, nwrite, open, freed, killed, missed, strayed>>

ReadDone ==
    /\ At("reader", "copy") /\ (left["reader"] = 0 \/ Empty)
    /\ step' = [step EXCEPT !["reader"] = "done"]
    /\ Watch
    /\ UNCHANGED <<owner, credits, ring, open, freed, left, killed, missed, bad, strayed>>

ReadReturn == At("reader", "done") /\ Leave("reader", "post")

\* A mutant of ReadPost: the writers are not posted.
ReadPostQuiet ==
    /\ At("reader", "post")
    /\ step' = [step EXCEPT !["reader"] = "idle"]
    /\ Watch
    /\ UNCHANGED <<owner, credits, ring, open, freed, left, killed, missed, bad, strayed>>

\* The writers are posted after the lock was released.
ReadPost ==
    /\ At("reader", "post")
    /\ PostAllSem("writer", MayGoOn("writer"))
    /\ Wake("reader", "idle", "writer")
    /\ Watch
    /\ UNCHANGED <<owner, ring, open, freed, left, killed, bad, strayed>>

-----------------------------------------------------------------------------
(* pipe_close, when the last descriptor of p's end is closed. *)

Close(p) == At(p, "idle") /\ Acquire(p, "set")

CloseSet(p) ==
    /\ At(p, "set")
    /\ open' = [open EXCEPT ![p] = FALSE]
    /\ PostAllSem(Other(p), TRUE)
    /\ Wake(p, "check", Other(p))
    /\ Watch
    /\ UNCHANGED <<owner, ring, freed, left, killed, bad, strayed>>

\* A mutant of LastEnd: either end frees the pipe.
LastEndAny == \E p \in Procs : ~open[p]

LastEnd == \A p \in Procs : ~open[p]

\* The lock is released; the process that saw both ends closed frees the pipe.
CloseCheck(p) ==
    /\ At(p, "check")
    /\ Release(p)
    /\ step' = [step EXCEPT ![p] = IF LastEnd THEN "free" ELSE "closed"]
    /\ Watch
    /\ UNCHANGED <<credits, ring, open, freed, left, killed, missed, bad>>

CloseFree(p) ==
    /\ At(p, "free")
    /\ freed' = TRUE
    /\ step' = [step EXCEPT ![p] = "closed"]
    /\ Watch
    /\ UNCHANGED <<owner, credits, ring, open, left, killed, missed, bad, strayed>>

-----------------------------------------------------------------------------
PipeNext ==
    \/ \E p \in Procs : Call(p) \/ Enter(p) \/ Kill(p) \/ Wait(p) \/ WaitKilled(p)
    \/ \E p \in Procs : Close(p) \/ CloseSet(p) \/ CloseCheck(p) \/ CloseFree(p)
    \/ WriteFull \/ WriteFail \/ WritePost \/ WriteDrop \/ WriteRest \/ WriteDone \/ WriteReturn
    \/ ReadLoop \/ ReadDrop \/ ReadRest \/ ReadDone \/ ReadReturn \/ ReadPost
    \/ \E half \in Halfway : WriteByte(half) \/ ReadByte(half)

PipeSpec == init_pipe /\ [][PipeNext]_pipe_vars

-----------------------------------------------------------------------------
(* Properties. *)

\* With the lock or without it the indices never run over each other, across
\* their wrap-around too, and every byte read is the next of the stream unless the
\* writer was in its critical section while it was read.
StreamExact == (nwrite - nread) % Wrap <= Size /\ ~bad

\* A process that sleeps although it could go on is about to be posted, or a post
\* that told it so fell between its test of the pipe and its wait (a post for which
\* it could not have gone on excuses nothing); a writer that was killed posts when
\* it exits.
SleepersKnown ==
    /\ (step["reader"] = "asleep" /\ MayGoOn("reader"))
         => \/ missed["reader"]
            \/ step["writer"] \in {"loop", "full", "set"} \cup Halfway
            \/ killed["writer"] /\ open["writer"]
    /\ (step["writer"] = "asleep" /\ MayGoOn("writer"))
         => \/ missed["writer"]
            \/ step["reader"] \in {"copy", "done", "post", "set"} \cup Halfway

\* kfree gets the pipe when both processes are done with it: neither uses it or
\* frees it again, unless one that went on without the lock released it while the
\* other had it.
FreedLast == (freed /\ ~strayed) => \A p \in Procs : step[p] = "closed"

\* Reader and writer do not wait for each other for ever: not so in the code, where
\* each can miss the other's post between its test of the pipe and its wait.
NotBothAsleep == \E p \in Procs : step[p] # "asleep"
=============================================================================
