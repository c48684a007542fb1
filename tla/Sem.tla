-------------------------------- MODULE Sem --------------------------------
(***************************************************************************)
(* The semaphores of src/src/common/sem.c, one semaphore used by several   *)
(* processes and by interrupt handlers, over the scheduler of Sched: what  *)
(* matters of sched.c here is that sched() and _activate_proc() are        *)
(* serialised by rqlock, that a killed caller does not go to sleep, and    *)
(* that an alert wakes a SLEEPING process but not a DEEPSLEEPING one.      *)
(* RUNNABLE stands for RUNNABLE and RUNNING: a RUNNABLE process is         *)
(* eventually RUNNING (Sched, StarvationFree).                             *)
(***************************************************************************)
EXTENDS Integers, Sequences, FiniteSets, ListOps

CONSTANTS Procs,     \* the processes that use the semaphore
          Irq,       \* interrupt handlers: they post but never wait
          InitVal,   \* the value init_sem gives it
          MaxCredit, \* bound: tokens that may be outstanding at once
          None       \* nobody

ASSUME SemAssumption ==
    /\ IsFiniteSet(Procs) /\ Irq \notin Procs
    /\ None \notin Procs \cup {Irq}
    /\ InitVal \in Nat /\ MaxCredit \in Nat /\ InitVal <= MaxCredit

Actors == Procs \cup {Irq}

VARIABLES
    val,       \* sem->val
    sleeplist, \* sem->sleeplist, the newest waiter first
    up,        \* WaitData.up of the process's current wait
    lock,      \* the actor that holds sem->lock, or None
    rqlock,    \* the actor that holds the scheduler's lock, or None
    state,     \* the process's scheduling state
    killed,    \* Proc.killed
    pc,        \* what the actor does next
    mode,      \* the state a waiting process asked sched() for
    who,       \* the process an actor is about to activate or alert, or None
    credit     \* history: InitVal plus the posts minus the tokens taken

vars == <<val, sleeplist, up, lock, rqlock, state, killed, pc, mode, who, credit>>

Sleeps == {"SLEEPING", "DEEPSLEEPING"}

\* A process that is inside _wait_sem with a WaitData of its own.
Waiting(p) == pc[p] \in {"queued", "sched", "resume"}

init_sem ==
    /\ val = InitVal
    /\ sleeplist = <<>>
    /\ up = [p \in Procs |-> FALSE]
    /\ lock = None
    /\ rqlock = None
    /\ state = [p \in Procs |-> "RUNNABLE"]
    /\ killed = [p \in Procs |-> FALSE]
    /\ pc = [a \in Actors |-> "run"]
    /\ mode = [p \in Procs |-> "SLEEPING"]
    /\ who = [a \in Actors |-> None]
    /\ credit = InitVal

-----------------------------------------------------------------------------
(* _wait_sem, with alertable = (sleep = "SLEEPING").                       *)

\* --val >= 0: the token is taken at once.
WaitFast(p) ==
    /\ pc[p] = "run" /\ lock = None
    /\ val > 0
    /\ val' = val - 1
    /\ credit' = credit - 1
    /\ UNCHANGED <<sleeplist, up, lock, rqlock, state, killed, pc, mode, who>>

\* Otherwise the caller queues itself and keeps the lock.
WaitQueue(p, sleep) ==
    /\ pc[p] = "run" /\ lock = None
    /\ val <= 0
    /\ val' = val - 1
    /\ sleeplist' = _insert_into_list(sleeplist, p)
    /\ up' = [up EXCEPT ![p] = FALSE]
    /\ mode' = [mode EXCEPT ![p] = sleep]
    /\ lock' = p
    /\ pc' = [pc EXCEPT ![p] = "queued"]
    /\ UNCHANGED <<rqlock, state, killed, who, credit>>

\* A mutant of WaitLocks: sem->lock is released before rqlock is taken.
WaitLocksLate(p) ==
    /\ pc[p] = "queued"
    /\ lock' = None
    /\ pc' = [pc EXCEPT ![p] = "sched"]
    /\ UNCHANGED <<val, sleeplist, up, rqlock, state, killed, mode, who, credit>>

\* acquire_sched_lock(), and only then the release of sem->lock.
WaitLocks(p) ==
    /\ pc[p] = "queued" /\ rqlock = None
    /\ rqlock' = p
    /\ lock' = None
    /\ pc' = [pc EXCEPT ![p] = "sched"]
    /\ UNCHANGED <<val, sleeplist, up, state, killed, mode, who, credit>>

\* A mutant of WaitSched: sched() does not look at killed.
WaitSchedBlind(p) ==
    /\ pc[p] = "sched"
    /\ state' = [state EXCEPT ![p] = mode[p]]
    /\ rqlock' = None
    /\ pc' = [pc EXCEPT ![p] = "resume"]
    /\ UNCHANGED <<val, sleeplist, up, lock, killed, mode, who, credit>>

\* sched(mode): the caller sleeps, unless it is killed; rqlock is released.
WaitSched(p) ==
    /\ pc[p] = "sched"
    /\ state' = [state EXCEPT ![p] = IF killed[p] THEN "RUNNABLE" ELSE mode[p]]
    /\ rqlock' = None
    /\ pc' = [pc EXCEPT ![p] = "resume"]
    /\ UNCHANGED <<val, sleeplist, up, lock, killed, mode, who, credit>>

\* Mutants of WaitResume: an alerted waiter stays in the list; it gives back the
\* place of a wait that a post has already ended.
WaitResumeStays(p) ==
    /\ pc[p] = "resume" /\ state[p] = "RUNNABLE" /\ lock = None
    /\ IF up[p] THEN credit' = credit - 1 /\ UNCHANGED val
                ELSE val' = val + 1 /\ UNCHANGED credit
    /\ pc' = [pc EXCEPT ![p] = "run"]
    /\ UNCHANGED <<sleeplist, up, lock, rqlock, state, killed, mode, who>>
WaitResumeTwice(p) ==
    /\ pc[p] = "resume" /\ state[p] = "RUNNABLE" /\ lock = None
    /\ val' = val + 1
    /\ sleeplist' = _detach_from_list(sleeplist, p)
    /\ credit' = IF up[p] THEN credit - 1 ELSE credit
    /\ pc' = [pc EXCEPT ![p] = "run"]
    /\ UNCHANGED <<up, lock, rqlock, state, killed, mode, who>>

\* Back from sched(): a waiter that no post has chosen leaves the list and
\* gives its place back; the call returns up.
WaitResume(p) ==
    /\ pc[p] = "resume" /\ state[p] = "RUNNABLE" /\ lock = None
    /\ IF up[p]
       THEN /\ credit' = credit - 1
            /\ UNCHANGED <<val, sleeplist>>
       ELSE /\ val' = val + 1
            /\ sleeplist' = _detach_from_list(sleeplist, p)
            /\ UNCHANGED credit
    /\ pc' = [pc EXCEPT ![p] = "run"]
    /\ UNCHANGED <<up, lock, rqlock, state, killed, mode, who>>

-----------------------------------------------------------------------------
(* Getting a token without waiting.                                        *)

_get_sem(p) ==
    /\ pc[p] = "run" /\ lock = None
    /\ val > 0
    /\ val' = val - 1
    /\ credit' = credit - 1
    /\ UNCHANGED <<sleeplist, up, lock, rqlock, state, killed, pc, mode, who>>

get_all_sem(p) ==
    /\ pc[p] = "run" /\ lock = None
    /\ val > 0
    /\ val' = 0
    /\ credit' = credit - val
    /\ UNCHANGED <<sleeplist, up, lock, rqlock, state, killed, pc, mode, who>>

-----------------------------------------------------------------------------
(* _post_sem and post_all_sem.                                             *)

\* _post_sem when somebody waits: the oldest waiter gets the token and leaves
\* the list, and actor a goes on to activate it with sem->lock held.
Grant(a, step) ==
    LET w == Oldest(sleeplist)
    IN  /\ val' = val + 1
        /\ up' = [up EXCEPT ![w] = TRUE]
        /\ sleeplist' = _detach_from_list(sleeplist, w)
        /\ who' = [who EXCEPT ![a] = w]
        /\ credit' = credit + 1
        /\ lock' = a
        /\ pc' = [pc EXCEPT ![a] = step]
        /\ UNCHANGED <<rqlock, state, killed, mode>>

post_sem(a) ==
    /\ pc[a] = "run" /\ lock = None
    /\ credit < MaxCredit
    /\ IF val < 0
       THEN Grant(a, "wake")
       ELSE /\ val' = val + 1
            /\ credit' = credit + 1
            /\ UNCHANGED <<sleeplist, up, lock, rqlock, state, killed, pc, mode, who>>

\* post_all_sem posts until a post leaves a token, which it takes back: with
\* nobody waiting it changes nothing.
post_all_sem(a) ==
    /\ pc[a] = "run" /\ lock = None
    /\ credit + Len(sleeplist) <= MaxCredit
    /\ val < 0
    /\ Grant(a, "wakeall")

\* _activate_proc(wait->proc, false) wakes any sleeper.
Activated(a) == [state EXCEPT ![who[a]] = "RUNNABLE"]

\* The end of post_sem: sem->lock is released.
Wake(a) ==
    /\ pc[a] = "wake" /\ rqlock = None
    /\ state' = Activated(a)
    /\ who' = [who EXCEPT ![a] = None]
    /\ lock' = None
    /\ pc' = [pc EXCEPT ![a] = "run"]
    /\ UNCHANGED <<val, sleeplist, up, rqlock, killed, mode, credit>>

\* One round of post_all_sem's loop: the woken waiter, then the next post.
WakeAll(a) ==
    /\ pc[a] = "wakeall" /\ rqlock = None
    /\ state' = Activated(a)
    /\ who' = [who EXCEPT ![a] = None]
    /\ pc' = [pc EXCEPT ![a] = "next"]
    /\ UNCHANGED <<val, sleeplist, up, lock, rqlock, killed, mode, credit>>

PostAllNext(a) ==
    /\ pc[a] = "next"
    /\ IF val < 0
       THEN Grant(a, "wakeall")
       ELSE /\ lock' = None
            /\ pc' = [pc EXCEPT ![a] = "run"]
            /\ UNCHANGED <<val, sleeplist, up, rqlock, state, killed, mode, who, credit>>

-----------------------------------------------------------------------------
(* kill(): the flag first, the alert later.                                *)

Kill(a, p) ==
    /\ pc[a] = "run"
    /\ killed' = [killed EXCEPT ![p] = TRUE]
    /\ who' = [who EXCEPT ![a] = p]
    /\ pc' = [pc EXCEPT ![a] = "alert"]
    /\ UNCHANGED <<val, sleeplist, up, lock, rqlock, state, mode, credit>>

Alert(a) ==
    /\ pc[a] = "alert" /\ rqlock = None
    /\ state' = IF state[who[a]] = "SLEEPING" THEN Activated(a) ELSE state
    /\ who' = [who EXCEPT ![a] = None]
    /\ pc' = [pc EXCEPT ![a] = "run"]
    /\ UNCHANGED <<val, sleeplist, up, lock, rqlock, killed, mode, credit>>

-----------------------------------------------------------------------------
Wait(p) ==
    \/ WaitFast(p) \/ \E sleep \in Sleeps : WaitQueue(p, sleep)
    \/ WaitLocks(p) \/ WaitSched(p) \/ WaitResume(p)
    \/ _get_sem(p) \/ get_all_sem(p)

Post(a) ==
    \/ post_sem(a) \/ post_all_sem(a) \/ Wake(a) \/ WakeAll(a) \/ PostAllNext(a)
    \/ Alert(a) \/ \E p \in Procs : Kill(a, p)

Next == (\E p \in Procs : Wait(p)) \/ (\E a \in Actors : Post(a))

Spec == init_sem /\ [][Next]_vars

-----------------------------------------------------------------------------
(* Properties.                                                             *)

\* The waits that a post has ended and that have not returned yet.
Granted == {p \in Procs : Waiting(p) /\ up[p]}

TypeOK ==
    /\ val \in Int
    /\ sleeplist \in Seq(Procs)
    /\ up \in [Procs -> BOOLEAN]
    /\ lock \in Actors \cup {None}
    /\ rqlock \in Actors \cup {None}
    /\ state \in [Procs -> Sleeps \cup {"RUNNABLE"}]
    /\ killed \in [Procs -> BOOLEAN]
    /\ pc \in [Actors -> {"run", "queued", "sched", "resume", "wake", "wakeall",
                          "next", "alert"}]
    /\ mode \in [Procs -> Sleeps]
    /\ who \in [Actors -> Procs \cup {None}]
    /\ credit \in Nat

\* A negative value counts the waiters in the list, which are the waits that no
\* post has ended: the assertions of _wait_sem and _post_sem cannot fail.
SemAccounting ==
    /\ Len(sleeplist) = IF val < 0 THEN -val ELSE 0
    /\ NoDup(sleeplist)
    /\ Elems(sleeplist) = {p \in Procs : Waiting(p) /\ ~up[p]}

\* No token is lost or made up, whatever posts, alerts and kills race: what was
\* posted and not taken is in val or granted to a waiter on its way out.
TokensConserved == credit = (IF val > 0 THEN val ELSE 0) + Cardinality(Granted)

\* A waiter that got a token is not left asleep: the poster that chose it is
\* still about to activate it.
NoLostWakeup ==
    \A p \in Procs :
        Waiting(p) /\ up[p] /\ state[p] \in Sleeps =>
            \E a \in Actors : pc[a] \in {"wake", "wakeall"} /\ who[a] = p

\* A killed process is not left in an alertable wait.
KilledWaiterAlerted ==
    \A p \in Procs :
        killed[p] /\ state[p] = "SLEEPING" =>
            \E a \in Actors : pc[a] = "alert" /\ who[a] = p

\* sem.h, unalertable_wait_sem: ASSERT((_lock_sem(sem), _wait_sem(sem, false))).
\* A wait in DEEPSLEEPING mode never returns false.
UnalertableSucceeds ==
    [][\A p \in Procs : WaitResume(p) /\ mode[p] = "DEEPSLEEPING" => up[p]]_vars
=============================================================================
