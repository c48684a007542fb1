-------------------------------- MODULE Proc --------------------------------
(***************************************************************************)
(* The life of processes in src/src/kernel/proc.c: fork, exit with its     *)
(* reparenting, wait and kill, by processes that run at the same time on   *)
(* several CPUs.  A step is what a process does between two acquisitions   *)
(* of a spinlock: elock, klock, a process's plock and the scheduler's      *)
(* rqlock.  childexit is used through its operations (module Sem): it      *)
(* holds its tokens, and a wait takes one, or fails if the waiter is       *)
(* killed.  LIVE stands for the states of a started process, which Sched   *)
(* tells apart.                                                            *)
(***************************************************************************)
EXTENDS Integers, Sequences, FiniteSets, ListOps

CONSTANTS Procs,   \* the Proc structures, allocated or not
          Root,    \* root_proc, which waits for orphans and never exits
          Killers, \* the processes that call kill
          None     \* nobody

ASSUME ProcAssumption ==
    /\ IsFiniteSet(Procs) /\ Root \in Procs /\ None \notin Procs
    /\ Killers \subseteq Procs

VARIABLES
    state,     \* "FREE" (no structure), "UNUSED", "LIVE" or "ZOMBIE"
    parent,    \* Proc.parent
    children,  \* Proc.children, the newest child first
    childexit, \* the tokens of Proc.childexit
    killed,    \* Proc.killed
    plock,     \* the process that holds Proc.plock, or None
    elock,     \* the process that holds elock, or None
    klock,     \* the process that holds klock, or None
    rqlock,    \* the process that holds the scheduler's lock, or None
    pc,        \* what each process does next
    cur,       \* the process it has in hand: node's container in the code
    rest,      \* the children its scan has still to look at
    lost       \* history: tokens that a wait took for nothing

tree  == <<parent, children>>
locks == <<plock, elock, klock, rqlock>>
vars  == <<state, tree, childexit, killed, locks, pc, cur, rest, lost>>

\* init_kproc: root_proc is alone and is its own parent.
init_kproc ==
    /\ state = [p \in Procs |-> IF p = Root THEN "LIVE" ELSE "FREE"]
    /\ parent = [p \in Procs |-> Root]
    /\ children = [p \in Procs |-> <<>>]
    /\ childexit = [p \in Procs |-> 0]
    /\ killed = [p \in Procs |-> FALSE]
    /\ plock = [p \in Procs |-> None]
    /\ elock = None
    /\ klock = None
    /\ rqlock = None
    /\ pc = [p \in Procs |-> "run"]
    /\ cur = [p \in Procs |-> None]
    /\ rest = [p \in Procs |-> <<>>]
    /\ lost = [p \in Procs |-> 0]

At(p, label) == state[p] = "LIVE" /\ pc[p] = label
Goto(p, label) == pc' = [pc EXCEPT ![p] = label]

-----------------------------------------------------------------------------
(* fork, and create_proc with set_parent_to_this and start_proc.           *)

\* create_proc: init_proc gives structure q its values.
init_proc(q) ==
    /\ state[q] = "FREE"
    /\ state' = [state EXCEPT ![q] = "UNUSED"]
    /\ childexit' = [childexit EXCEPT ![q] = 0]
    /\ killed' = [killed EXCEPT ![q] = FALSE]
    /\ lost' = [lost EXCEPT ![q] = 0]

\* p makes q its child, under its own plock.
set_parent_to_this(p, q) ==
    /\ plock[p] = None
    /\ parent' = [parent EXCEPT ![q] = p]
    /\ children' = [children EXCEPT ![p] = _insert_into_list(@, q), ![q] = <<>>]

\* fork up to start_proc; the creation of a kernel process is the same. When uvmcopy
\* fails, the new Proc is in no list yet and nobody starts it: no state changes.
ForkLink(p, q) ==
    /\ At(p, "run")
    /\ init_proc(q)
    /\ set_parent_to_this(p, q)
    /\ pc' = [pc EXCEPT ![p] = "start", ![q] = "run"]
    /\ cur' = [cur EXCEPT ![p] = q]
    /\ UNCHANGED <<locks, rest>>

\* activate_proc.
ForkStart(p) ==
    /\ At(p, "start") /\ rqlock = None
    /\ state' = [state EXCEPT ![cur[p]] = "LIVE"]
    /\ cur' = [cur EXCEPT ![p] = None]
    /\ Goto(p, "run")
    /\ UNCHANGED <<tree, childexit, killed, locks, rest, lost>>

-----------------------------------------------------------------------------
(* wait.                                                                   *)

\* With no child the call returns -1, and nothing changes.
WaitCheck(p) ==
    /\ At(p, "run") /\ plock[p] = None
    /\ children[p] # <<>>
    /\ Goto(p, "wait")
    /\ UNCHANGED <<state, tree, childexit, killed, locks, cur, rest, lost>>

WaitToken(p) ==
    /\ At(p, "wait") /\ childexit[p] > 0
    /\ childexit' = [childexit EXCEPT ![p] = @ - 1]
    /\ Goto(p, "token")
    /\ UNCHANGED <<state, tree, killed, locks, cur, rest, lost>>

\* wait_sem fails, and so does the call.
WaitKilled(p) ==
    /\ At(p, "wait") /\ childexit[p] = 0
    /\ killed[p]
    /\ Goto(p, "run")
    /\ UNCHANGED <<state, tree, childexit, killed, locks, cur, rest, lost>>

ScanStart(p) ==
    /\ At(p, "token") /\ plock[p] = None
    /\ plock' = [plock EXCEPT ![p] = p]
    /\ rest' = [rest EXCEPT ![p] = children[p]]
    /\ Goto(p, "scan")
    /\ UNCHANGED <<state, tree, childexit, killed, elock, klock, rqlock, cur, lost>>

\* The next child is looked at under its plock, but not under rqlock.
ScanSkip(p) ==
    /\ At(p, "scan") /\ rest[p] # <<>>
    /\ plock[Head(rest[p])] = None
    /\ state[Head(rest[p])] # "ZOMBIE"
    /\ rest' = [rest EXCEPT ![p] = Tail(@)]
    /\ UNCHANGED <<state, tree, childexit, killed, locks, pc, cur, lost>>

\* A zombie is taken out of the tree.
ScanFound(p) ==
    /\ At(p, "scan") /\ rest[p] # <<>>
    /\ plock[Head(rest[p])] = None
    /\ state[Head(rest[p])] = "ZOMBIE"
    /\ children' = [children EXCEPT ![p] = _detach_from_list(@, Head(rest[p]))]
    /\ cur' = [cur EXCEPT ![p] = Head(rest[p])]
    /\ plock' = [plock EXCEPT ![p] = None]
    /\ rest' = [rest EXCEPT ![p] = <<>>]
    /\ Goto(p, "free")
    /\ UNCHANGED <<state, parent, childexit, killed, elock, klock, rqlock, lost>>

\* Its stack and its structure are freed, and its pid is returned.
WaitFree(p) ==
    /\ At(p, "free") /\ rqlock = None
    /\ state' = [state EXCEPT ![cur[p]] = "FREE"]
    /\ cur' = [cur EXCEPT ![p] = None]
    /\ Goto(p, "run")
    /\ UNCHANGED <<tree, childexit, killed, locks, rest, lost>>

\* No child is a zombie: the call returns -1 and its token is gone.
ScanNone(p) ==
    /\ At(p, "scan") /\ rest[p] = <<>>
    /\ plock' = [plock EXCEPT ![p] = None]
    /\ lost' = [lost EXCEPT ![p] = @ + 1]
    /\ Goto(p, "run")
    /\ UNCHANGED <<state, tree, childexit, killed, elock, klock, rqlock, cur, rest>>

-----------------------------------------------------------------------------
(* exit.                                                                   *)

ExitLock(p) ==
    /\ p # Root /\ At(p, "run") /\ elock = None
    /\ elock' = p
    /\ Goto(p, "exit")
    /\ UNCHANGED <<state, tree, childexit, killed, plock, klock, rqlock, cur, rest, lost>>

ExitPlock(p) ==
    /\ At(p, "exit") /\ plock[p] = None
    /\ plock' = [plock EXCEPT ![p] = p]
    /\ Goto(p, "reparent")
    /\ UNCHANGED <<state, tree, childexit, killed, elock, klock, rqlock, cur, rest, lost>>

\* A mutant of reparent: the child's parent stays the same.
ReparentListOnly(p) ==
    /\ At(p, "reparent") /\ children[p] # <<>>
    /\ plock[Head(children[p])] = None
    /\ children' = [children EXCEPT ![p] = _detach_from_list(@, Head(children[p]))]
    /\ cur' = [cur EXCEPT ![p] = Head(children[p])]
    /\ Goto(p, "adopt")
    /\ UNCHANGED <<state, parent, childexit, killed, locks, rest, lost>>

\* One round of reparent's loop: the first child gets root_proc as its parent
\* under the child's plock and leaves the list ...
reparent(p) ==
    /\ At(p, "reparent") /\ children[p] # <<>>
    /\ plock[Head(children[p])] = None
    /\ parent' = [parent EXCEPT ![Head(children[p])] = Root]
    /\ children' = [children EXCEPT ![p] = _detach_from_list(@, Head(children[p]))]
    /\ cur' = [cur EXCEPT ![p] = Head(children[p])]
    /\ Goto(p, "adopt")
    /\ UNCHANGED <<state, childexit, killed, locks, rest, lost>>

\* ... it enters root_proc's list under root_proc's plock ...
ReparentInsert(p) ==
    /\ At(p, "adopt") /\ plock[Root] = None
    /\ children' = [children EXCEPT ![Root] = _insert_into_list(@, cur[p])]
    /\ Goto(p, "adopted")
    /\ UNCHANGED <<state, parent, childexit, killed, locks, cur, rest, lost>>

Tokens(p) == [childexit EXCEPT ![p] = @ + 1]

\* A mutant of ReparentPost: root_proc is told of living orphans too.
ReparentPostAlways(p) ==
    /\ At(p, "adopted") /\ rqlock = None
    /\ childexit' = Tokens(Root)
    /\ cur' = [cur EXCEPT ![p] = None]
    /\ Goto(p, "reparent")
    /\ UNCHANGED <<state, tree, killed, locks, rest, lost>>

\* ... and if is_zombie, root_proc is told.  root_proc may have reaped the child
\* by now: the state is then whatever the freed memory holds.
ReparentPost(p) ==
    /\ At(p, "adopted") /\ rqlock = None
    /\ \/ state[cur[p]] \in {"ZOMBIE", "FREE"} /\ childexit' = Tokens(Root)
       \/ state[cur[p]] # "ZOMBIE" /\ UNCHANGED childexit
    /\ cur' = [cur EXCEPT ![p] = None]
    /\ Goto(p, "reparent")
    /\ UNCHANGED <<state, tree, killed, locks, rest, lost>>

ReparentEnd(p) ==
    /\ At(p, "reparent") /\ children[p] = <<>>
    /\ Goto(p, "files")
    /\ UNCHANGED <<state, tree, childexit, killed, locks, cur, rest, lost>>

\* A mutant of ExitClose: plock is kept over file_close.
ExitCloseLocked(p) ==
    /\ At(p, "files")
    /\ Goto(p, "close")
    /\ UNCHANGED <<state, tree, childexit, killed, locks, cur, rest, lost>>

\* An open file is closed without plock.
ExitClose(p) ==
    /\ At(p, "files")
    /\ plock' = [plock EXCEPT ![p] = None]
    /\ Goto(p, "close")
    /\ UNCHANGED <<state, tree, childexit, killed, elock, klock, rqlock, cur, rest, lost>>

ExitClosed(p) ==
    /\ At(p, "close") /\ plock[p] = None
    /\ plock' = [plock EXCEPT ![p] = p]
    /\ Goto(p, "files")
    /\ UNCHANGED <<state, tree, childexit, killed, elock, klock, rqlock, cur, rest, lost>>

\* The mappings are undone without elock, but with plock.
ExitUnlock(p) ==
    /\ At(p, "files")
    /\ elock' = None
    /\ Goto(p, "unmap")
    /\ UNCHANGED <<state, tree, childexit, killed, plock, klock, rqlock, cur, rest, lost>>

ExitRelock(p) ==
    /\ At(p, "unmap") /\ elock = None
    /\ elock' = p
    /\ Goto(p, "post")
    /\ UNCHANGED <<state, tree, childexit, killed, plock, klock, rqlock, cur, rest, lost>>

ExitPost(p) ==
    /\ At(p, "post")
    /\ childexit' = Tokens(parent[p])
    /\ Goto(p, "posted")
    /\ UNCHANGED <<state, tree, killed, locks, cur, rest, lost>>

\* rqlock first, and then plock and elock are released.
ExitSched(p) ==
    /\ At(p, "posted") /\ rqlock = None
    /\ rqlock' = p
    /\ plock' = [plock EXCEPT ![p] = None]
    /\ elock' = None
    /\ Goto(p, "sched")
    /\ UNCHANGED <<state, tree, childexit, killed, klock, cur, rest, lost>>

\* sched(ZOMBIE) gives the CPU away and releases rqlock.
ExitZombie(p) ==
    /\ At(p, "sched")
    /\ state' = [state EXCEPT ![p] = "ZOMBIE"]
    /\ rqlock' = None
    /\ Goto(p, "dead")
    /\ UNCHANGED <<tree, childexit, killed, plock, elock, klock, cur, rest, lost>>

-----------------------------------------------------------------------------
(* kill.                                                                   *)

kill(p) ==
    /\ p \in Killers /\ At(p, "run")
    /\ Goto(p, "kill")
    /\ UNCHANGED <<state, tree, childexit, killed, locks, cur, rest, lost>>

\* dfs_kill finds a process that is not UNUSED; it takes no plock.
KillFound(p, target) ==
    /\ At(p, "kill") /\ klock = None
    /\ state[target] \in {"LIVE", "ZOMBIE"}
    /\ klock' = p
    /\ killed' = [killed EXCEPT ![target] = TRUE]
    /\ cur' = [cur EXCEPT ![p] = target]
    /\ Goto(p, "alert")
    /\ UNCHANGED <<state, tree, childexit, plock, elock, rqlock, rest, lost>>

\* dfs_kill finds no such pid, and klock is released.
KillNone(p) ==
    /\ At(p, "kill") /\ klock = None
    /\ Goto(p, "run")
    /\ UNCHANGED <<state, tree, childexit, killed, locks, cur, rest, lost>>

\* alert_proc for a process with a user context; the call returns 0, or -1
\* for a kernel process, and klock is not released.
KillReturn(p) ==
    /\ At(p, "alert") /\ rqlock = None
    /\ cur' = [cur EXCEPT ![p] = None]
    /\ Goto(p, "run")
    /\ UNCHANGED <<state, tree, childexit, killed, locks, rest, lost>>

-----------------------------------------------------------------------------
Fork(p) == (\E q \in Procs : ForkLink(p, q)) \/ ForkStart(p)

wait(p) ==
    \/ WaitCheck(p) \/ WaitToken(p) \/ WaitKilled(p) \/ ScanStart(p) \/ ScanSkip(p)
    \/ ScanFound(p) \/ WaitFree(p) \/ ScanNone(p)

exit(p) ==
    \/ ExitLock(p) \/ ExitPlock(p) \/ reparent(p) \/ ReparentInsert(p)
    \/ ReparentPost(p) \/ ReparentEnd(p) \/ ExitClose(p) \/ ExitClosed(p)
    \/ ExitUnlock(p) \/ ExitRelock(p) \/ ExitPost(p) \/ ExitSched(p) \/ ExitZombie(p)

Kill(p) == kill(p) \/ (\E t \in Procs : KillFound(p, t)) \/ KillNone(p) \/ KillReturn(p)

Next == \E p \in Procs : Fork(p) \/ wait(p) \/ exit(p) \/ Kill(p)

Spec == init_kproc /\ [][Next]_vars

\* The processes keep running, and a spinning one gets a lock that is free
\* again and again.
FairSpec ==
    /\ Spec
    /\ \A p \in Procs :
        /\ SF_vars((\E t \in Procs : KillFound(p, t)) \/ KillNone(p))
        /\ SF_vars(KillReturn(p)) /\ SF_vars(ExitSched(p)) /\ WF_vars(ExitZombie(p))

-----------------------------------------------------------------------------
(* Properties.                                                             *)

Pcs == {"run", "start", "wait", "token", "scan", "free", "exit", "reparent", "adopt",
        "adopted", "files", "close", "unmap", "post", "posted", "sched", "dead",
        "kill", "alert"}

TypeOK ==
    /\ state \in [Procs -> {"FREE", "UNUSED", "LIVE", "ZOMBIE"}]
    /\ parent \in [Procs -> Procs]
    /\ children \in [Procs -> Seq(Procs)]
    /\ childexit \in [Procs -> Nat]
    /\ killed \in [Procs -> BOOLEAN]
    /\ plock \in [Procs -> Procs \cup {None}]
    /\ {elock, klock, rqlock} \subseteq Procs \cup {None}
    /\ pc \in [Procs -> Pcs]
    /\ cur \in [Procs -> Procs \cup {None}]
    /\ rest \in [Procs -> Seq(Procs)]
    /\ lost \in [Procs -> Nat]

\* A process in the hands of one that moves it to root_proc or frees it.
InHand(x) == \E p \in Procs : pc[p] \in {"adopt", "free"} /\ cur[p] = x

\* A process that has handed its children over.
Leaving == {"files", "close", "unmap", "post", "posted", "sched", "dead"}

\* Whatever forks, exits and waits race, the processes form a tree: each one is
\* in one list, its parent's, and the parent still lives and will wait for it
\* or hand it over, so exit never posts to a freed parent.
FamilyTree ==
    \A x \in Procs \ {Root} :
        /\ state[x] = "FREE" => \A p \in Procs : x \notin Elems(children[p])
        /\ state[x] # "FREE" /\ ~InHand(x) =>
            /\ \A p \in Procs : x \in Elems(children[p]) <=> p = parent[x]
            /\ state[parent[x]] = "LIVE" /\ pc[parent[x]] \notin Leaving

\* A child that has posted its exit.
Exited(x) == pc[x] \in {"posted", "sched", "dead"}

\* The tokens of p, counting the one its wait holds, those its waits took for
\* nothing, and those of zombies that an exit is handing over to root_proc.
TokensOf(p) ==
    childexit[p] + lost[p] + (IF pc[p] \in {"token", "scan"} THEN 1 ELSE 0)
    + (IF p # Root THEN 0
       ELSE Cardinality({q \in Procs : pc[q] = "adopted" /\ Exited(cur[q])}))

Unreaped(p) == Cardinality({x \in Elems(children[p]) : Exited(x)})

\* A parent that has not begun to exit never has a token without an exited
\* child to reap, orphans that exit while they are handed over included, and
\* only root_proc may have an exited child without a token.
TokenPerExit ==
    \A p \in Procs :
        state[p] = "LIVE" /\ pc[p] \notin Leaving \cup {"reparent", "adopt", "adopted"} =>
            /\ TokensOf(p) <= Unreaped(p)
            /\ p # Root => TokensOf(p) = Unreaped(p)

\* proc_test.c: ASSERT(wait(&x) != -1) for every child.  A wait that took a
\* child's token finds a zombie.
WaitFindsZombie == \A p \in Procs : lost[p] = 0

\* The process whose lock p spins for, or None.
SpinsFor(p) ==
    CASE At(p, "kill")                                      -> klock
      [] At(p, "unmap")                                     -> elock
      [] At(p, "adopt")                                     -> plock[Root]
      [] At(p, "reparent") /\ children[p] # <<>>           -> plock[Head(children[p])]
      [] At(p, "scan") /\ rest[p] # <<>>                   -> plock[Head(rest[p])]
      [] \E at \in {"token", "exit", "close"} : At(p, at) -> plock[p]
      [] \E at \in {"start", "free", "adopted", "posted", "alert"} : At(p, at) -> rqlock
      [] OTHER                                              -> None

\* Processes that all spin for locks of each other.
Deadlocked(ps) == ps # {} /\ \A p \in ps : SpinsFor(p) \in ps

\* The locks are taken in one order but for three places: exit that takes elock
\* again with its plock held, reparent that takes root_proc's plock with that of
\* a child of root_proc held, and kill, which never gives klock back.  Every
\* deadlock goes through one of them.
DeadlocksKnown ==
    \A ps \in SUBSET Procs :
        Deadlocked(ps) => \E p \in ps : pc[p] \in {"unmap", "adopt", "kill"}

\* proc.c: kill should "Set the killed flag of the proc to true and return 0".
KillReturns == \A p \in Procs : pc[p] = "kill" ~> pc[p] = "run"
=============================================================================
