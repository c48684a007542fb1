------------------------------- MODULE Virtio -------------------------------
(***************************************************************************)
(* The block driver (src/driver/virtio_blk.c) and the device behind it.    *)
(* A request is a Buf on its caller's stack (sd_read and sd_write of       *)
(* src/fs/block_device.c) and takes three chained descriptors; the caller  *)
(* sleeps on the Buf's semaphore until the interrupt posts it, or until it *)
(* is killed.  The part of virtio_blk_rw and of virtio_blk_intr under      *)
(* disk.lk is one step.  The driver never looks at the data, so requests   *)
(* have none.  The rings are sets of chain heads: with three descriptors a *)
(* request they never hold NQueue entries.  The device is modelled from    *)
(* the driver's use of it: it serves every request, in any order, or fails *)
(* it.                                                                     *)
(*                                                                         *)
(* A killed caller returns while the device still has its Buf.  What the   *)
(* device or the interrupt then does to the dead stack frame is not        *)
(* followed, and neither is a panic (stopped).                             *)
(***************************************************************************)
EXTENDS Integers, FiniteSets

CONSTANTS
    Callers,       \* the processes
    NQueue,        \* NQUEUE
    MaxAbandoned,  \* bound: kills of waiting processes
    Nobody         \* no process

ASSUME VirtioAssumption ==
    {NQueue, MaxAbandoned} \subseteq Nat /\ NQueue > 0 /\ Nobody \notin Callers

Descs == 0..(NQueue - 1)

VARIABLES
    desc,       \* virtq.desc: the link, whether it counts (F_NEXT), whose Buf
    free_head,  \* virtq.free_head
    nfree,      \* virtq.nfree
    avail,      \* chain heads the device has yet to serve
    used,       \* chain heads it has served and the interrupt not handled
    info,       \* info[d].buf: the process whose Buf it is, or Nobody
    buf,        \* every process's Buf: its chain, and is its semaphore posted
    dead,       \* heads of chains whose caller was killed and has returned
    abandoned,  \* the kills so far
    stopped     \* "no", or why the behaviour is not followed further

virtio_vars ==
    <<desc, free_head, nfree, avail, used, info, buf, dead, abandoned, stopped>>

NoBuf == [live |-> FALSE, d0 |-> 0, posted |-> FALSE, served |-> FALSE]

\* One list of all descriptors.
desc_init == [d \in Descs |-> [next |-> IF d = NQueue - 1 THEN 0 ELSE d + 1,
                               more |-> d # NQueue - 1, buf |-> Nobody]]

virtq_init ==
    /\ desc = desc_init
    /\ free_head = 0
    /\ nfree = NQueue
    /\ avail = {} /\ used = {} /\ dead = {}
    /\ info = [d \in Descs |-> Nobody]
    /\ buf = [p \in Callers |-> NoBuf]
    /\ abandoned = 0
    /\ stopped = "no"

Stop(why) ==
    /\ stopped' = why
    /\ UNCHANGED <<desc, free_head, nfree, avail, used, info, buf, dead, abandoned>>

-----------------------------------------------------------------------------
(* The free list. *)

\* free_head once alloc_desc has taken head.
AllocDesc(head) == IF desc[head].more THEN desc[head].next ELSE head

\* The descriptors from n on, as the links of table lead.
Follow(table, n) ==
    LET f[k \in 0..NQueue] == IF k = 0 THEN n ELSE table[f[k - 1]].next IN f

\* How many descriptors free_desc meets from n on, up to the first without F_NEXT.
ChainLen(n) ==
    CHOOSE k \in 1..NQueue :
        /\ k = NQueue \/ ~desc[Follow(desc, n)[k - 1]].more
        /\ \A j \in 1..(k - 1) : desc[Follow(desc, n)[j - 1]].more

FreeDesc(n) ==
    LET last == Follow(desc, n)[ChainLen(n) - 1]
    IN  /\ nfree' = nfree + ChainLen(n)
        /\ desc' = [desc EXCEPT ![last].more = TRUE,
                                ![last].next = IF nfree = 0 THEN @ ELSE free_head]
        /\ free_head' = n

-----------------------------------------------------------------------------
(* virtio_blk_rw. *)

\* The request is queued: descriptors for the header, the data and the status.
Submit(p) ==
    /\ stopped = "no" /\ ~buf[p].live /\ nfree >= 3
    /\ LET d0 == free_head
           d1 == AllocDesc(d0)
           d2 == AllocDesc(d1)
       IN  /\ desc' = [desc EXCEPT ![d0] = [next |-> d1, more |-> TRUE, buf |-> Nobody],
                                   ![d1] = [next |-> d2, more |-> TRUE, buf |-> p],
                                   ![d2] = [next |-> 0, more |-> FALSE, buf |-> Nobody]]
           /\ free_head' = AllocDesc(d2)
           /\ avail' = avail \cup {d0}
           /\ info' = [info EXCEPT ![d0] = p]
           /\ buf' = [buf EXCEPT ![p] = [live |-> TRUE, d0 |-> d0, posted |-> FALSE, served |-> FALSE]]
    /\ nfree' = nfree - 3
    /\ UNCHANGED <<used, dead, abandoned, stopped>>

\* alloc_desc finds no descriptor: PANIC() with disk.lk held.
SubmitPanic(p) ==
    /\ stopped = "no" /\ ~buf[p].live /\ nfree < 3
    /\ Stop("full")

\* wait_sem returned true: the chain is freed and the call returns 0.
Finish(p) ==
    /\ stopped = "no" /\ buf[p].live /\ buf[p].posted
    /\ FreeDesc(buf[p].d0)
    /\ buf' = [buf EXCEPT ![p] = NoBuf]
    /\ UNCHANGED <<avail, used, info, dead, abandoned, stopped>>

\* Mutant of Abandon: the descriptors are given back, though the device still
\* has the request.
AbandonFree(p) ==
    /\ stopped = "no" /\ buf[p].live /\ ~buf[p].posted /\ abandoned < MaxAbandoned
    /\ FreeDesc(buf[p].d0)
    /\ buf' = [buf EXCEPT ![p] = NoBuf]
    /\ dead' = dead \cup {buf[p].d0}
    /\ abandoned' = abandoned + 1
    /\ UNCHANGED <<avail, used, info, stopped>>

\* The caller was killed in its sleep: the call returns -1 as things stand.
Abandon(p) ==
    /\ stopped = "no" /\ buf[p].live /\ ~buf[p].posted /\ abandoned < MaxAbandoned
    /\ buf' = [buf EXCEPT ![p] = NoBuf]
    /\ dead' = dead \cup {buf[p].d0}
    /\ abandoned' = abandoned + 1
    /\ UNCHANGED <<desc, free_head, nfree, avail, used, info, stopped>>

-----------------------------------------------------------------------------
(* The device, and its interrupt. *)

\* The device follows the chain to a Buf that is still there.
DeviceServe(d0) ==
    /\ stopped = "no" /\ d0 \in avail \ dead
    /\ buf' = [buf EXCEPT ![desc[desc[d0].next].buf].served = TRUE]
    /\ avail' = avail \ {d0}
    /\ used' = used \cup {d0}
    /\ UNCHANGED <<desc, free_head, nfree, info, dead, abandoned, stopped>>

\* ... or to one whose stack frame is gone.
DeviceServeDead(d0) ==
    /\ stopped = "no" /\ d0 \in avail \cap dead
    /\ Stop("dead")

\* Mutant of Interrupt: one used entry is handled, and the others are skipped.
InterruptOne ==
    /\ stopped = "no" /\ used # {} /\ used \cap dead = {}
    /\ \E d \in used : buf' = [buf EXCEPT ![info[d]].posted = TRUE]
    /\ info' = [d \in Descs |-> IF d \in used THEN Nobody ELSE info[d]]
    /\ used' = {}
    /\ UNCHANGED <<desc, free_head, nfree, avail, dead, abandoned, stopped>>

\* virtio_blk_intr posts every Buf in the used ring.
Interrupt ==
    /\ stopped = "no" /\ used # {} /\ used \cap dead = {}
    /\ buf' = [p \in Callers |-> IF \E d \in used : info[d] = p
                                 THEN [buf[p] EXCEPT !.posted = TRUE] ELSE buf[p]]
    /\ info' = [d \in Descs |-> IF d \in used THEN Nobody ELSE info[d]]
    /\ used' = {}
    /\ UNCHANGED <<desc, free_head, nfree, avail, dead, abandoned, stopped>>

InterruptDead ==
    /\ stopped = "no" /\ used \cap dead # {}
    /\ Stop("dead")

\* The device reports an error for a request: PANIC(), before that Buf is posted.
InterruptError ==
    /\ stopped = "no" /\ used # {}
    /\ Stop("error")

-----------------------------------------------------------------------------
VirtioNext ==
    \/ \E p \in Callers : Submit(p) \/ SubmitPanic(p) \/ Finish(p) \/ Abandon(p)
    \/ \E d \in Descs : DeviceServe(d) \/ DeviceServeDead(d)
    \/ Interrupt \/ InterruptDead \/ InterruptError

VirtioSpec == virtq_init /\ [][VirtioNext]_virtio_vars

\* The device serves what it was given and interrupts; a woken caller runs.
Fairness ==
    /\ \A d \in Descs : WF_virtio_vars(DeviceServe(d) \/ DeviceServeDead(d))
    /\ WF_virtio_vars(Interrupt \/ InterruptDead)
    /\ \A p \in Callers : WF_virtio_vars(Finish(p))

FairSpec == VirtioSpec /\ Fairness

-----------------------------------------------------------------------------
(* Properties. *)

VirtioTypeOK ==
    /\ desc \in [Descs -> [next : Descs, more : BOOLEAN, buf : Callers \cup {Nobody}]]
    /\ free_head \in Descs /\ nfree \in 0..NQueue
    /\ {avail, used, dead} \subseteq SUBSET Descs
    /\ info \in [Descs -> Callers \cup {Nobody}]
    /\ buf \in [Callers -> [live : BOOLEAN, d0 : Descs, posted : BOOLEAN, served : BOOLEAN]]
    /\ abandoned \in 0..MaxAbandoned
    /\ stopped \in {"no", "full", "dead", "error"}

Chain(d0) == {d0, desc[d0].next, desc[desc[d0].next].next}
Heads == {buf[p].d0 : p \in {r \in Callers : buf[r].live}} \cup dead

FreeList == {Follow(desc, free_head)[k] : k \in 0..(nfree - 1)}

\* Every descriptor is in the free list or in the chain of exactly one request,
\* the requests of killed callers included, so the device never follows a chain
\* that a later request has overwritten and none is lost but by a kill; and a
\* caller is woken only when its own request has been served.
DescsOwned ==
    /\ Cardinality(FreeList) = nfree
    /\ \A d \in Heads : Cardinality(Chain(d)) = 3 /\ Chain(d) \cap FreeList = {}
    /\ \A d, e \in Heads : d # e => Chain(d) \cap Chain(e) = {}
    /\ nfree = NQueue - 3 * Cardinality(Heads)
    /\ avail \cup used \subseteq Heads
    /\ \A p \in Callers : buf[p].posted => buf[p].served

\* Every request returns, unless the driver has run out of descriptors, the device
\* has failed one or a killed caller's request was touched: no completion is lost, however the device batches
\* and reorders them.
RequestsReturn == \A p \in Callers : buf[p].live ~> (~buf[p].live \/ stopped # "no")
=============================================================================
