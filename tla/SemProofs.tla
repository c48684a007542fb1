----------------------------- MODULE SemProofs -----------------------------
(***************************************************************************)
(* Proofs about Sem, for any number of processes and any bounds.           *)
(***************************************************************************)
EXTENDS Sem, ListProofs

-----------------------------------------------------------------------------
(* The inductive invariant.                                                *)

\* The locks are held exactly at these points, a process sleeps only in the
\* middle of a wait, interrupt handlers never wait, and an actor about to
\* activate or alert knows whom.
ControlInv ==
    /\ \A a \in Actors :
        /\ lock = a <=> pc[a] \in {"queued", "wake", "wakeall", "next"}
        /\ rqlock = a <=> pc[a] = "sched"
        /\ pc[a] \in {"wake", "wakeall", "alert"} => who[a] \in Procs
    /\ pc[Irq] \notin {"queued", "sched", "resume"}
    /\ \A p \in Procs : state[p] \in Sleeps => pc[p] = "resume"

\* A granted waiter that sleeps, or still is on its way to sleep, is about to
\* be activated.
WakeupInv ==
    \A p \in Procs :
        Waiting(p) /\ up[p] /\ (state[p] \in Sleeps \/ pc[p] # "resume") =>
            \E a \in Actors : pc[a] \in {"wake", "wakeall"} /\ who[a] = p

SemInv ==
    /\ TypeOK
    /\ ControlInv
    /\ SemAccounting
    /\ TokensConserved
    /\ WakeupInv
    /\ KilledWaiterAlerted

\* The first state satisfies the invariant.
LEMMA SemInvInit == init_sem => SemInv
<1> SUFFICES ASSUME init_sem PROVE SemInv
  OBVIOUS
<1> USE SemAssumption
<1>1. TypeOK
  BY DEF init_sem, TypeOK, Actors, Sleeps
<1>2. ControlInv
  BY DEF init_sem, ControlInv, Actors, Sleeps
<1>3. SemAccounting
  BY DEF init_sem, SemAccounting, Waiting, Actors, NoDup, Elems
<1>4. TokensConserved
  <2>1. Granted = {}
    BY DEF init_sem, Granted, Waiting, Actors
  <2>. QED BY <2>1, FS_EmptySet DEF init_sem, TokensConserved
<1>5. WakeupInv /\ KilledWaiterAlerted
  BY DEF init_sem, WakeupInv, KilledWaiterAlerted, Waiting, Actors
<1>. QED BY <1>1, <1>2, <1>3, <1>4, <1>5 DEF SemInv

\* The granted waits are finitely many.
LEMMA GrantedFinite == IsFiniteSet(Granted) /\ Cardinality(Granted) \in Nat
<1>1. Granted \in SUBSET Procs
  BY DEF Granted
<1>2. IsFiniteSet(Granted)
  BY <1>1, SemAssumption, FS_Subset
<1>. QED BY <1>2, FS_CardinalityType

\* A post that finds a waiter: it moves from the list to the granted waits, and
\* its activation is under way.
LEMMA GrantPreserves ==
  ASSUME SemInv, NEW a \in Actors, NEW step \in {"wake", "wakeall"},
         pc[a] \in {"run", "next"}, lock \in {None, a}, val < 0, Grant(a, step)
  PROVE  SemInv'
<1> USE SemAssumption
<1> DEFINE w == Oldest(sleeplist)
<1>1. /\ TypeOK /\ ControlInv /\ SemAccounting /\ TokensConserved /\ WakeupInv
      /\ KilledWaiterAlerted
  BY DEF SemInv
<1>2. Len(sleeplist) > 0
  BY <1>1 DEF SemAccounting, TypeOK
<1>3. w \in Procs /\ w \in Elems(sleeplist) /\ w \in Actors
  BY <1>1, <1>2, OldestFacts DEF TypeOK, Actors
<1>4. /\ val' = val + 1
      /\ up' = [up EXCEPT ![w] = TRUE]
      /\ sleeplist' = _detach_from_list(sleeplist, w)
      /\ who' = [who EXCEPT ![a] = w]
      /\ credit' = credit + 1
      /\ lock' = a
      /\ pc' = [pc EXCEPT ![a] = step]
      /\ UNCHANGED <<rqlock, state, killed, mode>>
  BY DEF Grant
<1>5. Waiting(w) /\ ~up[w] /\ w # a
  BY <1>1, <1>3 DEF SemAccounting, Waiting
<1> HIDE DEF w
<1>6. /\ sleeplist' \in Seq(Procs) /\ NoDup(sleeplist')
      /\ Elems(sleeplist') = Elems(sleeplist) \ {w}
  BY <1>1, <1>4, DetachFacts DEF TypeOK, SemAccounting
<1>7. Len(sleeplist') = Len(sleeplist) - 1
  BY <1>1, <1>3, <1>4, ListLengths DEF TypeOK
<1>8. TypeOK'
  BY <1>1, <1>3, <1>4, <1>6 DEF TypeOK
<1>9. \A p \in Procs : Waiting(p)' <=> Waiting(p)
  BY <1>1, <1>4 DEF Waiting, TypeOK, Actors
<1>10. ControlInv'
  BY <1>1, <1>3, <1>4 DEF ControlInv, TypeOK, Actors
<1>11. SemAccounting'
  <2>1. Elems(sleeplist') = {p \in Procs : Waiting(p)' /\ ~up'[p]}
    BY <1>1, <1>3, <1>4, <1>6, <1>9 DEF SemAccounting, TypeOK
  <2>2. Len(sleeplist') = IF val' < 0 THEN -val' ELSE 0
    BY <1>1, <1>4, <1>7 DEF SemAccounting, TypeOK
  <2>. QED BY <1>6, <2>1, <2>2 DEF SemAccounting
<1>12. TokensConserved'
  <2>1. Granted' = Granted \cup {w} /\ w \notin Granted
    BY <1>1, <1>3, <1>4, <1>5, <1>9 DEF Granted, TypeOK
  <2>2. Cardinality(Granted') = Cardinality(Granted) + 1
    BY <2>1, GrantedFinite, FS_AddElement
  <2>3. credit = Cardinality(Granted) /\ ~(val' > 0)
    BY <1>1, <1>4, GrantedFinite DEF TokensConserved, TypeOK
  <2>. QED BY <2>2, <2>3, <1>4 DEF TokensConserved
<1>13. WakeupInv'
  <2> SUFFICES ASSUME NEW p \in Procs, Waiting(p)', up'[p],
                      state'[p] \in Sleeps \/ pc'[p] # "resume"
               PROVE  \E b \in Actors : pc'[b] \in {"wake", "wakeall"} /\ who'[b] = p
    BY DEF WakeupInv
  <2>1. CASE p = w
    <3>1. pc'[a] = step /\ who'[a] = w
      BY <1>1, <1>4 DEF TypeOK
    <3>. QED BY <3>1, <2>1
  <2>2. CASE p # w
    <3>0. Waiting(p)
      BY <1>9
    <3>1. Waiting(p) /\ p # a
      BY <3>0 DEF Waiting
    <3>2. up[p] /\ (state[p] \in Sleeps \/ pc[p] # "resume")
      BY <2>2, <3>1, <1>1, <1>4 DEF TypeOK, Actors, Waiting
    <3>3. PICK b \in Actors : pc[b] \in {"wake", "wakeall"} /\ who[b] = p
      BY <3>1, <3>2, <1>1 DEF WakeupInv
    <3>4. b # a
      BY <3>3
    <3>. QED BY <3>3, <3>4, <1>1, <1>4 DEF TypeOK
  <2>. QED BY <2>1, <2>2
<1>14. KilledWaiterAlerted'
  BY <1>1, <1>4 DEF KilledWaiterAlerted, TypeOK
<1>. QED BY <1>8, <1>10, <1>11, <1>12, <1>13, <1>14 DEF SemInv

\* A step that leaves the waits, their grants and the list alone keeps the
\* accounting.
LEMMA SameWaits ==
  ASSUME SemInv, \A p \in Procs : Waiting(p)' <=> Waiting(p),
         up' = up, sleeplist' = sleeplist
  PROVE  /\ Elems(sleeplist') = {p \in Procs : Waiting(p)' /\ ~up'[p]}
         /\ NoDup(sleeplist')
         /\ Granted' = Granted
BY DEF SemInv, SemAccounting, Granted

\* Every step of every actor preserves the invariant.
LEMMA SemInvNext == SemInv /\ [Next]_vars => SemInv'
<1> SUFFICES ASSUME SemInv, [Next]_vars PROVE SemInv'
  OBVIOUS
<1> USE SemAssumption
<1>0. /\ TypeOK /\ ControlInv /\ SemAccounting /\ TokensConserved /\ WakeupInv
      /\ KilledWaiterAlerted
  BY DEF SemInv
<1>1. CASE UNCHANGED vars
  BY <1>1, <1>0 DEF vars, SemInv, TypeOK, ControlInv, SemAccounting, TokensConserved, WakeupInv,
             KilledWaiterAlerted, Waiting, Granted
<1>2. ASSUME NEW p \in Procs, WaitFast(p) \/ _get_sem(p) \/ get_all_sem(p) PROVE SemInv'
  <2>1. /\ val > 0 /\ val' \in Nat /\ val' < val /\ credit' = credit - (val - val')
        /\ UNCHANGED <<sleeplist, up, lock, rqlock, state, killed, pc, mode, who>>
    BY <1>2, <1>0 DEF WaitFast, _get_sem, get_all_sem, TypeOK
  <2>2. /\ Granted' = Granted
        /\ SemAccounting' /\ ControlInv' /\ WakeupInv' /\ KilledWaiterAlerted'
    <3>1. \A r \in Procs : Waiting(r)' <=> Waiting(r)
      BY <2>1 DEF Waiting
    <3>2. Granted' = Granted /\ SemAccounting'
      <4>1. /\ Elems(sleeplist') = {r \in Procs : Waiting(r)' /\ ~up'[r]}
            /\ NoDup(sleeplist') /\ Granted' = Granted
        BY <3>1, <2>1, SameWaits
      <4>2. Len(sleeplist) = 0
        BY <2>1, <1>0 DEF SemAccounting, TypeOK
      <4>3. sleeplist' = sleeplist /\ ~(val' < 0)
        BY <2>1
      <4>. QED BY <4>1, <4>2, <4>3 DEF SemAccounting
    <3>3. ControlInv' /\ KilledWaiterAlerted'
      BY <2>1, <1>0 DEF ControlInv, KilledWaiterAlerted
    <3>4. WakeupInv'
      BY <3>1, <2>1, <1>0 DEF WakeupInv
    <3>. QED BY <3>2, <3>3, <3>4
  <2>3. credit = val + Cardinality(Granted) /\ credit' = val' + Cardinality(Granted)
    BY <2>1, <1>0, GrantedFinite DEF TokensConserved, TypeOK
  <2>4. TokensConserved'
    BY <2>1, <2>2, <2>3, GrantedFinite DEF TokensConserved
  <2>5. TypeOK'
    BY <2>1, <2>3, <1>0, GrantedFinite DEF TypeOK
  <2>. QED BY <2>2, <2>4, <2>5 DEF SemInv
<1>3. ASSUME NEW p \in Procs, NEW sleep \in Sleeps, WaitQueue(p, sleep) PROVE SemInv'
  <2>1. /\ pc[p] = "run" /\ lock = None /\ val <= 0 /\ val' = val - 1
        /\ sleeplist' = _insert_into_list(sleeplist, p)
        /\ up' = [up EXCEPT ![p] = FALSE]
        /\ mode' = [mode EXCEPT ![p] = sleep]
        /\ lock' = p
        /\ pc' = [pc EXCEPT ![p] = "queued"]
        /\ UNCHANGED <<rqlock, state, killed, who, credit>>
        /\ p \in Actors /\ ~Waiting(p)
    BY <1>3 DEF WaitQueue, Waiting, Actors
  <2>2. /\ sleeplist' \in Seq(Procs) /\ NoDup(sleeplist')
        /\ Elems(sleeplist') = Elems(sleeplist) \cup {p}
    <3>1. sleeplist \in Seq(Procs) /\ NoDup(sleeplist) /\ p \notin Elems(sleeplist)
      BY <2>1, <1>0 DEF TypeOK, SemAccounting
    <3>. QED BY <3>1, <2>1, InsertFacts
  <2>3. Len(sleeplist') = Len(sleeplist) + 1
    BY <2>1, <1>0, ListLengths DEF TypeOK
  <2>4. Waiting(p)' /\ \A r \in Procs \ {p} : Waiting(r)' <=> Waiting(r)
    BY <2>1, <1>0 DEF Waiting, TypeOK, Actors
  <2>5. TypeOK'
    BY <2>1, <2>2, <1>0 DEF TypeOK
  <2>6. ControlInv'
    BY <2>1, <1>0 DEF ControlInv, TypeOK, Actors
  <2>7. SemAccounting'
    <3>1. Elems(sleeplist') = {r \in Procs : Waiting(r)' /\ ~up'[r]}
      BY <2>1, <2>2, <2>4, <1>0 DEF SemAccounting, TypeOK
    <3>2. Len(sleeplist') = IF val' < 0 THEN -val' ELSE 0
      BY <2>1, <2>3, <1>0 DEF SemAccounting, TypeOK
    <3>. QED BY <2>2, <3>1, <3>2 DEF SemAccounting
  <2>8. TokensConserved'
    <3>1. Granted' = Granted
      BY <2>1, <2>4, <1>0 DEF Granted, TypeOK
    <3>. QED BY <3>1, <2>1, <1>0 DEF TokensConserved, TypeOK
  <2>9. WakeupInv'
    <3> SUFFICES ASSUME NEW r \in Procs, Waiting(r)', up'[r],
                        state'[r] \in Sleeps \/ pc'[r] # "resume"
                 PROVE  \E b \in Actors : pc'[b] \in {"wake", "wakeall"} /\ who'[b] = r
      BY DEF WakeupInv
    <3>1. r # p /\ up[r]
      BY <2>1, <1>0 DEF TypeOK
    <3>2. Waiting(r) /\ (state[r] \in Sleeps \/ pc[r] # "resume")
      BY <3>1, <2>1, <2>4, <1>0 DEF TypeOK, Actors
    <3>3. PICK b \in Actors : pc[b] \in {"wake", "wakeall"} /\ who[b] = r
      BY <3>1, <3>2, <1>0 DEF WakeupInv
    <3>. QED BY <3>3, <2>1, <1>0 DEF TypeOK
  <2>10. KilledWaiterAlerted'
    BY <2>1, <1>0 DEF KilledWaiterAlerted, TypeOK
  <2>. QED BY <2>5, <2>6, <2>7, <2>8, <2>9, <2>10 DEF SemInv
<1>4. ASSUME NEW p \in Procs, WaitLocks(p) PROVE SemInv'
  <2>1. /\ pc[p] = "queued" /\ rqlock = None /\ rqlock' = p /\ lock' = None
        /\ pc' = [pc EXCEPT ![p] = "sched"]
        /\ UNCHANGED <<val, sleeplist, up, state, killed, mode, who, credit>>
        /\ p \in Actors
    BY <1>4 DEF WaitLocks, Actors
  <2>2. \A r \in Procs : Waiting(r)' <=> Waiting(r)
    BY <2>1, <1>0 DEF Waiting, TypeOK, Actors
  <2>3. TypeOK'
    BY <2>1, <1>0 DEF TypeOK
  <2>4. ControlInv'
    BY <2>1, <1>0 DEF ControlInv, TypeOK, Actors
  <2>5. SemAccounting' /\ TokensConserved'
    BY <2>1, <2>2, <1>0, SameWaits DEF SemAccounting, TokensConserved
  <2>6. WakeupInv'
    <3> SUFFICES ASSUME NEW r \in Procs, Waiting(r)', up'[r],
                        state'[r] \in Sleeps \/ pc'[r] # "resume"
                 PROVE  \E b \in Actors : pc'[b] \in {"wake", "wakeall"} /\ who'[b] = r
      BY DEF WakeupInv
    <3>1. Waiting(r) /\ up[r] /\ (state[r] \in Sleeps \/ pc[r] # "resume")
      BY <2>1, <2>2, <1>0 DEF TypeOK, Actors
    <3>2. PICK b \in Actors : pc[b] \in {"wake", "wakeall"} /\ who[b] = r
      BY <3>1, <1>0 DEF WakeupInv
    <3>. QED BY <3>2, <2>1, <1>0 DEF TypeOK
  <2>7. KilledWaiterAlerted'
    BY <2>1, <1>0 DEF KilledWaiterAlerted, TypeOK
  <2>. QED BY <2>3, <2>4, <2>5, <2>6, <2>7 DEF SemInv
<1>5. ASSUME NEW p \in Procs, WaitSched(p) PROVE SemInv'
  <2>1. /\ pc[p] = "sched" /\ rqlock' = None
        /\ state' = [state EXCEPT ![p] = IF killed[p] THEN "RUNNABLE" ELSE mode[p]]
        /\ pc' = [pc EXCEPT ![p] = "resume"]
        /\ UNCHANGED <<val, sleeplist, up, lock, killed, mode, who, credit>>
        /\ p \in Actors
    BY <1>5 DEF WaitSched, Actors
  <2>2. \A r \in Procs : Waiting(r)' <=> Waiting(r)
    BY <2>1, <1>0 DEF Waiting, TypeOK, Actors
  <2>3. TypeOK'
    BY <2>1, <1>0 DEF TypeOK
  <2>4. ControlInv'
    BY <2>1, <1>0 DEF ControlInv, TypeOK, Actors
  <2>5. SemAccounting' /\ TokensConserved'
    BY <2>1, <2>2, <1>0, SameWaits DEF SemAccounting, TokensConserved
  <2>6. WakeupInv'
    <3> SUFFICES ASSUME NEW r \in Procs, Waiting(r)', up'[r],
                        state'[r] \in Sleeps \/ pc'[r] # "resume"
                 PROVE  \E b \in Actors : pc'[b] \in {"wake", "wakeall"} /\ who'[b] = r
      BY DEF WakeupInv
    <3>1. Waiting(r) /\ up[r] /\ (state[r] \in Sleeps \/ pc[r] # "resume")
      BY <2>1, <2>2, <1>0 DEF TypeOK, Actors
    <3>2. PICK b \in Actors : pc[b] \in {"wake", "wakeall"} /\ who[b] = r
      BY <3>1, <1>0 DEF WakeupInv
    <3>. QED BY <3>2, <2>1, <1>0 DEF TypeOK
  <2>7. KilledWaiterAlerted'
    <3> SUFFICES ASSUME NEW r \in Procs, killed'[r], state'[r] = "SLEEPING"
                 PROVE  \E a \in Actors : pc'[a] = "alert" /\ who'[a] = r
      BY DEF KilledWaiterAlerted
    <3>1. r # p
      BY <2>1, <1>0 DEF TypeOK
    <3>2. killed[r] /\ state[r] = "SLEEPING"
      BY <3>1, <2>1, <1>0 DEF TypeOK
    <3>3. PICK a \in Actors : pc[a] = "alert" /\ who[a] = r
      BY <3>2, <1>0 DEF KilledWaiterAlerted
    <3>. QED BY <3>3, <2>1, <1>0 DEF TypeOK
  <2>. QED BY <2>3, <2>4, <2>5, <2>6, <2>7 DEF SemInv
<1>6. ASSUME NEW p \in Procs, WaitResume(p) PROVE SemInv'
  <2>1. /\ pc[p] = "resume" /\ state[p] = "RUNNABLE" /\ lock = None
        /\ pc' = [pc EXCEPT ![p] = "run"]
        /\ UNCHANGED <<up, lock, rqlock, state, killed, mode, who>>
        /\ p \in Actors /\ Waiting(p)
    BY <1>6 DEF WaitResume, Actors, Waiting
  <2>2. ~Waiting(p)' /\ \A r \in Procs \ {p} : Waiting(r)' <=> Waiting(r)
    BY <2>1, <1>0 DEF Waiting, TypeOK, Actors
  <2>3. ControlInv'
    BY <2>1, <1>0 DEF ControlInv, TypeOK, Actors, Sleeps
  <2>4. WakeupInv'
    <3> SUFFICES ASSUME NEW r \in Procs, Waiting(r)', up'[r],
                        state'[r] \in Sleeps \/ pc'[r] # "resume"
                 PROVE  \E b \in Actors : pc'[b] \in {"wake", "wakeall"} /\ who'[b] = r
      BY DEF WakeupInv
    <3>1. r # p /\ Waiting(r)
      BY <2>2
    <3>2. up[r] /\ (state[r] \in Sleeps \/ pc[r] # "resume")
      BY <3>1, <2>1, <1>0 DEF TypeOK, Actors
    <3>3. PICK b \in Actors : pc[b] \in {"wake", "wakeall"} /\ who[b] = r
      BY <3>1, <3>2, <1>0 DEF WakeupInv
    <3>. QED BY <3>3, <2>1, <1>0 DEF TypeOK
  <2>5. KilledWaiterAlerted'
    BY <2>1, <1>0 DEF KilledWaiterAlerted, TypeOK
  <2>6. CASE up[p]
    <3>1. credit' = credit - 1 /\ val' = val /\ sleeplist' = sleeplist
      BY <1>6, <2>6 DEF WaitResume
    <3>2. Granted' = Granted \ {p} /\ p \in Granted
      BY <2>1, <2>2, <2>6 DEF Granted
    <3>3. Cardinality(Granted') = Cardinality(Granted) - 1
      BY <3>2, GrantedFinite, FS_RemoveElement
    <3>4. IsFiniteSet(Granted') /\ Cardinality(Granted') \in Nat
      BY <3>2, GrantedFinite, FS_RemoveElement, FS_CardinalityType
    <3>5. TokensConserved'
      <4> DEFINE g == Cardinality(Granted)
                 h == Cardinality(Granted')
      <4>1. g \in Nat /\ h = g - 1
        BY <3>3, GrantedFinite
      <4>2. credit = (IF val > 0 THEN val ELSE 0) + g /\ val \in Int /\ credit \in Nat
        BY <1>0 DEF TokensConserved, TypeOK
      <4> HIDE DEF g, h
      <4>3. credit' = (IF val' > 0 THEN val' ELSE 0) + h
        BY <4>1, <4>2, <3>1
      <4>. QED BY <4>3 DEF TokensConserved, h
    <3>6. credit' \in Nat
      BY <3>1, <3>3, <3>4, <1>0, GrantedFinite DEF TokensConserved, TypeOK
    <3>7. TypeOK'
      BY <3>1, <3>6, <2>1, <1>0 DEF TypeOK
    <3>8. SemAccounting'
      <4>1. {r \in Procs : Waiting(r)' /\ ~up'[r]} = {r \in Procs : Waiting(r) /\ ~up[r]}
        BY <2>1, <2>2, <2>6
      <4>. QED BY <4>1, <3>1, <1>0 DEF SemAccounting
    <3>. QED BY <2>3, <2>4, <2>5, <3>5, <3>7, <3>8 DEF SemInv
  <2>7. CASE ~up[p]
    <3>1. credit' = credit /\ val' = val + 1 /\ sleeplist' = _detach_from_list(sleeplist, p)
      BY <1>6, <2>7 DEF WaitResume
    <3>2. /\ sleeplist' \in Seq(Procs) /\ NoDup(sleeplist')
          /\ Elems(sleeplist') = Elems(sleeplist) \ {p}
      BY <3>1, <1>0, DetachFacts DEF TypeOK, SemAccounting
    <3>3. p \in Elems(sleeplist)
      BY <2>1, <2>7, <1>0 DEF SemAccounting
    <3>4. Len(sleeplist') = Len(sleeplist) - 1 /\ Len(sleeplist) > 0
      <4>1. Len(sleeplist) \in Nat /\ Len(sleeplist) > 0
        BY <3>3, <1>0 DEF Elems, TypeOK
      <4>. QED BY <4>1, <3>1, <3>3, <1>0, ListLengths DEF TypeOK
    <3>5. val < 0
      BY <3>4, <1>0 DEF SemAccounting, TypeOK
    <3>6. Granted' = Granted
      BY <2>1, <2>2, <2>7 DEF Granted
    <3>7. TokensConserved'
      BY <3>1, <3>5, <3>6, <1>0 DEF TokensConserved, TypeOK
    <3>8. TypeOK'
      BY <3>1, <3>2, <2>1, <1>0 DEF TypeOK
    <3>9. SemAccounting'
      <4>1. Elems(sleeplist') = {r \in Procs : Waiting(r)' /\ ~up'[r]}
        BY <2>1, <2>2, <3>2, <1>0 DEF SemAccounting
      <4>2. Len(sleeplist') = IF val' < 0 THEN -val' ELSE 0
        BY <3>1, <3>4, <3>5, <1>0 DEF SemAccounting, TypeOK
      <4>. QED BY <3>2, <4>1, <4>2 DEF SemAccounting
    <3>. QED BY <2>3, <2>4, <2>5, <3>7, <3>8, <3>9 DEF SemInv
  <2>. QED BY <2>6, <2>7
<1>7. ASSUME NEW a \in Actors, post_sem(a) \/ post_all_sem(a) \/ PostAllNext(a) PROVE SemInv'
  <2>1. CASE val < 0
    <3>1. \E step \in {"wake", "wakeall"} : Grant(a, step)
      BY <1>7, <2>1 DEF post_sem, post_all_sem, PostAllNext
    <3>2. pc[a] \in {"run", "next"} /\ lock \in {None, a}
      BY <1>7, <1>0 DEF post_sem, post_all_sem, PostAllNext, ControlInv
    <3>. QED BY <3>1, <3>2, <2>1, GrantPreserves
  <2>2. CASE ~(val < 0) /\ post_sem(a)
    <3>1. /\ val' = val + 1 /\ credit' = credit + 1
          /\ UNCHANGED <<sleeplist, up, lock, rqlock, state, killed, pc, mode, who>>
      BY <2>2 DEF post_sem
    <3>2. /\ Granted' = Granted
          /\ ControlInv' /\ WakeupInv' /\ KilledWaiterAlerted'
      BY <3>1, <1>0 DEF Granted, ControlInv, WakeupInv, KilledWaiterAlerted, Waiting
    <3>3. SemAccounting'
      BY <2>2, <3>1, <1>0 DEF SemAccounting, Waiting, TypeOK
    <3>4. TokensConserved'
      BY <2>2, <3>1, <3>2, <1>0, GrantedFinite DEF TokensConserved, TypeOK
    <3>5. TypeOK'
      BY <3>1, <1>0 DEF TypeOK
    <3>. QED BY <3>2, <3>3, <3>4, <3>5 DEF SemInv
  <2>3. CASE ~(val < 0) /\ PostAllNext(a)
    <3>1. /\ pc[a] = "next" /\ lock' = None /\ pc' = [pc EXCEPT ![a] = "run"]
          /\ UNCHANGED <<val, sleeplist, up, rqlock, state, killed, mode, who, credit>>
      BY <2>3 DEF PostAllNext
    <3>2. \A r \in Procs : Waiting(r)' <=> Waiting(r)
      BY <3>1, <1>0 DEF Waiting, TypeOK, Actors
    <3>3. TypeOK' /\ ControlInv'
      BY <3>1, <1>0 DEF ControlInv, TypeOK, Actors
    <3>4. SemAccounting' /\ TokensConserved'
      BY <3>1, <3>2, <1>0, SameWaits DEF SemAccounting, TokensConserved
    <3>5. WakeupInv' /\ KilledWaiterAlerted'
      BY <3>1, <3>2, <1>0 DEF WakeupInv, KilledWaiterAlerted, TypeOK, Actors
    <3>. QED BY <3>3, <3>4, <3>5 DEF SemInv
  <2>. QED BY <1>7, <2>1, <2>2, <2>3 DEF post_all_sem
<1>8. ASSUME NEW a \in Actors, Wake(a) \/ WakeAll(a) PROVE SemInv'
  <2> DEFINE w == who[a]
  <2>1. /\ pc[a] \in {"wake", "wakeall"} /\ rqlock = None /\ lock = a
        /\ state' = [state EXCEPT ![w] = "RUNNABLE"]
        /\ who' = [who EXCEPT ![a] = None]
        /\ \/ pc' = [pc EXCEPT ![a] = "run"] /\ lock' = None
           \/ pc' = [pc EXCEPT ![a] = "next"] /\ lock' = lock
        /\ UNCHANGED <<val, sleeplist, up, rqlock, killed, mode, credit>>
        /\ w \in Procs /\ w \in Actors
    BY <1>8, <1>0 DEF Wake, WakeAll, Activated, ControlInv, Actors
  <2> HIDE DEF w
  <2>2. /\ pc' \in [Actors -> {"run", "queued", "sched", "resume", "wake", "wakeall",
                               "next", "alert"}]
        /\ \A b \in Actors \ {a} : pc'[b] = pc[b] /\ who'[b] = who[b]
        /\ pc'[a] \in {"run", "next"}
    BY <2>1, <1>0 DEF TypeOK
  <2>3. \A r \in Procs : Waiting(r)' <=> Waiting(r)
    BY <2>1, <2>2 DEF Waiting, Actors
  <2>4. TypeOK'
    BY <2>1, <2>2, <1>0 DEF TypeOK
  <2>5. ControlInv'
    <3>1. /\ lock' = a <=> pc'[a] = "next"
          /\ lock' \in {a, None} /\ a # None
      BY <2>1, <1>0 DEF TypeOK, Actors
    <3>2. \A b \in Actors \ {a} : pc[b] \notin {"queued", "wake", "wakeall", "next"}
      BY <2>1, <1>0 DEF ControlInv
    <3>3. \A r \in Procs : state'[r] \in Sleeps => state[r] \in Sleeps
      BY <2>1, <1>0 DEF TypeOK, Sleeps
    <3>. QED BY <3>1, <3>2, <3>3, <2>1, <2>2, <1>0 DEF ControlInv, Actors
  <2>6. SemAccounting' /\ TokensConserved'
    BY <2>1, <2>3, <1>0, SameWaits DEF SemAccounting, TokensConserved
  <2>7. WakeupInv'
    <3> SUFFICES ASSUME NEW r \in Procs, Waiting(r)', up'[r],
                        state'[r] \in Sleeps \/ pc'[r] # "resume"
                 PROVE  \E b \in Actors : pc'[b] \in {"wake", "wakeall"} /\ who'[b] = r
      BY DEF WakeupInv
    <3>1. Waiting(r) /\ up[r] /\ r \in Actors
      BY <2>1, <2>3 DEF Actors
    <3>2. r # a /\ pc'[r] = pc[r]
      BY <3>1, <2>1, <2>2 DEF Waiting
    <3>3. r # w
      <4>1. pc[r] = "resume" \/ r # w
        BY <3>1, <2>1, <1>0 DEF Waiting, ControlInv
      <4>2. state'[w] = "RUNNABLE"
        BY <2>1, <1>0 DEF TypeOK
      <4>. QED BY <4>1, <4>2, <3>2 DEF Sleeps
    <3>4. state[r] \in Sleeps \/ pc[r] # "resume"
      BY <3>2, <3>3, <2>1, <1>0 DEF TypeOK
    <3>5. PICK b \in Actors : pc[b] \in {"wake", "wakeall"} /\ who[b] = r
      BY <3>1, <3>4, <1>0 DEF WakeupInv
    <3>6. b # a
      BY <3>3, <3>5 DEF w
    <3>. QED BY <3>5, <3>6, <2>2
  <2>8. KilledWaiterAlerted'
    <3> SUFFICES ASSUME NEW r \in Procs, killed'[r], state'[r] = "SLEEPING"
                 PROVE  \E b \in Actors : pc'[b] = "alert" /\ who'[b] = r
      BY DEF KilledWaiterAlerted
    <3>1. killed[r] /\ state[r] = "SLEEPING"
      BY <2>1, <1>0 DEF TypeOK
    <3>2. PICK b \in Actors : pc[b] = "alert" /\ who[b] = r
      BY <3>1, <1>0 DEF KilledWaiterAlerted
    <3>. QED BY <3>2, <2>1, <2>2
  <2>. QED BY <2>4, <2>5, <2>6, <2>7, <2>8 DEF SemInv
<1>9. ASSUME NEW a \in Actors, NEW k \in Procs, Kill(a, k) PROVE SemInv'
  <2>1. /\ pc[a] = "run"
        /\ killed' = [killed EXCEPT ![k] = TRUE]
        /\ who' = [who EXCEPT ![a] = k]
        /\ pc' = [pc EXCEPT ![a] = "alert"]
        /\ UNCHANGED <<val, sleeplist, up, lock, rqlock, state, mode, credit>>
    BY <1>9 DEF Kill
  <2>2. \A r \in Procs : Waiting(r)' <=> Waiting(r)
    BY <2>1, <1>0 DEF Waiting, TypeOK, Actors
  <2>3. TypeOK'
    BY <2>1, <1>0 DEF TypeOK
  <2>4. ControlInv'
    BY <2>1, <1>0 DEF ControlInv, TypeOK, Actors
  <2>5. SemAccounting' /\ TokensConserved'
    BY <2>1, <2>2, <1>0, SameWaits DEF SemAccounting, TokensConserved
  <2>6. WakeupInv'
    <3> SUFFICES ASSUME NEW r \in Procs, Waiting(r)', up'[r],
                        state'[r] \in Sleeps \/ pc'[r] # "resume"
                 PROVE  \E b \in Actors : pc'[b] \in {"wake", "wakeall"} /\ who'[b] = r
      BY DEF WakeupInv
    <3>1. Waiting(r) /\ up[r]
      BY <2>1, <2>2
    <3>2. state[r] \in Sleeps \/ pc[r] # "resume"
      BY <3>1, <2>1, <1>0 DEF TypeOK, Actors, Waiting
    <3>3. PICK b \in Actors : pc[b] \in {"wake", "wakeall"} /\ who[b] = r
      BY <3>1, <3>2, <1>0 DEF WakeupInv
    <3>. QED BY <3>3, <2>1, <1>0 DEF TypeOK
  <2>7. KilledWaiterAlerted'
    <3> SUFFICES ASSUME NEW r \in Procs, killed'[r], state'[r] = "SLEEPING"
                 PROVE  \E b \in Actors : pc'[b] = "alert" /\ who'[b] = r
      BY DEF KilledWaiterAlerted
    <3>1. CASE r = k
      BY <3>1, <2>1, <1>0 DEF TypeOK
    <3>2. CASE r # k
      <4>1. killed[r] /\ state[r] = "SLEEPING"
        BY <3>2, <2>1, <1>0 DEF TypeOK
      <4>2. PICK b \in Actors : pc[b] = "alert" /\ who[b] = r
        BY <4>1, <1>0 DEF KilledWaiterAlerted
      <4>. QED BY <4>2, <2>1, <1>0 DEF TypeOK
    <3>. QED BY <3>1, <3>2
  <2>. QED BY <2>3, <2>4, <2>5, <2>6, <2>7 DEF SemInv
<1>10. ASSUME NEW a \in Actors, Alert(a) PROVE SemInv'
  <2> DEFINE w == who[a]
  <2>1. /\ pc[a] = "alert" /\ rqlock = None
        /\ state' = IF state[w] = "SLEEPING" THEN [state EXCEPT ![w] = "RUNNABLE"] ELSE state
        /\ who' = [who EXCEPT ![a] = None]
        /\ pc' = [pc EXCEPT ![a] = "run"]
        /\ UNCHANGED <<val, sleeplist, up, lock, rqlock, killed, mode, credit>>
        /\ w \in Procs
    BY <1>10, <1>0 DEF Alert, Activated, ControlInv
  <2> HIDE DEF w
  <2>2. /\ state' \in [Procs -> Sleeps \cup {"RUNNABLE"}]
        /\ \A r \in Procs : state'[r] \in Sleeps => state[r] = state'[r]
        /\ \A r \in Procs : state'[r] = "SLEEPING" => r # w
    BY <2>1, <1>0 DEF TypeOK, Sleeps
  <2>3. \A r \in Procs : Waiting(r)' <=> Waiting(r)
    BY <2>1, <1>0 DEF Waiting, TypeOK, Actors
  <2>4. TypeOK'
    BY <2>1, <2>2, <1>0 DEF TypeOK
  <2>5. ControlInv'
    BY <2>1, <2>2, <1>0 DEF ControlInv, TypeOK, Actors
  <2>6. SemAccounting' /\ TokensConserved'
    BY <2>1, <2>3, <1>0, SameWaits DEF SemAccounting, TokensConserved
  <2>7. WakeupInv'
    <3> SUFFICES ASSUME NEW r \in Procs, Waiting(r)', up'[r],
                        state'[r] \in Sleeps \/ pc'[r] # "resume"
                 PROVE  \E b \in Actors : pc'[b] \in {"wake", "wakeall"} /\ who'[b] = r
      BY DEF WakeupInv
    <3>1. Waiting(r) /\ up[r]
      BY <2>1, <2>3
    <3>2. state[r] \in Sleeps \/ pc[r] # "resume"
      BY <3>1, <2>1, <2>2, <1>0 DEF TypeOK, Actors, Waiting
    <3>3. PICK b \in Actors : pc[b] \in {"wake", "wakeall"} /\ who[b] = r
      BY <3>1, <3>2, <1>0 DEF WakeupInv
    <3>. QED BY <3>3, <2>1, <1>0 DEF TypeOK
  <2>8. KilledWaiterAlerted'
    <3> SUFFICES ASSUME NEW r \in Procs, killed'[r], state'[r] = "SLEEPING"
                 PROVE  \E b \in Actors : pc'[b] = "alert" /\ who'[b] = r
      BY DEF KilledWaiterAlerted
    <3>1. killed[r] /\ state[r] = "SLEEPING" /\ r # w
      BY <2>1, <2>2 DEF Sleeps
    <3>2. PICK b \in Actors : pc[b] = "alert" /\ who[b] = r
      BY <3>1, <1>0 DEF KilledWaiterAlerted
    <3>3. b # a
      BY <3>1, <3>2 DEF w
    <3>. QED BY <3>2, <3>3, <2>1, <1>0 DEF TypeOK
  <2>. QED BY <2>4, <2>5, <2>6, <2>7, <2>8 DEF SemInv
<1>. QED BY <1>1, <1>2, <1>3, <1>4, <1>5, <1>6, <1>7, <1>8, <1>9, <1>10 DEF Next, Wait, Post

-----------------------------------------------------------------------------
(* The theorems.                                                           *)

\* The invariant holds in every state the semaphore reaches.
THEOREM SemInvariant == Spec => []SemInv
<1>. QED BY SemInvInit, SemInvNext, PTL DEF Spec

\* Type correctness; in particular the outstanding tokens are never negative.
THEOREM SemTypeCorrect == Spec => []TypeOK
<1>1. SemInv => TypeOK
  BY DEF SemInv
<1>. QED BY <1>1, SemInvariant, PTL

\* The value and the list of waiters agree, so no assertion of sem.c fails.
THEOREM SemAccountingHolds == Spec => []SemAccounting
<1>1. SemInv => SemAccounting
  BY DEF SemInv
<1>. QED BY <1>1, SemInvariant, PTL

\* No token is lost or made up by any race of posts, waits, alerts and kills.
THEOREM SemTokensConserved == Spec => []TokensConserved
<1>1. SemInv => TokensConserved
  BY DEF SemInv
<1>. QED BY <1>1, SemInvariant, PTL

\* A waiter that a post has chosen is awake or about to be activated.
THEOREM SemNoLostWakeup == Spec => []NoLostWakeup
<1>1. SemInv => NoLostWakeup
  BY DEF SemInv, WakeupInv, NoLostWakeup
<1>. QED BY <1>1, SemInvariant, PTL

\* A killed process is not left in an alertable wait.
THEOREM SemKilledWaiterAlerted == Spec => []KilledWaiterAlerted
<1>1. SemInv => KilledWaiterAlerted
  BY DEF SemInv
<1>. QED BY <1>1, SemInvariant, PTL
=============================================================================
