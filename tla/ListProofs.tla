----------------------------- MODULE ListProofs -----------------------------
(***************************************************************************)
(* Facts about the list operations that the component proofs cite.         *)
(***************************************************************************)
EXTENDS ListOps, FiniteSetTheorems, TLAPS

\* Insertion at the head adds one element.
LEMMA InsertFacts ==
  ASSUME NEW S, NEW q \in Seq(S), NEW p \in S
  PROVE  /\ _insert_into_list(q, p) \in Seq(S)
         /\ Elems(_insert_into_list(q, p)) = Elems(q) \cup {p}
         /\ NoDup(q) /\ p \notin Elems(q) => NoDup(_insert_into_list(q, p))
<1> DEFINE r == <<p>> \o q
<1>1. r \in Seq(S) /\ Len(r) = Len(q) + 1 /\ r[1] = p
  OBVIOUS
<1>2. \A i \in 1..Len(q) : r[i + 1] = q[i]
  OBVIOUS
<1>3. \A i \in 1..Len(r) : i # 1 => i - 1 \in 1..Len(q) /\ r[i] = q[i - 1]
  OBVIOUS
<1>4. Len(q) \in Nat
  OBVIOUS
<1> HIDE DEF r
<1>5. ASSUME NEW i \in 1..Len(r) PROVE r[i] \in Elems(q) \cup {p}
  BY <1>1, <1>3, <1>4 DEF Elems
<1>6. ASSUME NEW i \in 1..Len(q) PROVE q[i] \in Elems(r)
  <2>1. i + 1 \in 1..Len(r)
    BY <1>1, <1>4
  <2>. QED BY <2>1, <1>2 DEF Elems
<1>7. p \in Elems(r)
  BY <1>1, <1>4 DEF Elems
<1>8. Elems(r) = Elems(q) \cup {p}
  BY <1>5, <1>6, <1>7 DEF Elems
<1>9. ASSUME NoDup(q), p \notin Elems(q), NEW i \in 1..Len(r), NEW j \in 1..Len(r),
             r[i] = r[j]
      PROVE  i = j
  <2>1. CASE i = 1 \/ j = 1
    BY <2>1, <1>9, <1>1, <1>3, <1>4 DEF Elems
  <2>2. CASE i # 1 /\ j # 1
    <3>1. i - 1 \in 1..Len(q) /\ j - 1 \in 1..Len(q) /\ q[i - 1] = q[j - 1]
      BY <2>2, <1>9, <1>3
    <3>2. i - 1 = j - 1
      BY <3>1, <1>9 DEF NoDup
    <3>. QED BY <3>2, <1>1, <1>4
  <2>. QED BY <2>1, <2>2
<1>. QED BY <1>1, <1>8, <1>9 DEF _insert_into_list, r, NoDup

\* Detaching a node removes it, wherever it is, and keeps the others.
LEMMA DetachFacts ==
  ASSUME NEW S, NEW q \in Seq(S), NEW p, NoDup(q)
  PROVE  /\ _detach_from_list(q, p) \in Seq(S)
         /\ Elems(_detach_from_list(q, p)) = Elems(q) \ {p}
         /\ NoDup(_detach_from_list(q, p))
<1> DEFINE at == {i \in 1..Len(q) : q[i] = p}
<1>1. CASE at = {}
  BY <1>1 DEF _detach_from_list, Elems
<1>2. CASE at # {}
  <2>1. PICK i \in at : at = {i}
    BY <1>2 DEF NoDup
  <2>2. i \in 1..Len(q) /\ q[i] = p
    BY <2>1
  <2>3. (CHOOSE k \in at : \A j \in at : k <= j) = i
    BY <2>1, <2>2
  <2> DEFINE r == [j \in 1..(Len(q) - 1) |-> IF j < i THEN q[j] ELSE q[j + 1]]
  <2>4. _detach_from_list(q, p) = r
    BY <1>2, <2>3 DEF _detach_from_list
  <2>5. r \in Seq(S) /\ Len(r) = Len(q) - 1
    BY <2>2
  <2>6. \A j \in 1..Len(r) : r[j] = IF j < i THEN q[j] ELSE q[j + 1]
    BY <2>2, <2>5
  <2> HIDE DEF r
  <2>7. Elems(r) = Elems(q) \ {p}
    <3>1. ASSUME NEW j \in 1..Len(r) PROVE r[j] \in Elems(q) \ {p}
      BY <2>2, <2>5, <2>6 DEF Elems, NoDup
    <3>2. ASSUME NEW j \in 1..Len(q), q[j] # p PROVE q[j] \in Elems(r)
      <4>1. CASE j < i
        BY <4>1, <2>2, <2>5, <2>6 DEF Elems
      <4>2. CASE j > i
        <5>1. j - 1 \in 1..Len(r) /\ r[j - 1] = q[j]
          BY <4>2, <2>2, <2>5, <2>6
        <5>. QED BY <5>1 DEF Elems
      <4>. QED BY <4>1, <4>2, <2>2, <3>2
    <3>. QED BY <3>1, <3>2 DEF Elems
  <2>8. NoDup(r)
    BY <2>2, <2>5, <2>6 DEF NoDup
  <2>. QED BY <2>4, <2>5, <2>7, <2>8
<1>. QED BY <1>1, <1>2

\* The length of the list follows.
LEMMA ListLengths ==
  ASSUME NEW S, NEW q \in Seq(S), NEW p
  PROVE  /\ Len(_insert_into_list(q, p)) = Len(q) + 1
         /\ p \in Elems(q) => Len(_detach_from_list(q, p)) = Len(q) - 1
<1>1. Len(_insert_into_list(q, p)) = Len(q) + 1
  BY DEF _insert_into_list
<1>2. ASSUME p \in Elems(q) PROVE Len(_detach_from_list(q, p)) = Len(q) - 1
  <2>1. {i \in 1..Len(q) : q[i] = p} # {} /\ Len(q) \in Nat \ {0}
    BY <1>2 DEF Elems
  <2>. QED BY <2>1 DEF _detach_from_list
<1>. QED BY <1>1, <1>2

\* A list that is not empty has an oldest node.
LEMMA OldestFacts ==
  ASSUME NEW S, NEW q \in Seq(S), Len(q) > 0
  PROVE  Oldest(q) \in S /\ Oldest(q) \in Elems(q)
<1>1. Len(q) \in Nat /\ Len(q) \in 1..Len(q)
  OBVIOUS
<1>. QED BY <1>1 DEF Oldest, Elems

\* Taking the first node off a list.
LEMMA HeadTailFacts ==
  ASSUME NEW S, NEW q \in Seq(S), q # <<>>
  PROVE  /\ Head(q) \in S /\ Tail(q) \in Seq(S) /\ Len(Tail(q)) = Len(q) - 1
         /\ Head(q) = q[1] /\ Elems(q) = Elems(Tail(q)) \cup {Head(q)}
         /\ NoDup(q) => NoDup(Tail(q)) /\ Head(q) \notin Elems(Tail(q))
<1> DEFINE t == Tail(q)
<1>1. Len(q) \in Nat \ {0} /\ t \in Seq(S) /\ Len(t) = Len(q) - 1 /\ Head(q) = q[1] /\ q[1] \in S
  OBVIOUS
<1>2. \A i \in 1..Len(t) : i + 1 \in 1..Len(q) /\ t[i] = q[i + 1]
  OBVIOUS
<1>3. \A i \in 1..Len(q) : i # 1 => i - 1 \in 1..Len(t) /\ t[i - 1] = q[i]
  BY <1>1, <1>2
<1> HIDE DEF t
<1>4. Elems(q) = Elems(t) \cup {q[1]}
  <2>1. ASSUME NEW i \in 1..Len(q) PROVE q[i] \in Elems(t) \cup {q[1]}
    BY <1>3 DEF Elems
  <2>2. \A i \in 1..Len(t) : t[i] \in Elems(q)
    BY <1>2 DEF Elems
  <2>. QED BY <1>1, <2>1, <2>2 DEF Elems
<1>5. ASSUME NoDup(q) PROVE NoDup(t) /\ q[1] \notin Elems(t)
  <2>1. ASSUME NEW i \in 1..Len(t), NEW j \in 1..Len(t), t[i] = t[j] PROVE i = j
    <3>1. i + 1 = j + 1
      BY <1>2, <1>5, <2>1 DEF NoDup
    <3>. QED BY <1>1, <3>1
  <2>2. ASSUME NEW i \in 1..Len(t), t[i] = q[1] PROVE FALSE
    <3>1. 1 \in 1..Len(q)
      BY <1>1
    <3>2. i + 1 = 1
      BY <1>2, <1>5, <2>2, <3>1 DEF NoDup
    <3>. QED BY <3>2, <1>1
  <2>. QED BY <2>1, <2>2 DEF NoDup, Elems
<1>. QED BY <1>1, <1>4, <1>5 DEF t

\* A list without duplicates has as many elements as nodes.
LEMMA NoDupCardinality ==
  ASSUME NEW S, NEW q \in Seq(S), NoDup(q)
  PROVE  IsFiniteSet(Elems(q)) /\ Cardinality(Elems(q)) = Len(q)
<1>1. Len(q) \in Nat /\ q \in [1..Len(q) -> Elems(q)]
  BY DEF Elems
<1>2. q \in Bijection(1..Len(q), Elems(q))
  BY <1>1 DEF NoDup, Elems, Bijection, Injection, Surjection, IsInjective
<1>3. ExistsBijection(1..Len(q), Elems(q))
  BY <1>2 DEF ExistsBijection
<1>4. IsFiniteSet(1..Len(q))
  BY <1>1, FS_Interval
<1>. QED BY <1>1, <1>3, <1>4, FS_Bijection, FS_CountingElements

\* A set of natural numbers that is not empty has a least element.
LEMMA NatMin == ASSUME NEW T \in SUBSET Nat, T # {} PROVE \E x \in T : \A y \in T : x <= y
<1> DEFINE R == OpToRel(<, Nat)
<1>1. IsWellFoundedOn(R, Nat)
  BY NatLessThanWellFounded
<1>2. \A x, y \in Nat : <<y, x>> \in R <=> y < x
  BY DEF OpToRel
<1> HIDE DEF R
<1>3. PICK x \in T : \A y \in T : ~(<<y, x>> \in R)
  BY <1>1, WFMin
<1>4. ASSUME NEW y \in T PROVE x <= y
  <2>1. x \in Nat /\ y \in Nat /\ ~(y < x)
    BY <1>2, <1>3
  <2>. QED BY <2>1
<1>. QED BY <1>4
=============================================================================
