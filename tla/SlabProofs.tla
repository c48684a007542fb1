----------------------------- MODULE SlabProofs -----------------------------
(***************************************************************************)
(* Proofs about Slab, for any number of CPUs and pages and any sizes of    *)
(* blocks that are multiples of 8.                                         *)
(***************************************************************************)
EXTENDS Slab, ListProofs, SequenceTheorems

-----------------------------------------------------------------------------
(* The inductive invariant.                                                *)

\* The page is on its way back to the free pages.
Freeing(p) == \E c \in Cpus : pc[c] = "free" /\ arg[c] = p

\* Who waits for a page, or is about to give one back, knows which, and holds
\* mem_lock as long as memory has not run out.
LockInv ==
    \A c \in Cpus :
        /\ pc[c] = "slab" => arg[c] \in Allocators
        /\ pc[c] = "free" => arg[c] \in Pages /\ slab[arg[c]] # 0
        /\ page_lock = None =>
            /\ pc[c] \in {"slab", "free"} => mem_lock = c
            /\ pc[c] # "fail"
            /\ pc[c] = "slab" => free_list[arg[c]] = <<>>

\* A block in use lies in a page that is split, and not on its way back.
UsedInv == \A b \in used : slab[b[1]] # 0 /\ b[2] < Blocks(slab[b[1]]) /\ ~Freeing(b[1])

\* No list has a block of a page on its way back.
LimboInv == \A i \in Allocators : \A b \in Elems(free_list[i]) : ~Freeing(b[1])

\* block_count counts the blocks that are not in use.
NotUsed(p) == {k \in 0..(Blocks(slab[p]) - 1) : <<p, k>> \notin used}
CountInv == \A p \in Pages : slab[p] # 0 => block_count[p] = Cardinality(NotUsed(p))

\* The blocks that are neither in use nor in the list are those behind the first
\* one of the list.
Uncarved(p) ==
    {k \in 0..(Blocks(slab[p]) - 1) : <<p, k>> \notin used \cup Elems(free_list[slab[p]])}
Frontier(p) ==
    LET l == free_list[slab[p]]
    IN  /\ head[slab[p]] /\ l # <<>> /\ l[1][1] = p
        /\ Uncarved(p) = (l[1][2] + 1)..(Blocks(slab[p]) - 1)
FrontierInv ==
    \A p \in Pages : (slab[p] # 0 /\ ~Freeing(p) /\ Uncarved(p) # {}) => Frontier(p)

SlabInv ==
    /\ TypeOK /\ LockInv /\ UsedInv /\ LimboInv /\ CountInv /\ FrontierInv
    /\ BlocksExclusive /\ PagesExclusive /\ PagesCounted

-----------------------------------------------------------------------------
(* The sizes.                                                              *)

\* The allocators and the number of blocks in their pages.
LEMMA Sizes ==
  /\ Len(size) \in Nat \ {0} /\ Len(size) \in Allocators /\ 0 \notin Allocators
  /\ PageSize \in Nat
  /\ \A i \in Allocators : /\ i \in Nat /\ size[i] \in Nat \ {0}
                           /\ Blocks(i) \in Nat /\ Blocks(i) > 1
  BY SlabAssumption DEF Allocators, Blocks

\* The allocator of a request exists.
LEMMA IndexOfRequest ==
  ASSUME NEW r \in Requests
  PROVE  get_allocator_index(r) \in Allocators
<1> DEFINE T == {i \in Allocators : r <= size[i]}
<1>1. r \in Nat /\ r <= size[Len(size)]
  BY SlabAssumption
<1>2. T \in SUBSET Nat /\ T # {}
  BY <1>1, Sizes
<1>3. PICK i \in T : \A j \in T : i <= j
  BY <1>2, NatMin
<1>4. \A j \in 1..(i - 1) : size[j] < r
  <2> SUFFICES ASSUME NEW j \in 1..(i - 1), ~(size[j] < r) PROVE FALSE
    OBVIOUS
  <2>1. j \in Allocators /\ j < i
    BY <1>3, Sizes DEF Allocators
  <2>2. j \in T
    BY <1>1, <2>1, Sizes
  <2>. QED BY <1>3, <2>1, <2>2, Sizes
<1>. QED BY <1>3, <1>4 DEF get_allocator_index

\* kfree finds the allocator that the page was split for.
LEMMA IndexOfSize ==
  ASSUME NEW s \in Allocators
  PROVE  get_allocator_index(size[s]) = s
<1> DEFINE P(i) == /\ size[s] <= size[i] \/ i = Len(size)
                   /\ \A j \in 1..(i - 1) : size[j] < size[s]
<1>1. \A i, j \in Allocators : i < j => size[i] < size[j]
  BY SlabAssumption DEF Allocators
<1>2. P(s)
  <2>1. \A j \in 1..(s - 1) : j \in Allocators /\ j < s
    BY Sizes DEF Allocators
  <2>. QED BY <1>1, <2>1, Sizes
<1>3. ASSUME NEW i \in Allocators, P(i) PROVE i = s
  <2>1. CASE i < s
    <3>1. size[i] < size[s] /\ i # Len(size)
      BY <1>1, <2>1, Sizes DEF Allocators
    <3>. QED BY <1>3, <3>1, Sizes
  <2>2. CASE i > s
    <3>1. s \in 1..(i - 1)
      BY <2>2, Sizes DEF Allocators
    <3>. QED BY <1>3, <3>1, Sizes
  <2>. QED BY <2>1, <2>2, Sizes
<1>. QED BY <1>2, <1>3 DEF get_allocator_index

\* The blocks of a page fit behind its header, and the test of kalloc for the
\* block behind b passes when the page has one.
LEMMA BlocksFit ==
  ASSUME NEW i \in Allocators, NEW k \in Nat, k + 1 < Blocks(i)
  PROVE  ((8 + (k + 1) * size[i]) % PageSize) + size[i] <= PageSize
<1> DEFINE s == size[i]
           B == Blocks(i)
<1>1. /\ s \in Nat \ {0} /\ s % 8 = 0 /\ PageSize \in Nat /\ PageSize % 8 = 0
      /\ B \in Nat /\ B > 1 /\ B = (PageSize - 4) \div s
  BY SlabAssumption, Sizes DEF Allocators, Blocks
<1> HIDE DEF s, B
<1>2. B * s <= PageSize - 4
  BY <1>1
<1>3. PICK u \in Nat : s = 8 * u
  <2>1. s = 8 * (s \div 8) + (s % 8) /\ s \div 8 \in Nat
    BY <1>1
  <2>. QED BY <1>1, <2>1
<1>4. PICK v \in Nat : PageSize = 8 * v
  <2>1. PageSize = 8 * (PageSize \div 8) + (PageSize % 8) /\ PageSize \div 8 \in Nat
    BY <1>1
  <2>. QED BY <1>1, <2>1
<1>5. B * s = 8 * (B * u) /\ B * u \in Nat
  BY <1>1, <1>3
<1>6. B * s <= PageSize - 8
  BY <1>1, <1>2, <1>4, <1>5
<1>7. (k + 2) * s <= B * s
  BY <1>1 DEF B
<1>8. (k + 1) * s + s = (k + 2) * s /\ (k + 1) * s \in Nat
  BY <1>1
<1>9. 8 + (k + 1) * s \in 0..(PageSize - 1)
  BY <1>1, <1>6, <1>7, <1>8
<1>10. (8 + (k + 1) * s) % PageSize = 8 + (k + 1) * s
  BY <1>1, <1>9
<1>11. ((8 + (k + 1) * s) % PageSize) + s <= PageSize
  BY <1>1, <1>6, <1>7, <1>8, <1>10
<1>. QED BY <1>11 DEF s

-----------------------------------------------------------------------------
(* The lists.                                                              *)

\* kalloc takes the second block.
LEMMA SecondFacts ==
  ASSUME NEW S, NEW l \in Seq(S), Len(l) >= 2
  PROVE  LET m == <<l[1]>> \o SubSeq(l, 3, Len(l))
         IN  /\ m \in Seq(S) /\ m # <<>> /\ m[1] = l[1]
             /\ l[2] \in Elems(l)
             /\ NoDup(l) => Elems(m) = Elems(l) \ {l[2]} /\ NoDup(m)
<1> DEFINE m == <<l[1]>> \o SubSeq(l, 3, Len(l))
<1>1. Len(l) \in Nat /\ 1 \in 1..Len(l) /\ 2 \in 1..Len(l)
  OBVIOUS
<1> DEFINE t == SubSeq(l, 3, Len(l))
<1>0. t \in Seq(S) /\ Len(t) = Len(l) - 2 /\ \A j \in 1..Len(t) : t[j] = l[j + 2]
  <2>1. \A j \in 3..Len(l) : l[j] \in S
    OBVIOUS
  <2>2. /\ t \in Seq(S) /\ Len(t) = IF 3 <= Len(l) THEN Len(l) - 3 + 1 ELSE 0
        /\ \A j \in 1..(Len(l) - 3 + 1) : t[j] = l[3 + j - 1]
    BY <1>1, <2>1, SubSeqProperties
  <2> HIDE DEF t
  <2>3. Len(t) = Len(l) - 2
    <3>1. \A n, k \in Nat : n >= 2 /\ k = (IF 3 <= n THEN n - 3 + 1 ELSE 0) => k = n - 2
      OBVIOUS
    <3>2. Len(t) \in Nat
      BY <2>2
    <3>. QED BY <1>1, <2>2, <3>1, <3>2
  <2>4. ASSUME NEW j \in 1..Len(t) PROVE t[j] = l[j + 2]
    <3>1. j \in 1..(Len(l) - 3 + 1) /\ 3 + j - 1 = j + 2
      BY <1>1, <2>3
    <3>. QED BY <2>2, <3>1
  <2>. QED BY <2>2, <2>3, <2>4
<1> HIDE DEF t
<1>2. m \in Seq(S) /\ Len(m) = Len(l) - 1 /\ m # <<>>
  BY <1>0, <1>1 DEF t
<1>3. \A j \in 1..Len(m) : m[j] = IF j = 1 THEN l[1] ELSE l[j + 1]
  BY <1>0, <1>1, <1>2 DEF t
<1> HIDE DEF m
<1>4. ASSUME NoDup(l) PROVE Elems(m) = Elems(l) \ {l[2]}
  <2>1. ASSUME NEW j \in 1..Len(m) PROVE m[j] \in Elems(l) \ {l[2]}
    <3>1. CASE j = 1
      BY <1>1, <1>3, <1>4, <3>1 DEF Elems, NoDup
    <3>2. CASE j # 1
      <4>1. j + 1 \in 1..Len(l) /\ m[j] = l[j + 1] /\ j + 1 # 2
        BY <1>1, <1>2, <1>3, <3>2
      <4>. QED BY <1>1, <1>4, <4>1 DEF Elems, NoDup
    <3>. QED BY <3>1, <3>2
  <2>2. ASSUME NEW k \in 1..Len(l), l[k] # l[2] PROVE l[k] \in Elems(m)
    <3>1. CASE k = 1
      BY <1>1, <1>2, <1>3, <3>1 DEF Elems
    <3>2. CASE k > 2
      <4>1. k - 1 \in 1..Len(m) /\ m[k - 1] = l[k]
        BY <1>1, <1>2, <1>3, <3>2
      <4>. QED BY <4>1 DEF Elems
    <3>. QED BY <2>2, <3>1, <3>2, <1>1
  <2>. QED BY <2>1, <2>2 DEF Elems
<1>5. ASSUME NoDup(l) PROVE NoDup(m)
  <2> SUFFICES ASSUME NEW i \in 1..Len(m), NEW j \in 1..Len(m), m[i] = m[j] PROVE i = j
    BY DEF NoDup
  <2> DEFINE at(x) == IF x = 1 THEN 1 ELSE x + 1
  <2>1. \A x \in 1..Len(m) : at(x) \in 1..Len(l) /\ m[x] = l[at(x)]
    BY <1>1, <1>2, <1>3
  <2>2. at(i) = at(j)
    BY <1>5, <2>1 DEF NoDup
  <2>. QED BY <2>2, <1>1, <1>2
<1>6. m[1] = l[1] /\ l[2] \in Elems(l)
  BY <1>1, <1>2, <1>3 DEF Elems
<1>. QED BY <1>2, <1>4, <1>5, <1>6 DEF m

\* kfree puts a block behind the first one.
LEMMA FreedFacts ==
  ASSUME NEW S, NEW l \in Seq(S), NEW b \in S
  PROVE  LET m == Freed(l, b)
         IN  /\ m \in Seq(S) /\ m # <<>> /\ (l # <<>> => m[1] = l[1])
             /\ Elems(m) = Elems(l) \cup {b}
             /\ NoDup(l) /\ b \notin Elems(l) => NoDup(m)
<1> DEFINE m == Freed(l, b)
<1>1. CASE l = <<>>
  <2>1. m = <<b>>
    BY <1>1 DEF Freed
  <2>2. m \in Seq(S) /\ Len(m) = 1 /\ m[1] = b /\ Len(l) = 0
    BY <1>1, <2>1
  <2>3. Elems(m) = {b} /\ Elems(l) = {}
    BY <2>2 DEF Elems
  <2> HIDE DEF m
  <2>. QED BY <1>1, <2>1, <2>2, <2>3 DEF NoDup, m
<1>2. CASE l # <<>>
  <2>1. Len(l) \in Nat \ {0} /\ l[1] \in S /\ Tail(l) \in Seq(S) /\ Len(Tail(l)) = Len(l) - 1
    BY <1>2
  <2>2. \A j \in 1..Len(Tail(l)) : Tail(l)[j] = l[j + 1]
    BY <1>2
  <2>3. m = <<l[1], b>> \o Tail(l)
    BY <1>2 DEF Freed
  <2>4. m \in Seq(S) /\ Len(m) = Len(l) + 1 /\ m # <<>>
    BY <2>1, <2>3
  <2>5. \A j \in 1..Len(m) : m[j] = IF j = 1 THEN l[1] ELSE IF j = 2 THEN b ELSE l[j - 1]
    <3> DEFINE t == Tail(l)
    <3> HIDE DEF t
    <3>1. \A j \in 1..Len(m) : m[j] = IF j = 1 THEN l[1] ELSE IF j = 2 THEN b ELSE t[j - 2]
      BY <2>1, <2>3, <2>4 DEF t
    <3>2. \A j \in 1..Len(m) : j > 2 => t[j - 2] = l[j - 1]
      BY <2>1, <2>2, <2>4 DEF t
    <3>. QED BY <2>1, <2>4, <3>1, <3>2
  <2> HIDE DEF m
  <2>6. Elems(m) = Elems(l) \cup {b}
    <3>1. ASSUME NEW j \in 1..Len(m) PROVE m[j] \in Elems(l) \cup {b}
      <4>1. CASE j = 1
        BY <2>1, <2>5, <4>1 DEF Elems
      <4>2. CASE j > 2
        <5>1. j - 1 \in 1..Len(l) /\ m[j] = l[j - 1]
          BY <2>1, <2>4, <2>5, <4>2
        <5>. QED BY <5>1 DEF Elems
      <4>. QED BY <2>5, <4>1, <4>2
    <3>2. ASSUME NEW k \in 1..Len(l) PROVE l[k] \in Elems(m)
      <4>1. CASE k = 1
        BY <2>1, <2>4, <2>5, <4>1 DEF Elems
      <4>2. CASE k # 1
        <5>1. k + 1 \in 1..Len(m) /\ m[k + 1] = l[k]
          BY <2>1, <2>4, <2>5, <4>2
        <5>. QED BY <5>1 DEF Elems
      <4>. QED BY <4>1, <4>2
    <3>3. 2 \in 1..Len(m) /\ m[2] = b
      BY <2>1, <2>4, <2>5
    <3>. QED BY <3>1, <3>2, <3>3 DEF Elems
  <2>7. ASSUME NoDup(l), b \notin Elems(l) PROVE NoDup(m)
    <3> SUFFICES ASSUME NEW i \in 1..Len(m), NEW j \in 1..Len(m), m[i] = m[j] PROVE i = j
      BY DEF NoDup
    <3> DEFINE at(x) == IF x = 1 THEN 1 ELSE x - 1
    <3>1. \A x \in 1..Len(m) : x # 2 => at(x) \in 1..Len(l) /\ m[x] = l[at(x)]
      BY <2>1, <2>4, <2>5
    <3>2. \A x \in 1..Len(m) : x # 2 => m[x] # b
      BY <2>7, <3>1 DEF Elems
    <3>3. CASE i = 2 \/ j = 2
      BY <2>5, <3>2, <3>3
    <3>4. CASE i # 2 /\ j # 2
      <4>1. at(i) = at(j)
        BY <2>7, <3>1, <3>4 DEF NoDup
      <4>. QED BY <4>1, <3>4, <2>4, <2>1
    <3>. QED BY <3>3, <3>4
  <2>8. m[1] = l[1]
    BY <2>1, <2>4, <2>5
  <2>. QED BY <2>4, <2>6, <2>7, <2>8 DEF m
<1>. QED BY <1>1, <1>2

\* The rank of an index numbers the indices that are kept.
LEMMA RankFacts ==
  ASSUME NEW n \in Nat, NEW K \in SUBSET (1..n)
  PROVE  LET rank(k) == Cardinality({m \in K : m <= k})
         IN  /\ Cardinality(K) \in Nat
             /\ \A j \in 1..Cardinality(K) : \E k \in K : rank(k) = j
             /\ \A k \in K : rank(k) \in 1..Cardinality(K)
             /\ \A j, k \in K : rank(j) = rank(k) => j = k
             /\ 1 \in K => rank(1) = 1
<1> DEFINE upto(k) == {m \in K : m <= k}
           rank(k) == Cardinality(upto(k))
           N == Cardinality(K)
<1>1. IsFiniteSet(K) /\ N \in Nat
  <2>1. IsFiniteSet(1..n)
    BY FS_Interval
  <2>. QED BY <2>1, FS_Subset, FS_CardinalityType
<1> HIDE DEF N
<1>2. /\ \A k : upto(k) \in SUBSET K
      /\ \A k \in K : k \in Nat /\ 1 <= k
  OBVIOUS
<1>3. \A k : IsFiniteSet(upto(k)) /\ rank(k) \in Nat /\ rank(k) <= N
  BY <1>1, <1>2, FS_Subset, FS_CardinalityType DEF N
<1>4. ASSUME NEW j \in K, NEW k \in K, j < k PROVE rank(j) < rank(k)
  <2>1. upto(j) \in SUBSET upto(k) /\ k \in upto(k) /\ k \notin upto(j)
    <3>1. j \in Nat /\ k \in Nat /\ \A m \in K : m \in Nat
      BY <1>2
    <3>2. \A m \in K : m <= j => m <= k
      BY <1>4, <3>1
    <3>3. k <= k /\ ~(k <= j)
      BY <1>4, <3>1
    <3>. QED BY <3>2, <3>3
  <2>2. upto(j) # upto(k)
    BY <2>1
  <2> HIDE DEF upto
  <2>3. rank(j) <= rank(k) /\ rank(j) # rank(k)
    BY <1>3, <2>1, <2>2, FS_Subset
  <2>. QED BY <1>3, <2>3
<1>5. \A j, k \in K : rank(j) = rank(k) => j = k
  <2>1. ASSUME NEW j \in K, NEW k \in K, rank(j) = rank(k) PROVE j = k
    <3> HIDE DEF upto, rank
    <3>1. rank(j) \in Nat /\ ~(rank(j) < rank(k)) /\ ~(rank(k) < rank(j))
      BY <1>3, <2>1
    <3>2. ~(j < k) /\ ~(k < j)
      BY <1>4, <3>1
    <3>. QED BY <1>2, <3>2
  <2>. QED BY <2>1
<1>6. \A k \in K : rank(k) \in 1..N
  <2>1. ASSUME NEW k \in K PROVE rank(k) # 0
    <3>1. k \in upto(k)
      OBVIOUS
    <3> HIDE DEF upto
    <3>. QED BY <1>3, <3>1, FS_EmptySet
  <2> HIDE DEF upto, rank
  <2>. QED BY <1>1, <1>3, <2>1
<1>7. \A j \in 1..N : \E k \in K : rank(k) = j
  <2> DEFINE f == [k \in K |-> rank(k)]
  <2> HIDE DEF rank
  <2>1. f \in Injection(K, 1..N)
    BY <1>5, <1>6 DEF Injection, IsInjective
  <2>2. IsFiniteSet(1..N) /\ Cardinality(1..N) = N
    BY <1>1, FS_CountingElements, FS_Interval
  <2>3. f \in Surjection(K, 1..N)
    BY <2>1, <2>2, FS_Injection DEF N
  <2>. QED BY <2>3 DEF Surjection
<1>8. ASSUME 1 \in K PROVE rank(1) = 1
  <2>1. \A m \in K : m <= 1 <=> m = 1
    BY <1>2
  <2>2. upto(1) = {1}
    BY <1>8, <2>1
  <2>. QED BY <2>2, FS_Singleton
<1>. QED BY <1>1, <1>5, <1>6, <1>7, <1>8 DEF N

\* kfree takes the blocks of a page out of the list.
LEMMA KeptFacts ==
  ASSUME NEW S, NEW l \in Seq(S), NEW p
  PROVE  LET m == WithoutPage(l, p)
         IN  /\ m \in Seq(S)
             /\ Elems(m) = {b \in Elems(l) : b[1] # p}
             /\ NoDup(l) => NoDup(m)
             /\ l # <<>> /\ l[1][1] # p => m # <<>> /\ m[1] = l[1]
<1> DEFINE K == {k \in 1..Len(l) : l[k][1] # p}
           rank(k) == Cardinality({x \in K : x <= k})
           at(j) == CHOOSE k \in K : rank(k) = j
           N == Cardinality(K)
           m == [j \in 1..N |-> l[at(j)]]
<1>1. WithoutPage(l, p) = m
  BY DEF WithoutPage
<1>2. Len(l) \in Nat /\ K \in SUBSET (1..Len(l))
  OBVIOUS
<1>3. /\ N \in Nat
      /\ \A j \in 1..N : \E k \in K : rank(k) = j
      /\ \A k \in K : rank(k) \in 1..N
      /\ \A j, k \in K : rank(j) = rank(k) => j = k
      /\ 1 \in K => rank(1) = 1
  <2> HIDE DEF K
  <2>. QED BY <1>2, RankFacts
<1>4. \A k \in K : k \in 1..Len(l) /\ l[k] \in S /\ l[k] \in Elems(l) /\ l[k][1] # p
  BY DEF Elems
<1>5. \A b \in Elems(l) : b[1] # p => \E k \in K : l[k] = b
  BY DEF Elems
<1>6. ASSUME l # <<>>, l[1][1] # p PROVE 1 \in K
  BY <1>6, <1>2
<1> HIDE DEF K, rank, N
<1>7. \A j \in 1..N : at(j) \in K /\ rank(at(j)) = j
  BY <1>3
<1>8. \A k \in K : rank(k) \in 1..N /\ at(rank(k)) = k
  BY <1>3, <1>7
<1> HIDE DEF at
<1>9. m \in Seq(S) /\ Len(m) = N
  BY <1>3, <1>4, <1>7
<1>10. \A j \in 1..N : m[j] = l[at(j)]
  OBVIOUS
<1> HIDE DEF m
<1>11. Elems(m) = {b \in Elems(l) : b[1] # p}
  <2>1. ASSUME NEW j \in 1..N PROVE m[j] \in Elems(l) /\ m[j][1] # p
    BY <1>4, <1>7, <1>10
  <2>2. ASSUME NEW b \in Elems(l), b[1] # p PROVE \E j \in 1..N : m[j] = b
    <3>1. PICK k \in K : l[k] = b
      BY <1>5, <2>2
    <3>. QED BY <1>8, <1>10, <3>1
  <2>3. Elems(m) = {m[j] : j \in 1..N}
    BY <1>9 DEF Elems
  <2>. QED BY <2>1, <2>2, <2>3
<1>12. ASSUME NoDup(l) PROVE NoDup(m)
  <2>1. ASSUME NEW i \in 1..N, NEW j \in 1..N, m[i] = m[j] PROVE i = j
    <3>1. at(i) \in 1..Len(l) /\ at(j) \in 1..Len(l) /\ l[at(i)] = l[at(j)]
      BY <1>4, <1>7, <1>10, <2>1
    <3>2. at(i) = at(j)
      BY <1>12, <3>1 DEF NoDup
    <3>. QED BY <1>7, <3>2
  <2>. QED BY <1>9, <2>1 DEF NoDup
<1>13. ASSUME l # <<>>, l[1][1] # p PROVE m # <<>> /\ m[1] = l[1]
  <2>1. 1 \in K
    BY <1>6, <1>13
  <2>2. 1 \in 1..N /\ at(1) = 1
    BY <1>3, <1>8, <2>1
  <2>. QED BY <1>9, <1>10, <2>2
<1>. QED BY <1>1, <1>9, <1>11, <1>12, <1>13

-----------------------------------------------------------------------------
(* Consequences of the invariant.                                          *)

\* A block is a page and an index.
LEMMA BlockFacts ==
  /\ \A b \in BlockIds : b[1] \in Pages /\ b[2] \in Nat /\ b = <<b[1], b[2]>>
  /\ \A i \in Allocators : \A p \in Pages : \A k \in 0..(Blocks(i) - 1) : <<p, k>> \in BlockIds
<1>1. ASSUME NEW b \in BlockIds PROVE b[1] \in Pages /\ b[2] \in Nat /\ b = <<b[1], b[2]>>
  <2>1. PICK i \in Allocators : b \in Pages \X (0..(Blocks(i) - 1))
    BY DEF BlockIds
  <2>. QED BY <2>1
<1>2. ASSUME NEW i \in Allocators, NEW p \in Pages, NEW k \in 0..(Blocks(i) - 1)
      PROVE  <<p, k>> \in BlockIds
  <2>1. <<p, k>> \in Pages \X (0..(Blocks(i) - 1))
    OBVIOUS
  <2>. QED BY <2>1 DEF BlockIds
<1>. QED BY <1>1, <1>2

\* What the invariant says of a block in a list, and of one in use.
LEMMA ListedFacts ==
  ASSUME SlabInv
  PROVE  /\ \A i \in Allocators : \A b \in Elems(free_list[i]) :
                /\ b \in BlockIds /\ b[1] \in Pages /\ b = <<b[1], b[2]>>
                /\ b[2] \in 0..(Blocks(i) - 1) /\ slab[b[1]] = i
                /\ b \notin used /\ ~Freeing(b[1])
         /\ \A b \in used :
                /\ b \in BlockIds /\ b[1] \in Pages /\ b = <<b[1], b[2]>>
                /\ slab[b[1]] \in Allocators /\ b[2] \in 0..(Blocks(slab[b[1]]) - 1)
                /\ ~Freeing(b[1])
<1>1. TypeOK /\ LimboInv /\ UsedInv /\ BlocksExclusive
  BY DEF SlabInv
<1>2. ASSUME NEW i \in Allocators, NEW b \in Elems(free_list[i]) PROVE b \in BlockIds
  <2>1. free_list[i] \in Seq(BlockIds)
    BY <1>1 DEF TypeOK
  <2>. QED BY <2>1 DEF Elems
<1>3. ASSUME NEW i \in Allocators, NEW b \in Elems(free_list[i])
      PROVE  b[2] \in 0..(Blocks(i) - 1) /\ slab[b[1]] = i /\ b \notin used /\ ~Freeing(b[1])
  <2>1. b[2] \in Nat /\ b[2] < Blocks(i) /\ Blocks(i) \in Nat
    BY <1>1, <1>2, BlockFacts, Sizes DEF BlocksExclusive
  <2>2. b[2] \in 0..(Blocks(i) - 1)
    BY <2>1
  <2>. QED BY <1>1, <2>2 DEF BlocksExclusive, LimboInv
<1>4. ASSUME NEW b \in used
      PROVE  /\ b \in BlockIds /\ slab[b[1]] \in Allocators
             /\ b[2] \in 0..(Blocks(slab[b[1]]) - 1) /\ ~Freeing(b[1])
  <2>1. b \in BlockIds /\ b[1] \in Pages /\ b[2] \in Nat
    BY <1>1, BlockFacts DEF TypeOK
  <2>2. slab[b[1]] \in Allocators /\ b[2] < Blocks(slab[b[1]]) /\ ~Freeing(b[1])
    BY <1>1, <2>1 DEF TypeOK, UsedInv
  <2>3. Blocks(slab[b[1]]) \in Nat
    BY <2>2, Sizes
  <2>4. b[2] \in 0..(Blocks(slab[b[1]]) - 1)
    BY <2>1, <2>2, <2>3
  <2>. QED BY <2>1, <2>2, <2>4
<1>. QED BY <1>2, <1>3, <1>4, BlockFacts

\* The blocks of a page can be counted.
LEMMA NotUsedFinite ==
  ASSUME TypeOK, NEW p \in Pages, slab[p] # 0
  PROVE  /\ IsFiniteSet(NotUsed(p)) /\ Cardinality(NotUsed(p)) \in Nat
         /\ NotUsed(p) \in SUBSET (0..(Blocks(slab[p]) - 1))
         /\ IsFiniteSet(0..(Blocks(slab[p]) - 1))
         /\ Cardinality(0..(Blocks(slab[p]) - 1)) = Blocks(slab[p])
<1>1. slab[p] \in Allocators
  BY DEF TypeOK
<1> DEFINE n == Blocks(slab[p])
<1>2. n \in Nat /\ n > 1
  BY <1>1, Sizes
<1>3. NotUsed(p) \in SUBSET (0..(n - 1))
  BY DEF NotUsed
<1> HIDE DEF n
<1>4. IsFiniteSet(0..(n - 1)) /\ Cardinality(0..(n - 1)) = n
  BY <1>2, FS_Interval
<1>5. IsFiniteSet(NotUsed(p)) /\ Cardinality(NotUsed(p)) \in Nat
  BY <1>3, <1>4, FS_Subset, FS_CardinalityType
<1>. QED BY <1>3, <1>4, <1>5 DEF n

\* The calls that have counted a page and do not have it.
Waiting == {c \in Cpus : pc[c] \in {"page", "slab"}}

\* How one CPU's step changes the number of calls on their way to a page.
LEMMA WaitingFacts ==
  ASSUME TypeOK, NEW c \in Cpus, \A d \in Cpus : d # c => pc'[d] = pc[d]
  PROVE  /\ Cardinality(Waiting) \in Nat
         /\ pc[c] \in {"page", "slab"} /\ pc'[c] \notin {"page", "slab"}
                => Cardinality(Waiting') = Cardinality(Waiting) - 1
         /\ pc[c] \notin {"page", "slab"} /\ pc'[c] \in {"page", "slab"}
                => Cardinality(Waiting') = Cardinality(Waiting) + 1
         /\ pc[c] \notin {"page", "slab"} /\ pc'[c] \notin {"page", "slab"}
                => Waiting' = Waiting
<1>1. IsFiniteSet(Waiting) /\ Cardinality(Waiting) \in Nat
  BY SlabAssumption, FS_Subset, FS_CardinalityType DEF Waiting
<1>3. ASSUME pc[c] \in {"page", "slab"}, pc'[c] \notin {"page", "slab"}
      PROVE  Waiting' = Waiting \ {c} /\ c \in Waiting
  BY <1>3 DEF Waiting
<1>4. ASSUME pc[c] \notin {"page", "slab"}, pc'[c] \in {"page", "slab"}
      PROVE  Waiting' = Waiting \cup {c} /\ c \notin Waiting
  BY <1>4 DEF Waiting
<1>5. ASSUME pc[c] \notin {"page", "slab"}, pc'[c] \notin {"page", "slab"}
      PROVE  Waiting' = Waiting
  BY <1>5 DEF Waiting
<1>6. ASSUME pc[c] \in {"page", "slab"}, pc'[c] \notin {"page", "slab"}
      PROVE  Cardinality(Waiting') = Cardinality(Waiting) - 1
  BY <1>1, <1>3, <1>6, FS_RemoveElement
<1>7. ASSUME pc[c] \notin {"page", "slab"}, pc'[c] \in {"page", "slab"}
      PROVE  Cardinality(Waiting') = Cardinality(Waiting) + 1
  BY <1>1, <1>4, <1>7, FS_AddElement
<1>. QED BY <1>1, <1>5, <1>6, <1>7

\* A page that is not in the list of free pages: the list is not full.
LEMMA FreePagesBound ==
  ASSUME TypeOK, PagesExclusive, NEW p \in Pages, p \notin Elems(free_pages)
  PROVE  Cardinality(Pages) \in Nat /\ Len(free_pages) \in Nat
         /\ Len(free_pages) < Cardinality(Pages)
<1>1. free_pages \in Seq(Pages) /\ NoDup(free_pages) /\ IsFiniteSet(Pages)
  BY SlabAssumption DEF TypeOK, PagesExclusive
<1>2. Cardinality(Elems(free_pages)) = Len(free_pages)
  BY <1>1, NoDupCardinality
<1>3. Elems(free_pages) \in SUBSET Pages /\ Elems(free_pages) # Pages
  BY <1>1 DEF Elems
<1>4. /\ Cardinality(Elems(free_pages)) <= Cardinality(Pages)
      /\ Cardinality(Elems(free_pages)) # Cardinality(Pages)
  BY <1>1, <1>3, FS_Subset
<1>5. Cardinality(Pages) \in Nat /\ Len(free_pages) \in Nat
  BY <1>1, FS_CardinalityType
<1>. QED BY <1>2, <1>4, <1>5

\* While memory has not run out, mem_lock excludes the CPUs from each other.
LEMMA Excluded ==
  ASSUME SlabInv, page_lock = None, NEW c \in Cpus, mem_lock \in {None, c}
  PROVE  \A d \in Cpus : d # c \/ mem_lock = None => pc[d] \in {"idle", "page"}
<1>1. \A d \in Cpus : pc[d] \in {"slab", "free"} => mem_lock = d
  BY DEF SlabInv, LockInv
<1>2. \A d \in Cpus : pc[d] # "fail"
  BY DEF SlabInv, LockInv
<1>3. \A d \in Cpus : pc[d] \in {"idle", "page", "slab", "fail", "free"}
  BY DEF SlabInv, TypeOK
<1>. QED BY <1>1, <1>2, <1>3, SlabAssumption

\* A step that leaves the lists and the blocks alone.
LEMMA SlabsUnchanged ==
  ASSUME SlabInv, TypeOK', UNCHANGED slabs, \A p \in Pages : Freeing(p)' <=> Freeing(p)
  PROVE  UsedInv' /\ LimboInv' /\ CountInv' /\ FrontierInv' /\ BlocksExclusive'
<1>1. /\ free_list' = free_list /\ head' = head /\ slab' = slab
      /\ block_count' = block_count /\ used' = used
  BY DEF slabs
<1>2. \A p \in Pages : /\ NotUsed(p)' = NotUsed(p) /\ Uncarved(p)' = Uncarved(p)
                       /\ Frontier(p)' <=> Frontier(p)
  BY <1>1 DEF NotUsed, Uncarved, Frontier
<1>3. UsedInv'
  <2>1. ASSUME NEW b \in used
        PROVE  slab[b[1]] # 0 /\ b[2] < Blocks(slab[b[1]]) /\ ~Freeing(b[1])'
    BY ListedFacts, <1>1 DEF SlabInv, UsedInv
  <2>. QED BY <1>1, <2>1 DEF UsedInv
<1>4. LimboInv'
  <2>1. ASSUME NEW i \in Allocators, NEW b \in Elems(free_list[i]) PROVE ~Freeing(b[1])'
    BY ListedFacts
  <2>. QED BY <1>1, <2>1 DEF LimboInv
<1>5. CountInv'
  BY <1>1, <1>2 DEF SlabInv, CountInv
<1>6. FrontierInv'
  BY <1>1, <1>2 DEF SlabInv, FrontierInv
<1>7. BlocksExclusive'
  BY <1>1 DEF SlabInv, BlocksExclusive
<1>. QED BY <1>3, <1>4, <1>5, <1>6, <1>7

-----------------------------------------------------------------------------
(* The pages.                                                              *)

\* After kinit every page is free and every list empty.
LEMMA SlabInvInit == kinit => SlabInv
<1> SUFFICES ASSUME kinit PROVE SlabInv
  OBVIOUS
<1>1. Cardinality(Pages) \in Nat
  BY SlabAssumption, FS_CardinalityType
<1>2. free_pages \in Seq(Pages) /\ Len(free_pages) = Cardinality(Pages)
  <2>1. free_pages \in [1..Cardinality(Pages) -> Pages]
    BY DEF kinit
  <2> DEFINE n == Cardinality(Pages)
  <2> HIDE DEF n
  <2>2. \A q \in [1..n -> Pages] : n \in Nat => q \in Seq(Pages) /\ Len(q) = n
    OBVIOUS
  <2>. QED BY <1>1, <2>1, <2>2 DEF n
<1>3. TypeOK
  <2>1. /\ free_list \in [Allocators -> Seq(BlockIds)]
        /\ slab \in [Pages -> Allocators \cup {0}] /\ block_count \in [Pages -> Nat]
    BY DEF kinit
  <2>2. /\ head \in [Allocators -> BOOLEAN]
        /\ pc \in [Cpus -> {"idle", "page", "slab", "fail", "free"}]
        /\ arg \in [Cpus -> Allocators \cup Pages \cup {None}]
    BY DEF kinit
  <2>. QED BY <1>2, <2>1, <2>2 DEF kinit, TypeOK
<1>4. \A i \in Allocators : NoDup(free_list[i]) /\ Elems(free_list[i]) = {}
  BY DEF kinit, NoDup, Elems
<1>5. LockInv /\ UsedInv
  BY DEF kinit, LockInv, UsedInv
<1>6. LimboInv /\ BlocksExclusive
  BY <1>4 DEF LimboInv, BlocksExclusive
<1>7. CountInv /\ FrontierInv
  BY DEF kinit, CountInv, FrontierInv
<1>8. PagesExclusive
  BY DEF kinit, PagesExclusive
<1>9. PagesCounted
  <2>1. Waiting = {}
    BY DEF kinit, Waiting
  <2>2. Cardinality(Waiting) = 0
    BY <2>1, FS_EmptySet
  <2>. QED BY <1>1, <1>2, <2>2 DEF kinit, PagesCounted, Waiting
<1>. QED BY <1>3, <1>5, <1>6, <1>7, <1>8, <1>9 DEF SlabInv

\* Which pages are on their way back depends on the CPUs that free them.
LEMMA FreeingUnchanged ==
  ASSUME TypeOK, NEW c \in Cpus, NEW x, pc' = [pc EXCEPT ![c] = x], pc[c] # "free", x # "free",
         \A d \in Cpus : d # c => arg'[d] = arg[d]
  PROVE  \A p \in Pages : Freeing(p)' <=> Freeing(p)
<1>1. \A d \in Cpus : /\ pc'[d] = "free" <=> pc[d] = "free"
                      /\ pc[d] = "free" => arg'[d] = arg[d]
  BY DEF TypeOK
<1>. QED BY <1>1 DEF Freeing

\* A call for a page is counted and on its way.
LEMMA kalloc_pageInv ==
  ASSUME SlabInv, NEW c \in Cpus, kalloc_page(c)
  PROVE  SlabInv'
<1>1. TypeOK'
  BY DEF SlabInv, TypeOK, kalloc_page, slabs
<1>2. UsedInv' /\ LimboInv' /\ CountInv' /\ FrontierInv' /\ BlocksExclusive'
  BY <1>1, SlabsUnchanged, FreeingUnchanged DEF SlabInv, kalloc_page
<1>3. LockInv'
  BY DEF SlabInv, TypeOK, LockInv, kalloc_page, slabs
<1>4. PagesExclusive'
  BY DEF SlabInv, PagesExclusive, kalloc_page, slabs
<1>5. PagesCounted'
  <2>1. Cardinality(Waiting') = Cardinality(Waiting) + 1 /\ Cardinality(Waiting) \in Nat
    <3>1. /\ TypeOK /\ pc[c] = "idle" /\ pc'[c] = "page"
          /\ \A d \in Cpus : d # c => pc'[d] = pc[d]
      BY DEF SlabInv, TypeOK, kalloc_page
    <3>. QED BY <3>1, WaitingFacts
  <2>2. Len(free_pages) \in Nat /\ Cardinality(Pages) \in Nat
    BY SlabAssumption, FS_CardinalityType DEF SlabInv, TypeOK
  <2>3. page_lock' = page_lock /\ kalloc_page_cnt' = kalloc_page_cnt + 1 /\ free_pages' = free_pages
    BY DEF kalloc_page
  <2>4. page_lock = None =>
          kalloc_page_cnt = Cardinality(Pages) - Len(free_pages) + Cardinality(Waiting)
    BY DEF SlabInv, PagesCounted, Waiting
  <2>5. page_lock' = None =>
          kalloc_page_cnt' = Cardinality(Pages) - Len(free_pages') + Cardinality(Waiting')
    BY <2>1, <2>2, <2>3, <2>4
  <2>. QED BY <2>5 DEF PagesCounted, Waiting
<1>. QED BY <1>1, <1>2, <1>3, <1>4, <1>5 DEF SlabInv

\* A page leaves free_pages and has one owner, its caller.
LEMMA TakePageInv ==
  ASSUME SlabInv, NEW c \in Cpus, TakePage(c)
  PROVE  SlabInv'
<1>0. TypeOK /\ free_pages \in Seq(Pages) /\ free_pages # <<>>
  BY DEF SlabInv, TypeOK, TakePage
<1>1. /\ Head(free_pages) \in Pages /\ Tail(free_pages) \in Seq(Pages)
      /\ Len(Tail(free_pages)) = Len(free_pages) - 1
      /\ Elems(free_pages) = Elems(Tail(free_pages)) \cup {Head(free_pages)}
      /\ NoDup(Tail(free_pages)) /\ Head(free_pages) \notin Elems(Tail(free_pages))
  BY <1>0, HeadTailFacts DEF SlabInv, PagesExclusive
<1>2. TypeOK'
  BY <1>0, <1>1 DEF TypeOK, TakePage, slabs
<1>3. UsedInv' /\ LimboInv' /\ CountInv' /\ FrontierInv' /\ BlocksExclusive'
  BY <1>0, <1>2, SlabsUnchanged, FreeingUnchanged DEF TakePage
<1>4. LockInv'
  BY DEF SlabInv, TypeOK, LockInv, TakePage, slabs
<1>5. PagesExclusive'
  <2>1. PagesExclusive /\ slab' = slab /\ used' = used
    BY DEF SlabInv, TakePage, slabs
  <2>2. NoDup(free_pages') /\ Head(free_pages) \notin Elems(free_pages')
        /\ Elems(free_pages) = Elems(free_pages') \cup {Head(free_pages)}
    BY <1>1 DEF TakePage
  <2>3. used_pages' = used_pages \cup {Head(free_pages)}
    BY DEF TakePage
  <2>. QED BY <1>1, <2>1, <2>2, <2>3 DEF PagesExclusive
<1>6. PagesCounted'
  <2>1. Cardinality(Waiting') = Cardinality(Waiting) - 1 /\ Cardinality(Waiting) \in Nat
    <3>1. pc[c] = "page" /\ pc'[c] = "idle" /\ \A d \in Cpus : d # c => pc'[d] = pc[d]
      BY <1>0 DEF TypeOK, TakePage
    <3>. QED BY <1>0, <3>1, WaitingFacts
  <2>2. Len(free_pages) \in Nat /\ Cardinality(Pages) \in Nat
    BY <1>0, SlabAssumption, FS_CardinalityType
  <2>3. page_lock' = page_lock /\ kalloc_page_cnt' = kalloc_page_cnt
        /\ Len(free_pages') = Len(free_pages) - 1
    BY <1>1 DEF TakePage
  <2>4. page_lock = None =>
          kalloc_page_cnt = Cardinality(Pages) - Len(free_pages) + Cardinality(Waiting)
    BY DEF SlabInv, PagesCounted, Waiting
  <2>5. page_lock' = None =>
          kalloc_page_cnt' = Cardinality(Pages) - Len(free_pages') + Cardinality(Waiting')
    BY <2>1, <2>2, <2>3, <2>4
  <2>. QED BY <2>5 DEF PagesCounted, Waiting
<1>. QED BY <1>2, <1>3, <1>4, <1>5, <1>6 DEF SlabInv

\* Out of pages: page_lock is kept, nothing is handed out.
LEMMA NoPageInv ==
  ASSUME SlabInv, NEW c \in Cpus, NoPage(c)
  PROVE  SlabInv'
<1>1. TypeOK'
  BY DEF SlabInv, TypeOK, NoPage, slabs
<1>2. \A p \in Pages : Freeing(p)' <=> Freeing(p)
  BY FreeingUnchanged DEF SlabInv, NoPage
<1>3. UsedInv' /\ LimboInv' /\ CountInv' /\ FrontierInv' /\ BlocksExclusive'
  BY <1>1, <1>2, SlabsUnchanged DEF NoPage
<1>4. page_lock' # None
  BY SlabAssumption DEF NoPage
<1>5. LockInv'
  BY <1>4 DEF SlabInv, TypeOK, LockInv, NoPage, slabs
<1>6. PagesExclusive'
  BY DEF SlabInv, PagesExclusive, NoPage, slabs
<1>7. PagesCounted'
  BY <1>4 DEF PagesCounted
<1>. QED BY <1>1, <1>3, <1>5, <1>6, <1>7 DEF SlabInv

\* A caller's page goes back to free_pages, where it was not.
LEMMA kfree_pageInv ==
  ASSUME SlabInv, NEW c \in Cpus, NEW p \in Pages, kfree_page(c, p)
  PROVE  SlabInv'
<1>0. /\ TypeOK /\ PagesExclusive /\ free_pages \in Seq(Pages)
      /\ p \in used_pages /\ p \notin Elems(free_pages)
      /\ free_pages' = _insert_into_list(free_pages, p)
  BY DEF SlabInv, TypeOK, kfree_page, PagesExclusive, _insert_into_list
<1>1. free_pages' \in Seq(Pages) /\ Elems(free_pages') = Elems(free_pages) \cup {p}
      /\ NoDup(free_pages') /\ Len(free_pages') = Len(free_pages) + 1
  <2>1. NoDup(free_pages)
    BY <1>0 DEF PagesExclusive
  <2> DEFINE q == _insert_into_list(free_pages, p)
  <2>2. q \in Seq(Pages) /\ Elems(q) = Elems(free_pages) \cup {p} /\ NoDup(q)
    BY <1>0, <2>1, InsertFacts
  <2>3. Len(q) = Len(free_pages) + 1
    BY <1>0, ListLengths
  <2> HIDE DEF q
  <2>. QED BY <1>0, <2>2, <2>3 DEF q
<1>2. /\ Cardinality(Pages) \in Nat /\ Len(free_pages) \in Nat
      /\ Len(free_pages) < Cardinality(Pages)
  BY <1>0, FreePagesBound
<1>3. Cardinality(Waiting) \in Nat
  BY <1>0, SlabAssumption, FS_Subset, FS_CardinalityType DEF Waiting
<1>4. kalloc_page_cnt = Cardinality(Pages) - Len(free_pages) + Cardinality(Waiting)
  BY DEF SlabInv, PagesCounted, Waiting, kfree_page
<1>5. kalloc_page_cnt' \in Nat
      /\ kalloc_page_cnt' = Cardinality(Pages) - Len(free_pages') + Cardinality(Waiting)
  <2>1. kalloc_page_cnt' = kalloc_page_cnt - 1
    BY DEF kfree_page
  <2>2. Len(free_pages') = Len(free_pages) + 1
    BY <1>1
  <2> DEFINE n == Len(free_pages)
             n2 == Len(free_pages')
  <2> HIDE DEF n, n2
  <2>. QED BY <1>2, <1>3, <1>4, <2>1, <2>2 DEF n, n2
<1>6. TypeOK'
  BY <1>0, <1>1, <1>5 DEF TypeOK, kfree_page, slabs
<1>7. \A q \in Pages : Freeing(q)' <=> Freeing(q)
  BY DEF Freeing, kfree_page
<1>8. UsedInv' /\ LimboInv' /\ CountInv' /\ FrontierInv' /\ BlocksExclusive'
  BY <1>6, <1>7, SlabsUnchanged DEF kfree_page
<1>9. LockInv'
  BY DEF SlabInv, TypeOK, LockInv, kfree_page, slabs
<1>10. PagesExclusive'
  <2>1. slab' = slab /\ used' = used /\ used_pages' = used_pages \ {p}
    BY DEF kfree_page, slabs
  <2>. QED BY <1>0, <1>1, <2>1 DEF PagesExclusive
<1>11. PagesCounted'
  BY <1>5 DEF PagesCounted, Waiting, kfree_page
<1>. QED BY <1>6, <1>8, <1>9, <1>10, <1>11 DEF SlabInv

\* kalloc on an empty list keeps mem_lock and asks for a page.
LEMMA KallocEmptyInv ==
  ASSUME SlabInv, NEW c \in Cpus, NEW r \in Requests, KallocEmpty(c, r)
  PROVE  SlabInv'
<1> DEFINE i == get_allocator_index(r)
<1>0. i \in Allocators /\ TypeOK
  BY IndexOfRequest DEF SlabInv
<1> HIDE DEF i
<1>1. TypeOK'
  BY <1>0 DEF TypeOK, KallocEmpty, slabs, i
<1>2. \A d \in Cpus : d # c => arg'[d] = arg[d]
  BY <1>0 DEF TypeOK, KallocEmpty
<1>3. UsedInv' /\ LimboInv' /\ CountInv' /\ FrontierInv' /\ BlocksExclusive'
  BY <1>0, <1>1, <1>2, SlabsUnchanged, FreeingUnchanged DEF KallocEmpty
<1>4. LockInv'
  <2>1. /\ free_list[i] = <<>> /\ mem_lock = None /\ mem_lock' = c /\ pc[c] = "idle"
        /\ pc' = [pc EXCEPT ![c] = "slab"] /\ arg' = [arg EXCEPT ![c] = i]
        /\ page_lock' = page_lock /\ free_list' = free_list /\ slab' = slab
    BY DEF KallocEmpty, slabs, i
  <2>2. ASSUME NEW d \in Cpus
        PROVE  /\ pc'[d] = "slab" => arg'[d] \in Allocators
               /\ pc'[d] = "free" => arg'[d] \in Pages /\ slab'[arg'[d]] # 0
    BY <1>0, <2>1 DEF SlabInv, TypeOK, LockInv
  <2>3. ASSUME page_lock' = None, NEW d \in Cpus
        PROVE  /\ pc'[d] \in {"slab", "free"} => mem_lock' = d
               /\ pc'[d] # "fail"
               /\ pc'[d] = "slab" => free_list'[arg'[d]] = <<>>
    <3>1. pc[d] \in {"idle", "page"}
      BY <2>1, <2>3, Excluded
    <3>. QED BY <1>0, <2>1, <3>1 DEF TypeOK
  <2>. QED BY <2>2, <2>3 DEF LockInv
<1>5. PagesExclusive'
  BY DEF SlabInv, PagesExclusive, KallocEmpty, slabs
<1>6. PagesCounted'
  <2>1. Cardinality(Waiting') = Cardinality(Waiting) + 1 /\ Cardinality(Waiting) \in Nat
    <3>1. /\ TypeOK /\ pc[c] = "idle" /\ pc'[c] = "slab"
          /\ \A d \in Cpus : d # c => pc'[d] = pc[d]
      BY DEF SlabInv, TypeOK, KallocEmpty
    <3>. QED BY <3>1, WaitingFacts
  <2>2. Len(free_pages) \in Nat /\ Cardinality(Pages) \in Nat
    BY SlabAssumption, FS_CardinalityType DEF SlabInv, TypeOK
  <2>3. page_lock' = page_lock /\ kalloc_page_cnt' = kalloc_page_cnt + 1 /\ free_pages' = free_pages
    BY DEF KallocEmpty
  <2>4. page_lock = None =>
          kalloc_page_cnt = Cardinality(Pages) - Len(free_pages) + Cardinality(Waiting)
    BY DEF SlabInv, PagesCounted, Waiting
  <2>5. page_lock' = None =>
          kalloc_page_cnt' = Cardinality(Pages) - Len(free_pages') + Cardinality(Waiting')
    BY <2>1, <2>2, <2>3, <2>4
  <2>. QED BY <2>5 DEF PagesCounted, Waiting
<1>. QED BY <1>1, <1>3, <1>4, <1>5, <1>6 DEF SlabInv

\* kalloc that got no page returns without a block.
LEMMA KallocFailInv ==
  ASSUME SlabInv, NEW c \in Cpus, KallocFail(c)
  PROVE  SlabInv'
<1>0. TypeOK /\ page_lock # None
  BY DEF SlabInv, LockInv, KallocFail
<1>1. TypeOK'
  BY <1>0 DEF TypeOK, KallocFail, slabs
<1>2. \A d \in Cpus : d # c => arg'[d] = arg[d]
  BY <1>0 DEF TypeOK, KallocFail
<1>3. UsedInv' /\ LimboInv' /\ CountInv' /\ FrontierInv' /\ BlocksExclusive'
  BY <1>0, <1>1, <1>2, SlabsUnchanged, FreeingUnchanged DEF KallocFail
<1>4. LockInv'
  BY <1>0 DEF SlabInv, TypeOK, LockInv, KallocFail, slabs
<1>5. PagesExclusive' /\ PagesCounted'
  BY <1>0 DEF SlabInv, PagesExclusive, PagesCounted, KallocFail, slabs
<1>. QED BY <1>1, <1>3, <1>4, <1>5 DEF SlabInv

-----------------------------------------------------------------------------
(* kalloc.                                                                 *)

\* A step that hands out block b of allocator i and leaves list m: what remains
\* is that the pages of i keep their frontier.
LEMMA AllocateInv ==
  ASSUME SlabInv, NEW c \in Cpus, NEW i \in Allocators, NEW b \in Elems(free_list[i]),
         NEW m \in Seq(BlockIds), NoDup(m), mem_lock = None, Allocate(c, i, b, m),
         \A x \in Elems(m) : /\ x # b /\ x \notin used /\ slab[x[1]] = i /\ x[2] < Blocks(i)
                             /\ ~Freeing(x[1]),
         \A q \in Pages : slab[q] = i /\ ~Freeing(q) /\ Uncarved(q)' # {} => Frontier(q)'
  PROVE  SlabInv'
<1> DEFINE p == b[1]
<1>0. /\ TypeOK /\ b \in BlockIds /\ p \in Pages /\ b = <<p, b[2]>>
      /\ b[2] \in 0..(Blocks(i) - 1) /\ slab[p] = i /\ b \notin used /\ ~Freeing(p)
      /\ i # 0
  BY ListedFacts, Sizes DEF SlabInv
<1>1. /\ free_list' = [free_list EXCEPT ![i] = m] /\ used' = used \cup {b}
      /\ block_count' = [block_count EXCEPT ![p] = block_count[p] - 1]
      /\ mem_lock' = mem_lock /\ page_lock' = page_lock /\ free_pages' = free_pages
      /\ kalloc_page_cnt' = kalloc_page_cnt /\ head' = head /\ slab' = slab
      /\ used_pages' = used_pages /\ pc' = pc /\ arg' = arg
  BY DEF Allocate
<1> HIDE DEF p
<1>2. \A j \in Allocators : free_list'[j] = IF j = i THEN m ELSE free_list[j]
  BY <1>0, <1>1 DEF TypeOK
<1>3. \A q \in Pages : Freeing(q)' <=> Freeing(q)
  BY <1>1 DEF Freeing
<1>4. /\ NotUsed(p)' = NotUsed(p) \ {b[2]} /\ b[2] \in NotUsed(p)
      /\ \A q \in Pages : q # p => NotUsed(q)' = NotUsed(q)
  <2>1. \A q \in Pages : \A k : <<q, k>> \in used' <=> <<q, k>> \in used \/ (q = p /\ k = b[2])
    BY <1>0, <1>1
  <2>2. NotUsed(p)' = {k \in 0..(Blocks(slab[p]) - 1) : <<p, k>> \notin used'}
    BY <1>1 DEF NotUsed
  <2>3. NotUsed(p)' = NotUsed(p) \ {b[2]}
    BY <1>0, <2>1, <2>2 DEF NotUsed
  <2>4. ASSUME NEW q \in Pages, q # p PROVE NotUsed(q)' = NotUsed(q)
    <3>1. NotUsed(q)' = {k \in 0..(Blocks(slab[q]) - 1) : <<q, k>> \notin used'}
      BY <1>1 DEF NotUsed
    <3>. QED BY <2>1, <2>4, <3>1 DEF NotUsed
  <2>5. b[2] \in NotUsed(p)
    BY <1>0 DEF NotUsed
  <2>. QED BY <2>3, <2>4, <2>5
<1>5. block_count[p] - 1 \in Nat /\ block_count[p] - 1 = Cardinality(NotUsed(p)')
  <2>1. block_count[p] = Cardinality(NotUsed(p))
    BY <1>0 DEF SlabInv, CountInv
  <2>2. IsFiniteSet(NotUsed(p)) /\ Cardinality(NotUsed(p)) \in Nat
    BY <1>0, NotUsedFinite
  <2>3. /\ IsFiniteSet(NotUsed(p) \ {b[2]})
        /\ Cardinality(NotUsed(p) \ {b[2]}) = Cardinality(NotUsed(p)) - 1
    BY <1>4, <2>2, FS_RemoveElement
  <2>4. Cardinality(NotUsed(p) \ {b[2]}) \in Nat
    BY <2>3, FS_CardinalityType
  <2>. QED BY <1>4, <2>1, <2>3, <2>4
<1>6. TypeOK'
  <2>1. /\ free_list' \in [Allocators -> Seq(BlockIds)] /\ used' \subseteq BlockIds
    BY <1>0, <1>1 DEF TypeOK
  <2>2. block_count' \in [Pages -> Nat]
    BY <1>0, <1>1, <1>5 DEF TypeOK
  <2>. QED BY <1>0, <1>1, <2>1, <2>2 DEF TypeOK
<1>7. LockInv'
  <2>1. \A d \in Cpus : page_lock = None => pc[d] \in {"idle", "page"}
    BY Excluded
  <2>. QED BY <1>1, <2>1 DEF SlabInv, LockInv
<1>8. UsedInv'
  <2>1. ASSUME NEW x \in used'
        PROVE  slab'[x[1]] # 0 /\ x[2] < Blocks(slab'[x[1]]) /\ ~Freeing(x[1])'
    <3>1. CASE x = b
      <4>1. Blocks(i) \in Nat /\ b[2] < Blocks(i)
        BY <1>0, Sizes
      <4>. QED BY <1>0, <1>1, <1>3, <3>1, <4>1 DEF p
    <3>2. CASE x \in used
      BY <1>1, <1>3, <3>2, ListedFacts DEF SlabInv, UsedInv
    <3>. QED BY <1>1, <2>1, <3>1, <3>2
  <2>. QED BY <2>1 DEF UsedInv
<1>9. LimboInv'
  <2>1. ASSUME NEW j \in Allocators, NEW x \in Elems(free_list'[j]) PROVE ~Freeing(x[1])'
    <3>1. free_list'[j] \in Seq(BlockIds)
      BY <1>6 DEF TypeOK
    <3>2. x[1] \in Pages
      BY <3>1, BlockFacts DEF Elems
    <3>3. ~Freeing(x[1])
      BY <1>2, <2>1, ListedFacts
    <3>. QED BY <1>3, <3>2, <3>3
  <2>. QED BY <2>1 DEF LimboInv
<1>10. CountInv'
  <2>1. ASSUME NEW q \in Pages, slab[q] # 0 PROVE block_count'[q] = Cardinality(NotUsed(q)')
    <3>1. CASE q = p
      BY <1>0, <1>1, <1>5, <3>1 DEF TypeOK
    <3>2. CASE q # p
      BY <1>0, <1>1, <1>4, <2>1, <3>2 DEF TypeOK, SlabInv, CountInv
    <3>. QED BY <3>1, <3>2
  <2>. QED BY <1>1, <2>1 DEF CountInv
<1>11. FrontierInv'
  <2>1. ASSUME NEW q \in Pages, slab[q] # 0, ~Freeing(q), Uncarved(q)' # {} PROVE Frontier(q)'
    <3>1. CASE slab[q] = i
      BY <2>1, <3>1
    <3>2. CASE slab[q] # i
      <4>1. slab[q] \in Allocators /\ free_list'[slab[q]] = free_list[slab[q]]
        BY <1>0, <1>2, <2>1, <3>2 DEF TypeOK
      <4>2. \A k : <<q, k>> \in used' <=> <<q, k>> \in used
        BY <1>0, <1>1, <3>2
      <4>3. Uncarved(q)' = {k \in 0..(Blocks(slab[q]) - 1) :
                                <<q, k>> \notin used' \cup Elems(free_list[slab[q]])}
        BY <1>1, <4>1 DEF Uncarved
      <4>4. Uncarved(q)' = Uncarved(q)
        BY <4>2, <4>3 DEF Uncarved
      <4>5. Frontier(q)
        BY <2>1, <4>4 DEF SlabInv, FrontierInv
      <4>. QED BY <1>1, <4>1, <4>4, <4>5 DEF Frontier
    <3>. QED BY <3>1, <3>2
  <2>. QED BY <1>1, <1>3, <2>1 DEF FrontierInv
<1>12. BlocksExclusive'
  <2>1. ASSUME NEW j \in Allocators PROVE NoDup(free_list'[j])
    BY <1>2 DEF SlabInv, BlocksExclusive
  <2>2. ASSUME NEW j \in Allocators, NEW x \in Elems(free_list'[j])
        PROVE  x \notin used' /\ slab'[x[1]] = j /\ x[2] < Blocks(j)
    <3>1. CASE j = i
      BY <1>1, <1>2, <2>2, <3>1
    <3>2. CASE j # i
      <4>1. x \notin used /\ slab[x[1]] = j /\ x[2] < Blocks(j)
        BY <1>2, <2>2, <3>2 DEF SlabInv, BlocksExclusive
      <4>. QED BY <1>0, <1>1, <3>2, <4>1 DEF p
    <3>. QED BY <3>1, <3>2
  <2>. QED BY <2>1, <2>2 DEF BlocksExclusive
<1>13. PagesExclusive'
  <2>1. ASSUME NEW q \in Pages, slab[q] = 0, NEW x \in used' PROVE x[1] # q
    <3>1. CASE x = b
      BY <1>0, <2>1, <3>1 DEF p
    <3>2. CASE x \in used
      BY <2>1, <3>2 DEF SlabInv, PagesExclusive
    <3>. QED BY <1>1, <2>1, <3>1, <3>2
  <2>. QED BY <1>1, <2>1 DEF SlabInv, PagesExclusive
<1>14. PagesCounted'
  BY <1>1 DEF SlabInv, PagesCounted
<1>. QED BY <1>6, <1>7, <1>8, <1>9, <1>10, <1>11, <1>12, <1>13, <1>14 DEF SlabInv

\* kalloc takes the block behind the head of the list.
LEMMA KallocSecondInv ==
  ASSUME SlabInv, NEW c \in Cpus, NEW r \in Requests, KallocSecond(c, r)
  PROVE  SlabInv'
<1> DEFINE i == get_allocator_index(r)
           l == free_list[i]
           m == <<l[1]>> \o SubSeq(l, 3, Len(l))
           b == l[2]
<1>0. i \in Allocators /\ TypeOK
  BY IndexOfRequest DEF SlabInv
<1>1. mem_lock = None /\ Len(l) >= 2 /\ Allocate(c, i, b, m)
  BY DEF KallocSecond
<1> HIDE DEF i
<1>2. l \in Seq(BlockIds) /\ NoDup(l)
  BY <1>0 DEF TypeOK, SlabInv, BlocksExclusive
<1> HIDE DEF l
<1>3. /\ m \in Seq(BlockIds) /\ m # <<>> /\ m[1] = l[1] /\ b \in Elems(l)
      /\ Elems(m) = Elems(l) \ {b} /\ NoDup(m)
  BY <1>1, <1>2, SecondFacts
<1> HIDE DEF m, b
<1>4. \A x \in Elems(m) : /\ x # b /\ x \notin used /\ slab[x[1]] = i /\ x[2] < Blocks(i)
                          /\ ~Freeing(x[1])
  BY <1>0, <1>3 DEF SlabInv, BlocksExclusive, LimboInv, l
<1>5. /\ free_list' = [free_list EXCEPT ![i] = m] /\ used' = used \cup {b}
      /\ head' = head /\ slab' = slab
  BY <1>1 DEF Allocate
<1>6. free_list'[i] = m
  BY <1>0, <1>5 DEF TypeOK
<1>7. ASSUME NEW q \in Pages, slab[q] = i, ~Freeing(q), Uncarved(q)' # {} PROVE Frontier(q)'
  <2>1. used' \cup Elems(m) = used \cup Elems(l)
    BY <1>3, <1>5
  <2>2. Uncarved(q)' = {k \in 0..(Blocks(i) - 1) : <<q, k>> \notin used' \cup Elems(m)}
    BY <1>5, <1>6, <1>7 DEF Uncarved
  <2>3. Uncarved(q)' = Uncarved(q)
    BY <1>7, <2>1, <2>2 DEF Uncarved, l
  <2>4. Frontier(q) /\ i # 0
    BY <1>0, <1>7, <2>3, Sizes DEF SlabInv, FrontierInv
  <2>5. head[i] /\ l[1][1] = q /\ Uncarved(q) = (l[1][2] + 1)..(Blocks(i) - 1)
    BY <1>7, <2>4 DEF Frontier, l
  <2>. QED BY <1>3, <1>5, <1>6, <1>7, <2>3, <2>5 DEF Frontier
<1>8. b \in Elems(free_list[i])
  BY <1>3 DEF l
<1>. QED BY <1>0, <1>1, <1>3, <1>4, <1>7, <1>8, AllocateInv

\* kalloc carves the block behind the last one of the list exactly when the page
\* has blocks that were never carved.
LEMMA CarvedExact ==
  ASSUME SlabInv, NEW i \in Allocators, NEW f, free_list[i] = <<f>>
  PROVE  /\ Uncarved(f[1]) = {} => Carved(i, f) = <<>>
         /\ Uncarved(f[1]) # {} =>
                /\ Carved(i, f) = <<<<f[1], f[2] + 1>>>>
                /\ Uncarved(f[1]) = (f[2] + 1)..(Blocks(i) - 1)
                /\ f[2] + 1 \in Uncarved(f[1])
<1> DEFINE p == f[1]
           k == f[2]
<1>0. Elems(free_list[i]) = {f} /\ free_list[i] # <<>> /\ free_list[i][1] = f
  BY DEF Elems
<1>1. /\ p \in Pages /\ f = <<p, k>> /\ k \in 0..(Blocks(i) - 1) /\ slab[p] = i
      /\ f \notin used /\ ~Freeing(p) /\ i # 0 /\ TypeOK /\ Blocks(i) \in Nat
  BY <1>0, ListedFacts, Sizes DEF SlabInv
<1> HIDE DEF p, k
<1>2. block_count[p] = Cardinality(NotUsed(p)) /\ IsFiniteSet(NotUsed(p))
      /\ Cardinality(NotUsed(p)) \in Nat
  BY <1>1, NotUsedFinite DEF SlabInv, CountInv
<1>3. Uncarved(p) = NotUsed(p) \ {k} /\ k \in NotUsed(p)
  <2>1. \A j : <<p, j>> \in Elems(free_list[i]) <=> j = k
    BY <1>0, <1>1
  <2>2. Uncarved(p) = {j \in 0..(Blocks(i) - 1) : <<p, j>> \notin used \cup Elems(free_list[i])}
    BY <1>1 DEF Uncarved
  <2>3. NotUsed(p) = {j \in 0..(Blocks(i) - 1) : <<p, j>> \notin used}
    BY <1>1 DEF NotUsed
  <2>. QED BY <1>1, <2>1, <2>2, <2>3
<1>4. ASSUME Uncarved(p) = {} PROVE Carved(i, f) = <<>>
  <2>1. NotUsed(p) = {k}
    BY <1>3, <1>4
  <2>2. block_count[p] = 1
    BY <1>2, <2>1, FS_Singleton
  <2>. QED BY <2>2 DEF Carved, p
<1>5. ASSUME Uncarved(p) # {}
      PROVE  /\ Carved(i, f) = <<<<p, k + 1>>>>
             /\ Uncarved(p) = (k + 1)..(Blocks(i) - 1) /\ k + 1 \in Uncarved(p)
  <2>1. Frontier(p)
    BY <1>1, <1>5 DEF SlabInv, FrontierInv
  <2>2. head[i] /\ Uncarved(p) = (k + 1)..(Blocks(i) - 1)
    BY <1>0, <1>1, <2>1 DEF Frontier, k
  <2>3. k \in Nat /\ k + 1 < Blocks(i) /\ k + 1 \in Uncarved(p)
    BY <1>1, <1>5, <2>2
  <2>4. block_count[p] > 1
    <3>1. Cardinality(NotUsed(p)) # 0 /\ Cardinality(NotUsed(p)) # 1
      <4>1. k + 1 \in NotUsed(p) /\ k \in NotUsed(p) /\ k # k + 1
        BY <1>3, <2>3
      <4>. QED BY <1>2, <4>1, FS_EmptySet, FS_Singleton
    <3>. QED BY <1>2, <3>1
  <2>5. ((8 + (k + 1) * size[i]) % PageSize) + size[i] <= PageSize
    BY <2>3, BlocksFit
  <2>. QED BY <2>2, <2>3, <2>4, <2>5 DEF Carved, p, k
<1>. QED BY <1>4, <1>5 DEF p, k

\* kalloc takes the only block of the list, and carves the next one if there is one.
LEMMA KallocLastInv ==
  ASSUME SlabInv, NEW c \in Cpus, NEW r \in Requests, KallocLast(c, r)
  PROVE  SlabInv'
<1> DEFINE i == get_allocator_index(r)
           f == free_list[i][1]
           p == f[1]
           k == f[2]
           m == Carved(i, f)
<1>0. i \in Allocators /\ TypeOK
  BY IndexOfRequest DEF SlabInv
<1>1. mem_lock = None /\ Len(free_list[i]) = 1 /\ Allocate(c, i, f, m)
  BY DEF KallocLast
<1> HIDE DEF i
<1>2. free_list[i] = <<f>>
  <2>1. free_list[i] \in Seq(BlockIds)
    BY <1>0 DEF TypeOK
  <2>. QED BY <1>1, <2>1
<1>3. Elems(free_list[i]) = {f}
  BY <1>2 DEF Elems
<1> HIDE DEF f
<1>4. /\ p \in Pages /\ f = <<p, k>> /\ k \in 0..(Blocks(i) - 1) /\ slab[p] = i
      /\ f \notin used /\ ~Freeing(p) /\ i # 0 /\ Blocks(i) \in Nat /\ f \in BlockIds
  BY <1>0, <1>3, ListedFacts, Sizes
<1>5. /\ Uncarved(p) = {} => m = <<>>
      /\ Uncarved(p) # {} => /\ m = <<<<p, k + 1>>>> /\ Uncarved(p) = (k + 1)..(Blocks(i) - 1)
                             /\ k + 1 \in Uncarved(p)
  BY <1>0, <1>2, CarvedExact
<1> HIDE DEF m, p, k
<1>6. /\ free_list' = [free_list EXCEPT ![i] = m] /\ used' = used \cup {f}
      /\ head' = head /\ slab' = slab
  BY <1>1 DEF Allocate
<1>7. free_list'[i] = m
  BY <1>0, <1>6 DEF TypeOK
<1>8. \A q \in Pages : slab[q] = i =>
         /\ Uncarved(q) = {j \in 0..(Blocks(i) - 1) : <<q, j>> \notin used \cup {f}}
         /\ Uncarved(q)' = {j \in 0..(Blocks(i) - 1) : <<q, j>> \notin used \cup {f} \cup Elems(m)}
  BY <1>3, <1>6, <1>7 DEF Uncarved
<1>9. ASSUME NEW q \in Pages, slab[q] = i, ~Freeing(q), q # p PROVE Uncarved(q) = {}
  <2>1. ~Frontier(q)
    BY <1>2, <1>9 DEF Frontier, p
  <2>. QED BY <1>4, <1>9, <2>1 DEF SlabInv, FrontierInv
<1>10. CASE Uncarved(p) = {}
  <2>1. m = <<>> /\ Elems(m) = {} /\ m \in Seq(BlockIds) /\ NoDup(m)
    BY <1>5, <1>10 DEF Elems, NoDup
  <2>2. ASSUME NEW q \in Pages, slab[q] = i, ~Freeing(q) PROVE Uncarved(q)' = {}
    <3>1. Uncarved(q)' = Uncarved(q)
      BY <1>8, <2>1, <2>2
    <3>. QED BY <1>9, <1>10, <2>2, <3>1
  <2>. QED BY <1>0, <1>1, <1>3, <2>1, <2>2, AllocateInv
<1>11. CASE Uncarved(p) # {}
  <2> DEFINE x == <<p, k + 1>>
  <2>1. /\ m = <<x>> /\ Uncarved(p) = (k + 1)..(Blocks(i) - 1) /\ k + 1 \in Uncarved(p)
        /\ k + 1 \in 0..(Blocks(i) - 1) /\ k \in Nat
    BY <1>4, <1>5, <1>11
  <2>2. x \in BlockIds /\ x[1] = p /\ x[2] = k + 1
    BY <1>0, <1>4, <2>1, BlockFacts
  <2>3. x \notin used \cup {f} /\ x[2] < Blocks(i)
    <3>1. x \notin used \cup {f}
      BY <1>4, <1>8, <2>1
    <3>2. k + 1 < Blocks(i)
      BY <1>4, <2>1
    <3>. QED BY <2>2, <3>1, <3>2
  <2> HIDE DEF x
  <2>4. m \in Seq(BlockIds) /\ Elems(m) = {x} /\ NoDup(m) /\ m # <<>> /\ m[1] = x
    BY <2>1, <2>2 DEF Elems, NoDup
  <2>5. ASSUME NEW q \in Pages, slab[q] = i, ~Freeing(q), Uncarved(q)' # {} PROVE Frontier(q)'
    <3>1. CASE q # p
      <4>1. Uncarved(q)' \subseteq Uncarved(q)
        BY <1>8, <2>5
      <4>. QED BY <1>9, <2>5, <3>1, <4>1
    <3>2. CASE q = p
      <4>1. \A j : <<q, j>> = x <=> j = k + 1
        BY <3>2 DEF x
      <4>2. Uncarved(q)' = Uncarved(q) \ {k + 1}
        BY <1>8, <2>4, <2>5, <4>1
      <4>3. Uncarved(q)' = (k + 2)..(Blocks(i) - 1)
        BY <1>4, <2>1, <3>2, <4>2
      <4>4. head[i]
        BY <1>4, <1>11 DEF SlabInv, FrontierInv, Frontier
      <4>5. (k + 1) + 1 = k + 2
        BY <2>1
      <4>6. Uncarved(q)' = (x[2] + 1)..(Blocks(i) - 1)
        BY <2>2, <4>3, <4>5
      <4>7. slab'[q] = i /\ head'[i] /\ free_list'[i] # <<>> /\ free_list'[i][1] = x /\ x[1] = q
        BY <1>6, <1>7, <2>2, <2>4, <2>5, <3>2, <4>4
      <4>. QED BY <4>6, <4>7 DEF Frontier
    <3>. QED BY <3>1, <3>2
  <2>6. \A y \in Elems(m) : /\ y # f /\ y \notin used /\ slab[y[1]] = i /\ y[2] < Blocks(i)
                            /\ ~Freeing(y[1])
    BY <1>4, <2>2, <2>3, <2>4
  <2>. QED BY <1>0, <1>1, <1>3, <2>4, <2>5, <2>6, AllocateInv
<1>. QED BY <1>10, <1>11

\* kalloc splits the page it was given.
LEMMA KallocSlabInv ==
  ASSUME SlabInv, NEW c \in Cpus, KallocSlab(c)
  PROVE  SlabInv'
<1>0. /\ TypeOK /\ pc[c] = "slab" /\ page_lock = None /\ mem_lock = c /\ None # c
      /\ free_pages \in Seq(Pages) /\ free_pages # <<>> /\ NoDup(free_pages)
  BY SlabAssumption DEF SlabInv, LockInv, TypeOK, PagesExclusive, KallocSlab
<1>1. PICK i \in Allocators : i = arg[c]
  BY <1>0 DEF SlabInv, LockInv
<1>2. /\ Head(free_pages) \in Pages /\ Head(free_pages) \in Elems(free_pages)
      /\ Tail(free_pages) \in Seq(Pages)
      /\ Len(Tail(free_pages)) = Len(free_pages) - 1
      /\ Elems(free_pages) = Elems(Tail(free_pages)) \cup {Head(free_pages)}
      /\ NoDup(Tail(free_pages)) /\ Head(free_pages) \notin Elems(Tail(free_pages))
  BY <1>0, HeadTailFacts
<1>3. PICK p \in Pages : p = Head(free_pages)
  BY <1>2
<1>4. /\ free_list[i] = <<>> /\ i # 0 /\ Blocks(i) \in Nat /\ Blocks(i) > 1
      /\ slab[p] = 0 /\ p \notin used_pages /\ \A b \in used : b[1] # p
  BY <1>0, <1>1, <1>2, <1>3, Sizes DEF SlabInv, LockInv, PagesExclusive
<1>5. /\ free_pages' = Tail(free_pages)
      /\ slab' = [slab EXCEPT ![p] = i]
      /\ block_count' = [block_count EXCEPT ![p] = Blocks(i) - 1]
      /\ used' = used \cup {<<p, 0>>}
      /\ free_list' = [free_list EXCEPT ![i] = <<<<p, 1>>>>]
      /\ head' = [head EXCEPT ![i] = TRUE]
      /\ mem_lock' = None
      /\ pc' = [pc EXCEPT ![c] = "idle"]
      /\ arg' = [arg EXCEPT ![c] = None]
      /\ page_lock' = page_lock /\ kalloc_page_cnt' = kalloc_page_cnt
      /\ used_pages' = used_pages
  BY <1>1, <1>3 DEF KallocSlab, Unused
<1>6. \A d \in Cpus : d # c => pc[d] \in {"idle", "page"}
  BY <1>0, Excluded
<1>7. /\ \A d \in Cpus : pc'[d] \in {"idle", "page"} /\ (d # c => pc'[d] = pc[d])
      /\ pc'[c] = "idle"
  BY <1>0, <1>5, <1>6 DEF TypeOK
<1>8. \A q \in Pages : ~Freeing(q)' /\ ~Freeing(q)
  BY <1>0, <1>6, <1>7 DEF Freeing
<1>9. <<p, 0>> \in BlockIds /\ <<p, 1>> \in BlockIds
  BY <1>4, BlockFacts
<1>10. TypeOK'
  <2>1. /\ free_list' \in [Allocators -> Seq(BlockIds)] /\ used' \subseteq BlockIds
    <3> DEFINE x == <<p, 1>>
    <3>1. x \in BlockIds /\ free_list' = [free_list EXCEPT ![i] = <<x>>]
      BY <1>5, <1>9
    <3> HIDE DEF x
    <3>2. <<x>> \in Seq(BlockIds) /\ free_list \in [Allocators -> Seq(BlockIds)]
      BY <1>0, <3>1 DEF TypeOK
    <3>3. free_list' \in [Allocators -> Seq(BlockIds)]
      BY <3>1, <3>2
    <3>4. used' \subseteq BlockIds
      BY <1>0, <1>5, <1>9 DEF TypeOK
    <3>. QED BY <3>3, <3>4
  <2>2. /\ block_count' \in [Pages -> Nat] /\ slab' \in [Pages -> Allocators \cup {0}]
    BY <1>0, <1>4, <1>5 DEF TypeOK
  <2>3. head' \in [Allocators -> BOOLEAN]
    BY <1>0, <1>5 DEF TypeOK
  <2>4. /\ pc' \in [Cpus -> {"idle", "page", "slab", "fail", "free"}]
        /\ arg' \in [Cpus -> Allocators \cup Pages \cup {None}]
    BY <1>0, <1>5 DEF TypeOK
  <2>. QED BY <1>0, <1>2, <1>5, <2>1, <2>2, <2>3, <2>4 DEF TypeOK
<1>11. LockInv'
  BY <1>7 DEF LockInv
<1>12. /\ \A q \in Pages : slab'[q] = IF q = p THEN i ELSE slab[q]
       /\ \A j \in Allocators : /\ free_list'[j] = IF j = i THEN <<<<p, 1>>>> ELSE free_list[j]
                                /\ head'[j] <=> j = i \/ head[j]
  BY <1>0, <1>5 DEF TypeOK
<1>13. Elems(free_list'[i]) = {<<p, 1>>} /\ NoDup(free_list'[i])
  BY <1>12 DEF Elems, NoDup
<1>14. UsedInv'
  <2>1. ASSUME NEW b \in used'
        PROVE  slab'[b[1]] # 0 /\ b[2] < Blocks(slab'[b[1]]) /\ ~Freeing(b[1])'
    <3>1. CASE b = <<p, 0>>
      BY <1>4, <1>8, <1>12, <3>1
    <3>2. CASE b \in used
      <4>1. b[1] \in Pages /\ b[1] # p /\ slab'[b[1]] = slab[b[1]]
        BY <1>4, <1>12, <3>2, ListedFacts
      <4>. QED BY <1>8, <3>2, <4>1 DEF SlabInv, UsedInv
    <3>. QED BY <1>5, <2>1, <3>1, <3>2
  <2>. QED BY <2>1 DEF UsedInv
<1>15. LimboInv'
  <2>1. ASSUME NEW j \in Allocators, NEW b \in Elems(free_list'[j]) PROVE ~Freeing(b[1])'
    <3>1. free_list'[j] \in Seq(BlockIds)
      BY <1>10 DEF TypeOK
    <3>2. b[1] \in Pages
      BY <3>1, BlockFacts DEF Elems
    <3>. QED BY <1>8, <3>2
  <2>. QED BY <2>1 DEF LimboInv
<1>16. CountInv'
  <2>1. ASSUME NEW q \in Pages, slab'[q] # 0 PROVE block_count'[q] = Cardinality(NotUsed(q)')
    <3>1. NotUsed(q)' = {k \in 0..(Blocks(slab'[q]) - 1) : <<q, k>> \notin used'}
      BY DEF NotUsed
    <3>2. CASE q = p
      <4>1. \A k : <<p, k>> \in used' <=> k = 0
        BY <1>4, <1>5
      <4>2. NotUsed(q)' = 1..(Blocks(i) - 1)
        BY <1>4, <1>12, <3>1, <3>2, <4>1
      <4>3. Cardinality(1..(Blocks(i) - 1)) = Blocks(i) - 1
        BY <1>4, FS_Interval
      <4>. QED BY <1>0, <1>5, <3>2, <4>2, <4>3 DEF TypeOK
    <3>3. CASE q # p
      <4>1. \A k : <<q, k>> \in used' <=> <<q, k>> \in used
        BY <1>5, <3>3
      <4>2. NotUsed(q)' = NotUsed(q)
        BY <1>12, <3>1, <3>3, <4>1 DEF NotUsed
      <4>. QED BY <1>0, <1>5, <1>12, <2>1, <3>3, <4>2 DEF TypeOK, SlabInv, CountInv
    <3>. QED BY <3>2, <3>3
  <2>. QED BY <2>1 DEF CountInv
<1>17. FrontierInv'
  <2>1. ASSUME NEW q \in Pages, slab'[q] # 0, Uncarved(q)' # {} PROVE Frontier(q)'
    <3>1. Uncarved(q)' = {k \in 0..(Blocks(slab'[q]) - 1) :
                              <<q, k>> \notin used' \cup Elems(free_list'[slab'[q]])}
      BY DEF Uncarved
    <3>2. CASE q = p
      <4>1. \A k : <<p, k>> \in used' \cup {<<p, 1>>} <=> k \in {0, 1}
        BY <1>4, <1>5
      <4>2. Uncarved(q)' = 2..(Blocks(i) - 1)
        BY <1>4, <1>12, <1>13, <3>1, <3>2, <4>1
      <4>3. /\ slab'[q] = i /\ head'[i] /\ free_list'[i] = <<<<p, 1>>>>
        BY <1>12, <3>2
      <4>4. /\ free_list'[i] # <<>> /\ free_list'[i][1][1] = q /\ free_list'[i][1][2] = 1
        BY <3>2, <4>3
      <4>5. Uncarved(q)' = (free_list'[i][1][2] + 1)..(Blocks(i) - 1)
        BY <4>2, <4>4
      <4>. QED BY <4>3, <4>4, <4>5 DEF Frontier
    <3>3. CASE q # p /\ slab[q] = i
      <4>1. \A k : <<q, k>> \in used' \cup {<<p, 1>>} <=> <<q, k>> \in used
        BY <1>5, <3>3
      <4>2. Elems(free_list[i]) = {}
        BY <1>4 DEF Elems
      <4>3. Uncarved(q)' = Uncarved(q)
        BY <1>12, <1>13, <3>1, <3>3, <4>1, <4>2 DEF Uncarved
      <4>4. Frontier(q)
        BY <1>4, <1>8, <2>1, <3>3, <4>3 DEF SlabInv, FrontierInv
      <4>. QED BY <1>4, <3>3, <4>4 DEF Frontier
    <3>4. CASE q # p /\ slab[q] # i
      <4>1. /\ slab'[q] = slab[q] /\ slab[q] \in Allocators
            /\ free_list'[slab[q]] = free_list[slab[q]] /\ (head[slab[q]] => head'[slab[q]])
        BY <1>0, <1>12, <2>1, <3>4 DEF TypeOK
      <4>2. \A k : <<q, k>> \in used' <=> <<q, k>> \in used
        BY <1>5, <3>4
      <4>3. Uncarved(q)' = Uncarved(q)
        BY <3>1, <4>1, <4>2 DEF Uncarved
      <4>4. Frontier(q)
        BY <1>8, <2>1, <4>1, <4>3 DEF SlabInv, FrontierInv
      <4>. QED BY <4>1, <4>3, <4>4 DEF Frontier
    <3>. QED BY <3>2, <3>3, <3>4
  <2>. QED BY <2>1 DEF FrontierInv
<1>18. BlocksExclusive'
  <2>1. ASSUME NEW j \in Allocators PROVE NoDup(free_list'[j])
    BY <1>12, <1>13 DEF SlabInv, BlocksExclusive
  <2>2. ASSUME NEW j \in Allocators, NEW b \in Elems(free_list'[j])
        PROVE  b \notin used' /\ slab'[b[1]] = j /\ b[2] < Blocks(j)
    <3>1. CASE j = i
      <4>1. b = <<p, 1>>
        BY <1>13, <2>2, <3>1
      <4>2. b \notin used'
        BY <1>4, <1>5, <4>1
      <4>. QED BY <1>4, <1>12, <3>1, <4>1, <4>2
    <3>2. CASE j # i
      <4>1. b \in Elems(free_list[j])
        BY <1>12, <2>2, <3>2
      <4>2. b \notin used /\ slab[b[1]] = j /\ b[2] < Blocks(j) /\ b[1] \in Pages /\ j # 0
        BY <4>1, ListedFacts, Sizes DEF SlabInv, BlocksExclusive
      <4>3. b[1] # p
        BY <1>4, <4>2
      <4>4. b \notin used'
        BY <1>5, <4>2, <4>3
      <4>. QED BY <1>12, <4>2, <4>3, <4>4
    <3>. QED BY <3>1, <3>2
  <2>. QED BY <2>1, <2>2 DEF BlocksExclusive
<1>19. PagesExclusive'
  <2>1. NoDup(free_pages') /\ Elems(free_pages) = Elems(free_pages') \cup {p} /\ p \notin Elems(free_pages')
    BY <1>2, <1>3, <1>5
  <2>2. ASSUME NEW q \in Pages, q \in Elems(free_pages') PROVE q \notin used_pages' /\ slab'[q] = 0
    BY <1>5, <1>12, <2>1, <2>2 DEF SlabInv, PagesExclusive
  <2>3. ASSUME NEW q \in Pages, q \in used_pages' PROVE slab'[q] = 0
    BY <1>4, <1>5, <1>12, <2>3 DEF SlabInv, PagesExclusive
  <2>4. ASSUME NEW q \in Pages, slab'[q] = 0, NEW b \in used' PROVE b[1] # q
    BY <1>4, <1>5, <1>12, <2>4 DEF SlabInv, PagesExclusive
  <2>. QED BY <2>1, <2>2, <2>3, <2>4 DEF PagesExclusive
<1>20. PagesCounted'
  <2>1. Cardinality(Waiting') = Cardinality(Waiting) - 1 /\ Cardinality(Waiting) \in Nat
    BY <1>0, <1>7, WaitingFacts
  <2>2. Len(free_pages) \in Nat /\ Cardinality(Pages) \in Nat
    BY <1>0, SlabAssumption, FS_CardinalityType
  <2>3. kalloc_page_cnt' = kalloc_page_cnt /\ Len(free_pages') = Len(free_pages) - 1
    BY <1>2, <1>5
  <2>4. kalloc_page_cnt = Cardinality(Pages) - Len(free_pages) + Cardinality(Waiting)
    BY <1>0 DEF SlabInv, PagesCounted, Waiting
  <2>5. kalloc_page_cnt' = Cardinality(Pages) - Len(free_pages') + Cardinality(Waiting')
    BY <2>1, <2>2, <2>3, <2>4
  <2>. QED BY <2>5 DEF PagesCounted, Waiting
<1>. QED BY <1>10, <1>11, <1>14, <1>15, <1>16, <1>17, <1>18, <1>19, <1>20 DEF SlabInv

-----------------------------------------------------------------------------
(* kfree.                                                                  *)

\* A step that takes block b back into list m of its allocator, with the page
\* when none of its blocks is in use any more.
LEMMA kfreeInv ==
  ASSUME SlabInv, NEW c \in Cpus, NEW b \in used, kfree(c, b)
  PROVE  SlabInv'
<1> DEFINE p == b[1]
<1>0. /\ TypeOK /\ b \in BlockIds /\ p \in Pages /\ b = <<p, b[2]>> /\ ~Freeing(p)
      /\ slab[p] \in Allocators /\ slab[p] # 0 /\ b[2] \in 0..(Blocks(slab[p]) - 1)
      /\ pc[c] = "idle" /\ mem_lock = None
  BY ListedFacts, Sizes DEF SlabInv, kfree
<1>1. PICK i \in Allocators : i = slab[p]
  BY <1>0
<1> DEFINE l == free_list[i]
           m == Freed(l, b)
           last == block_count[p] + 1 = Blocks(i)
           n == IF last THEN WithoutPage(m, p) ELSE m
<1>2. get_allocator_index(size[slab[p]]) = i
  BY <1>1, IndexOfSize
<1>3. /\ used' = used \ {b}
      /\ head' = [head EXCEPT ![i] = head[i] /\ l # <<>>]
      /\ block_count' = [block_count EXCEPT ![p] = block_count[p] + 1]
      /\ free_list' = [free_list EXCEPT ![i] = n]
      /\ page_lock' = page_lock /\ free_pages' = free_pages
      /\ kalloc_page_cnt' = kalloc_page_cnt /\ slab' = slab /\ used_pages' = used_pages
      /\ last => /\ mem_lock' = c /\ pc' = [pc EXCEPT ![c] = "free"]
                 /\ arg' = [arg EXCEPT ![c] = p]
      /\ ~last => mem_lock' = mem_lock /\ pc' = pc /\ arg' = arg
  BY <1>1, <1>2 DEF kfree
<1> HIDE DEF p
<1>4. l \in Seq(BlockIds) /\ NoDup(l) /\ b \notin Elems(l)
  BY <1>0 DEF TypeOK, SlabInv, BlocksExclusive
<1> HIDE DEF l
<1>5. /\ m \in Seq(BlockIds) /\ m # <<>> /\ (l # <<>> => m[1] = l[1])
      /\ Elems(m) = Elems(l) \cup {b} /\ NoDup(m)
  BY <1>0, <1>4, FreedFacts
<1> HIDE DEF m
<1>6. /\ WithoutPage(m, p) \in Seq(BlockIds) /\ NoDup(WithoutPage(m, p))
      /\ Elems(WithoutPage(m, p)) = {x \in Elems(m) : x[1] # p}
      /\ m[1][1] # p => WithoutPage(m, p) # <<>> /\ WithoutPage(m, p)[1] = m[1]
  BY <1>5, KeptFacts
<1> HIDE DEF last
<1>7. /\ n \in Seq(BlockIds) /\ NoDup(n) /\ Elems(n) \subseteq Elems(m)
      /\ \A x \in Elems(m) : x[1] # p \/ ~last => x \in Elems(n)
      /\ last => \A x \in Elems(n) : x[1] # p
      /\ m[1][1] # p \/ ~last => n # <<>> /\ n[1] = m[1]
  BY <1>5, <1>6
<1> HIDE DEF n
<1>8. /\ \A j \in Allocators : /\ free_list'[j] = IF j = i THEN n ELSE free_list[j]
                               /\ head'[j] <=> head[j] /\ (j = i => l # <<>>)
      /\ \A q \in Pages : block_count'[q] = IF q = p THEN block_count[p] + 1 ELSE block_count[q]
  BY <1>0, <1>3 DEF TypeOK
<1>9. \A q \in Pages : \A k : <<q, k>> \in used' <=> <<q, k>> \in used /\ ~(q = p /\ k = b[2])
  BY <1>0, <1>3
<1>10. /\ NotUsed(p)' = NotUsed(p) \cup {b[2]} /\ b[2] \notin NotUsed(p)
       /\ \A q \in Pages : q # p => NotUsed(q)' = NotUsed(q)
  <2>1. \A q \in Pages : NotUsed(q)' = {k \in 0..(Blocks(slab[q]) - 1) : <<q, k>> \notin used'}
    BY <1>3 DEF NotUsed
  <2>2. NotUsed(p)' = NotUsed(p) \cup {b[2]}
    BY <1>0, <1>9, <2>1 DEF NotUsed
  <2>3. ASSUME NEW q \in Pages, q # p PROVE NotUsed(q)' = NotUsed(q)
    BY <1>9, <2>1, <2>3 DEF NotUsed
  <2>4. b[2] \notin NotUsed(p)
    BY <1>0 DEF NotUsed
  <2>. QED BY <2>2, <2>3, <2>4
<1>11. block_count[p] + 1 = Cardinality(NotUsed(p)') /\ block_count[p] \in Nat
  <2>1. block_count[p] = Cardinality(NotUsed(p))
    BY <1>0 DEF SlabInv, CountInv
  <2>2. IsFiniteSet(NotUsed(p)) /\ Cardinality(NotUsed(p)) \in Nat
    BY <1>0, NotUsedFinite
  <2>3. Cardinality(NotUsed(p) \cup {b[2]}) = Cardinality(NotUsed(p)) + 1
    BY <1>10, <2>2, FS_AddElement
  <2>. QED BY <1>10, <2>1, <2>2, <2>3
<1>12. ASSUME last, NEW x \in used' PROVE x[1] # p
  <2>1. NotUsed(p)' \in SUBSET (0..(Blocks(i) - 1))
    BY <1>1, <1>3 DEF NotUsed
  <2>2. IsFiniteSet(0..(Blocks(i) - 1)) /\ Cardinality(0..(Blocks(i) - 1)) = Blocks(i)
    BY <1>0, <1>1, NotUsedFinite
  <2>3. NotUsed(p)' = 0..(Blocks(i) - 1)
    BY <1>11, <1>12, <2>1, <2>2, FS_Subset DEF last
  <2>4. x \in used /\ x = <<x[1], x[2]>>
        /\ (x[1] = p => x[2] \in 0..(Blocks(i) - 1))
    BY <1>1, <1>3, <1>12, ListedFacts
  <2>5. \A k \in NotUsed(p)' : <<p, k>> \notin used'
    BY DEF NotUsed
  <2>. QED BY <1>12, <2>3, <2>4, <2>5
<1>13. \A q \in Pages : Freeing(q)' <=> Freeing(q) \/ (last /\ q = p)
  <2>1. CASE last
    <3>1. \A d \in Cpus : /\ pc'[d] = IF d = c THEN "free" ELSE pc[d]
                          /\ arg'[d] = IF d = c THEN p ELSE arg[d]
      BY <1>0, <1>3, <2>1 DEF TypeOK
    <3>. QED BY <1>0, <2>1, <3>1 DEF Freeing
  <2>2. CASE ~last
    BY <1>3, <2>2 DEF Freeing
  <2>. QED BY <2>1, <2>2
<1>14. TypeOK'
  <2>1. /\ free_list' \in [Allocators -> Seq(BlockIds)] /\ used' \subseteq BlockIds
        /\ slab' \in [Pages -> Allocators \cup {0}]
    BY <1>0, <1>3, <1>7 DEF TypeOK
  <2>2. /\ block_count' \in [Pages -> Nat]
    BY <1>0, <1>3, <1>11 DEF TypeOK
  <2>3. head' \in [Allocators -> BOOLEAN]
    BY <1>0, <1>3 DEF TypeOK
  <2>4. /\ pc' \in [Cpus -> {"idle", "page", "slab", "fail", "free"}]
        /\ arg' \in [Cpus -> Allocators \cup Pages \cup {None}]
        /\ mem_lock' \in Cpus \cup {None}
    BY <1>0, <1>3 DEF TypeOK
  <2>. QED BY <1>0, <1>3, <2>1, <2>2, <2>3, <2>4 DEF TypeOK
<1>15. LockInv'
  <2>1. \A d \in Cpus : page_lock = None => pc[d] \in {"idle", "page"}
    BY <1>0, Excluded
  <2>2. CASE last
    <3>1. \A d \in Cpus : /\ pc'[d] = IF d = c THEN "free" ELSE pc[d]
                          /\ arg'[d] = IF d = c THEN p ELSE arg[d]
      BY <1>0, <1>3, <2>2 DEF TypeOK
    <3>2. ASSUME NEW d \in Cpus
          PROVE  /\ pc'[d] = "slab" => arg'[d] \in Allocators
                 /\ pc'[d] = "free" => arg'[d] \in Pages /\ slab'[arg'[d]] # 0
      BY <1>0, <1>3, <3>1 DEF SlabInv, LockInv
    <3>3. ASSUME NEW d \in Cpus, page_lock = None
          PROVE  /\ pc'[d] \in {"slab", "free"} => mem_lock' = d
                 /\ pc'[d] # "fail" /\ pc'[d] # "slab"
      BY <1>3, <2>1, <2>2, <3>1, <3>3
    <3>. QED BY <1>3, <3>2, <3>3 DEF LockInv
  <2>3. CASE ~last
    BY <1>3, <2>1, <2>3 DEF SlabInv, LockInv
  <2>. QED BY <2>2, <2>3
<1>16. UsedInv'
  <2>1. ASSUME NEW x \in used'
        PROVE  slab'[x[1]] # 0 /\ x[2] < Blocks(slab'[x[1]]) /\ ~Freeing(x[1])'
    <3>1. x \in used /\ x[1] \in Pages /\ ~Freeing(x[1]) /\ (last => x[1] # p)
      BY <1>3, <1>12, <2>1, ListedFacts
    <3>. QED BY <1>3, <1>13, <3>1 DEF SlabInv, UsedInv
  <2>. QED BY <2>1 DEF UsedInv
<1>17. ASSUME NEW j \in Allocators, NEW x \in Elems(free_list'[j])
       PROVE  /\ x \notin used' /\ slab[x[1]] = j /\ x[2] < Blocks(j) /\ ~Freeing(x[1])'
  <2>1. CASE j = i /\ x = b
    <3>1. x \in Elems(n) /\ (last => x[1] # p)
      BY <1>7, <1>8, <1>17, <2>1
    <3>2. ~last
      BY <2>1, <3>1 DEF p
    <3>3. b[2] < Blocks(i)
      BY <1>0, <1>1, Sizes
    <3>. QED BY <1>0, <1>1, <1>3, <1>13, <2>1, <3>2, <3>3 DEF p
  <2>2. CASE j = i /\ x # b
    <3>1. x \in Elems(free_list[i]) /\ (last => x[1] # p)
      BY <1>5, <1>7, <1>8, <1>17, <2>2 DEF l
    <3>2. x \notin used /\ slab[x[1]] = i /\ x[2] < Blocks(i) /\ ~Freeing(x[1]) /\ x[1] \in Pages
      BY <3>1, ListedFacts DEF SlabInv, BlocksExclusive
    <3>. QED BY <1>3, <1>13, <2>2, <3>1, <3>2
  <2>3. CASE j # i
    <3>1. x \in Elems(free_list[j])
      BY <1>8, <1>17, <2>3
    <3>2. x \notin used /\ slab[x[1]] = j /\ x[2] < Blocks(j) /\ ~Freeing(x[1]) /\ x[1] \in Pages
      BY <3>1, ListedFacts DEF SlabInv, BlocksExclusive
    <3>. QED BY <1>1, <1>3, <1>13, <2>3, <3>2
  <2>. QED BY <2>1, <2>2, <2>3
<1>18. LimboInv'
  BY <1>17 DEF LimboInv
<1>19. CountInv'
  <2>1. ASSUME NEW q \in Pages, slab[q] # 0 PROVE block_count'[q] = Cardinality(NotUsed(q)')
    BY <1>8, <1>10, <1>11, <2>1 DEF SlabInv, CountInv
  <2>. QED BY <1>3, <2>1 DEF CountInv
<1>20. FrontierInv'
  <2>1. ASSUME NEW q \in Pages, slab[q] # 0, ~Freeing(q)', Uncarved(q)' # {} PROVE Frontier(q)'
    <3>1. ~Freeing(q) /\ (last => q # p)
      BY <1>13, <2>1
    <3>2. Uncarved(q)' = {k \in 0..(Blocks(slab[q]) - 1) :
                              <<q, k>> \notin used' \cup Elems(free_list'[slab[q]])}
      BY <1>3 DEF Uncarved
    <3>3. CASE slab[q] = i
      <4>1. \A k : <<q, k>> \in used' \cup Elems(n) <=> <<q, k>> \in used \cup Elems(l)
        <5>1. \A k : <<q, k>> = b <=> (q = p /\ k = b[2])
          BY <1>0
        <5>2. \A k : <<q, k>> \in Elems(n) <=> <<q, k>> \in Elems(l) \/ (q = p /\ k = b[2])
          BY <1>5, <1>7, <3>1, <5>1
        <5>. QED BY <1>0, <1>9, <5>1, <5>2
      <4>2. Uncarved(q)' = Uncarved(q)
        BY <1>8, <3>2, <3>3, <4>1 DEF Uncarved, l
      <4>3. Frontier(q)
        BY <2>1, <3>1, <4>2 DEF SlabInv, FrontierInv
      <4>4. head[i] /\ l # <<>> /\ l[1][1] = q /\ Uncarved(q) = (l[1][2] + 1)..(Blocks(i) - 1)
        BY <3>3, <4>3 DEF Frontier, l
      <4>5. n # <<>> /\ n[1] = l[1]
        BY <1>5, <1>7, <3>1, <4>4
      <4>6. slab'[q] = i /\ free_list'[i] = n /\ head'[i]
        BY <1>3, <1>8, <3>3, <4>4
      <4>. QED BY <4>2, <4>4, <4>5, <4>6 DEF Frontier
    <3>4. CASE slab[q] # i
      <4>1. slab[q] \in Allocators /\ free_list'[slab[q]] = free_list[slab[q]]
            /\ (head'[slab[q]] <=> head[slab[q]])
        BY <1>0, <1>8, <2>1, <3>4 DEF TypeOK
      <4>2. \A k : <<q, k>> \in used' <=> <<q, k>> \in used
        BY <1>1, <1>9, <3>4
      <4>3. Uncarved(q)' = Uncarved(q)
        BY <3>2, <4>1, <4>2 DEF Uncarved
      <4>4. Frontier(q)
        BY <2>1, <3>1, <4>3 DEF SlabInv, FrontierInv
      <4>. QED BY <1>3, <4>1, <4>3, <4>4 DEF Frontier
    <3>. QED BY <3>3, <3>4
  <2>. QED BY <1>3, <2>1 DEF FrontierInv
<1>21. BlocksExclusive'
  <2>1. ASSUME NEW j \in Allocators PROVE NoDup(free_list'[j])
    BY <1>7, <1>8 DEF SlabInv, BlocksExclusive
  <2>. QED BY <1>3, <1>17, <2>1 DEF BlocksExclusive
<1>22. PagesExclusive'
  BY <1>3 DEF SlabInv, PagesExclusive
<1>23. PagesCounted'
  <2>1. Waiting' = Waiting
    <3>1. CASE last
      <4>1. pc'[c] = "free" /\ \A d \in Cpus : d # c => pc'[d] = pc[d]
        BY <1>0, <1>3, <3>1 DEF TypeOK
      <4>. QED BY <1>0, <4>1, WaitingFacts
    <3>2. CASE ~last
      BY <1>3, <3>2 DEF Waiting
    <3>. QED BY <3>1, <3>2
  <2>. QED BY <1>3, <2>1 DEF SlabInv, PagesCounted, Waiting
<1>. QED BY <1>14, <1>15, <1>16, <1>18, <1>19, <1>20, <1>21, <1>22, <1>23 DEF SlabInv

\* kfree gives back the page whose last block was freed.
LEMMA KfreeSlabInv ==
  ASSUME SlabInv, NEW c \in Cpus, KfreeSlab(c)
  PROVE  SlabInv'
<1>0. /\ TypeOK /\ PagesExclusive /\ pc[c] = "free" /\ page_lock = None /\ mem_lock = c
      /\ None # c /\ free_pages \in Seq(Pages)
  BY SlabAssumption DEF SlabInv, LockInv, TypeOK, KfreeSlab
<1>1. PICK p \in Pages : p = arg[c]
  BY <1>0 DEF SlabInv, LockInv
<1>2. /\ slab[p] # 0 /\ Freeing(p) /\ p \notin Elems(free_pages) /\ p \notin used_pages
      /\ \A b \in used : b[1] # p
  BY <1>0, <1>1 DEF SlabInv, LockInv, PagesExclusive, Freeing, UsedInv
<1>3. /\ free_pages' = _insert_into_list(free_pages, p)
      /\ kalloc_page_cnt' = kalloc_page_cnt - 1
      /\ slab' = [slab EXCEPT ![p] = 0]
      /\ block_count' = [block_count EXCEPT ![p] = 0]
      /\ mem_lock' = None
      /\ pc' = [pc EXCEPT ![c] = "idle"]
      /\ arg' = [arg EXCEPT ![c] = None]
      /\ page_lock' = page_lock /\ free_list' = free_list /\ head' = head
      /\ used' = used /\ used_pages' = used_pages
  BY <1>1 DEF KfreeSlab, _insert_into_list
<1>4. \A d \in Cpus : d # c => pc[d] \in {"idle", "page"}
  BY <1>0, Excluded
<1>5. /\ \A d \in Cpus : pc'[d] \in {"idle", "page"} /\ (d # c => pc'[d] = pc[d])
      /\ pc'[c] = "idle"
  BY <1>0, <1>3, <1>4 DEF TypeOK
<1>6. \A q \in Pages : ~Freeing(q)' /\ (q # p => ~Freeing(q))
  BY <1>0, <1>1, <1>4, <1>5 DEF Freeing
<1>7. /\ \A q \in Pages : slab'[q] = IF q = p THEN 0 ELSE slab[q]
      /\ \A q \in Pages : block_count'[q] = IF q = p THEN 0 ELSE block_count[q]
  BY <1>0, <1>3 DEF TypeOK
<1>8. free_pages' \in Seq(Pages) /\ Elems(free_pages') = Elems(free_pages) \cup {p}
      /\ NoDup(free_pages') /\ Len(free_pages') = Len(free_pages) + 1
  <2>1. NoDup(free_pages)
    BY <1>0 DEF PagesExclusive
  <2> DEFINE q == _insert_into_list(free_pages, p)
  <2>2. q \in Seq(Pages) /\ Elems(q) = Elems(free_pages) \cup {p} /\ NoDup(q)
    BY <1>0, <1>2, <2>1, InsertFacts
  <2>3. Len(q) = Len(free_pages) + 1
    BY <1>0, ListLengths
  <2> HIDE DEF q
  <2>. QED BY <1>3, <2>2, <2>3 DEF q
<1>9. /\ kalloc_page_cnt' \in Nat
      /\ kalloc_page_cnt' = Cardinality(Pages) - Len(free_pages') + Cardinality(Waiting')
  <2>1. Waiting' = Waiting /\ Cardinality(Waiting) \in Nat
    BY <1>0, <1>5, WaitingFacts
  <2>2. /\ Cardinality(Pages) \in Nat /\ Len(free_pages) \in Nat
        /\ Len(free_pages) < Cardinality(Pages)
    BY <1>0, <1>2, FreePagesBound
  <2>3. kalloc_page_cnt = Cardinality(Pages) - Len(free_pages) + Cardinality(Waiting)
    BY <1>0 DEF SlabInv, PagesCounted, Waiting
  <2>4. Len(free_pages') = Len(free_pages) + 1 /\ kalloc_page_cnt' = kalloc_page_cnt - 1
    BY <1>3, <1>8
  <2>5. \A x, n, w \in Nat : n < x => /\ x - n + w - 1 \in Nat
                                      /\ x - n + w - 1 = x - (n + 1) + w
    OBVIOUS
  <2>. QED BY <2>1, <2>2, <2>3, <2>4, <2>5
<1>10. TypeOK'
  <2>1. /\ block_count' \in [Pages -> Nat] /\ slab' \in [Pages -> Allocators \cup {0}]
    BY <1>0, <1>3 DEF TypeOK
  <2>2. /\ pc' \in [Cpus -> {"idle", "page", "slab", "fail", "free"}]
        /\ arg' \in [Cpus -> Allocators \cup Pages \cup {None}]
    BY <1>0, <1>3 DEF TypeOK
  <2>. QED BY <1>0, <1>3, <1>8, <1>9, <2>1, <2>2 DEF TypeOK
<1>11. LockInv'
  BY <1>5 DEF LockInv
<1>12. \A i \in Allocators : \A b \in Elems(free_list[i]) : b[1] # p /\ b[1] \in Pages
  BY <1>2, ListedFacts
<1>13. UsedInv'
  <2>1. ASSUME NEW b \in used
        PROVE  slab'[b[1]] # 0 /\ b[2] < Blocks(slab'[b[1]]) /\ ~Freeing(b[1])'
    <3>1. b[1] \in Pages /\ slab'[b[1]] = slab[b[1]]
      BY <1>2, <1>7, <2>1, ListedFacts
    <3>. QED BY <1>6, <2>1, <3>1 DEF SlabInv, UsedInv
  <2>. QED BY <1>3, <2>1 DEF UsedInv
<1>14. LimboInv'
  BY <1>3, <1>6, <1>12 DEF LimboInv
<1>15. ASSUME NEW q \in Pages, q # p
       PROVE  /\ slab'[q] = slab[q] /\ NotUsed(q)' = NotUsed(q) /\ Uncarved(q)' = Uncarved(q)
              /\ Frontier(q)' <=> Frontier(q)
  <2>1. slab'[q] = slab[q]
    BY <1>7, <1>15
  <2>2. NotUsed(q)' = NotUsed(q) /\ Uncarved(q)' = Uncarved(q)
    BY <1>3, <2>1 DEF NotUsed, Uncarved
  <2>3. Frontier(q)' <=> Frontier(q)
    BY <1>3, <2>1, <2>2 DEF Frontier
  <2>. QED BY <2>1, <2>2, <2>3
<1>16. CountInv'
  <2>1. ASSUME NEW q \in Pages, slab'[q] # 0 PROVE block_count'[q] = Cardinality(NotUsed(q)')
    <3>1. q # p
      BY <1>7, <2>1
    <3>. QED BY <1>7, <1>15, <2>1, <3>1 DEF SlabInv, CountInv
  <2>. QED BY <2>1 DEF CountInv
<1>17. FrontierInv'
  <2>1. ASSUME NEW q \in Pages, slab'[q] # 0, Uncarved(q)' # {} PROVE Frontier(q)'
    <3>1. q # p
      BY <1>7, <2>1
    <3>. QED BY <1>6, <1>15, <2>1, <3>1 DEF SlabInv, FrontierInv
  <2>. QED BY <2>1 DEF FrontierInv
<1>18. BlocksExclusive'
  <2>1. ASSUME NEW i \in Allocators, NEW b \in Elems(free_list[i]) PROVE slab'[b[1]] = i
    BY <1>7, <1>12, ListedFacts
  <2>. QED BY <1>3, <2>1 DEF SlabInv, BlocksExclusive
<1>19. PagesExclusive'
  <2>1. ASSUME NEW q \in Pages
        PROVE  /\ q \in Elems(free_pages') => q \notin used_pages' /\ slab'[q] = 0
               /\ q \in used_pages' => slab'[q] = 0
               /\ slab'[q] = 0 => \A b \in used' : b[1] # q
    BY <1>0, <1>2, <1>3, <1>7, <1>8 DEF PagesExclusive
  <2>. QED BY <1>8, <2>1 DEF PagesExclusive
<1>20. PagesCounted'
  BY <1>9 DEF PagesCounted, Waiting
<1>. QED BY <1>10, <1>11, <1>13, <1>14, <1>16, <1>17, <1>18, <1>19, <1>20 DEF SlabInv

-----------------------------------------------------------------------------
(* The theorems.                                                           *)

\* Every step keeps the invariant.
LEMMA SlabInvStep == SlabInv /\ [Next]_vars => SlabInv'
<1> SUFFICES ASSUME SlabInv, [Next]_vars PROVE SlabInv'
  OBVIOUS
<1>1. ASSUME NEW c \in Cpus, kalloc_page(c) PROVE SlabInv'
  BY <1>1, kalloc_pageInv
<1>2. ASSUME NEW c \in Cpus, TakePage(c) PROVE SlabInv'
  BY <1>2, TakePageInv
<1>3. ASSUME NEW c \in Cpus, NoPage(c) PROVE SlabInv'
  BY <1>3, NoPageInv
<1>4. ASSUME NEW c \in Cpus, NEW p \in Pages, kfree_page(c, p) PROVE SlabInv'
  BY <1>4, kfree_pageInv
<1>5. ASSUME NEW c \in Cpus, NEW r \in Requests, KallocSecond(c, r) PROVE SlabInv'
  BY <1>5, KallocSecondInv
<1>6. ASSUME NEW c \in Cpus, NEW r \in Requests, KallocLast(c, r) PROVE SlabInv'
  BY <1>6, KallocLastInv
<1>7. ASSUME NEW c \in Cpus, NEW r \in Requests, KallocEmpty(c, r) PROVE SlabInv'
  BY <1>7, KallocEmptyInv
<1>8. ASSUME NEW c \in Cpus, KallocSlab(c) PROVE SlabInv'
  BY <1>8, KallocSlabInv
<1>9. ASSUME NEW c \in Cpus, KallocFail(c) PROVE SlabInv'
  BY <1>9, KallocFailInv
<1>10. ASSUME NEW c \in Cpus, NEW b \in used, kfree(c, b) PROVE SlabInv'
  BY <1>10, kfreeInv
<1>11. ASSUME NEW c \in Cpus, KfreeSlab(c) PROVE SlabInv'
  BY <1>11, KfreeSlabInv
<1>12. CASE UNCHANGED vars
  <2>1. UNCHANGED <<mem_lock, page_lock, free_pages, kalloc_page_cnt, used_pages, pc, arg>>
        /\ UNCHANGED slabs
    BY <1>12 DEF vars
  <2>2. TypeOK' /\ LockInv' /\ PagesExclusive' /\ PagesCounted'
    BY <2>1 DEF slabs, SlabInv, TypeOK, LockInv, PagesExclusive, PagesCounted
  <2>3. \A p \in Pages : Freeing(p)' <=> Freeing(p)
    BY <2>1 DEF Freeing
  <2>. QED BY <2>1, <2>2, <2>3, SlabsUnchanged DEF SlabInv
<1>. QED BY <1>1, <1>2, <1>3, <1>4, <1>5, <1>6, <1>7, <1>8, <1>9, <1>10, <1>11, <1>12 DEF Next

\* The inductive invariant holds of the allocator of mem.c in every state.
THEOREM SlabInvariant == Spec => []SlabInv
  BY SlabInvInit, SlabInvStep, PTL DEF Spec

\* The allocator's variables keep their types: no counter of blocks or pages
\* goes below zero.
THEOREM SlabTypeCorrect == Spec => []TypeOK
<1>1. SlabInv => TypeOK
  BY DEF SlabInv
<1>. QED BY <1>1, SlabInvariant, PTL

\* kalloc never hands out a block that is in use, and no block is in a free list
\* twice, or in the list of another size.
THEOREM SlabBlocksExclusive == Spec => []BlocksExclusive
<1>1. SlabInv => BlocksExclusive
  BY DEF SlabInv
<1>. QED BY <1>1, SlabInvariant, PTL

\* A page is free, a caller's or split into blocks, and never two of these;
\* kfree gives a page back only when nobody holds one of its blocks.
THEOREM SlabPagesExclusive == Spec => []PagesExclusive
<1>1. SlabInv => PagesExclusive
  BY DEF SlabInv
<1>. QED BY <1>1, SlabInvariant, PTL

\* kalloc_page_cnt is the number of pages that are not free, until memory has run
\* out once.
THEOREM SlabPagesCounted == Spec => []PagesCounted
<1>1. SlabInv => PagesCounted
  BY DEF SlabInv
<1>. QED BY <1>1, SlabInvariant, PTL

\* kfree loses no block: what is neither in use nor in a list lies behind a
\* frontier that kalloc will still carve.
THEOREM SlabNoBlockLost == Spec => []NoBlockLost
<1>1. SlabInv => NoBlockLost
  <2> SUFFICES ASSUME SlabInv, NEW p \in Pages, slab[p] # 0,
                      \A c \in Cpus : ~(pc[c] = "free" /\ arg[c] = p),
                      NEW k \in 0..(Blocks(slab[p]) - 1),
                      <<p, k>> \notin used \cup Elems(free_list[slab[p]])
               PROVE  LET l == free_list[slab[p]]
                      IN  /\ head[slab[p]] /\ l # <<>> /\ l[1][1] = p /\ l[1][2] < k
                          /\ \A j \in (l[1][2] + 1)..k : <<p, j>> \notin used \cup Elems(l)
    BY DEF NoBlockLost
  <2> DEFINE l == free_list[slab[p]]
             f == l[1][2]
             n == Blocks(slab[p])
  <2>1. k \in Uncarved(p) /\ ~Freeing(p)
    BY DEF Uncarved, Freeing
  <2>2. Frontier(p)
    BY <2>1 DEF SlabInv, FrontierInv
  <2>3. head[slab[p]] /\ l # <<>> /\ l[1][1] = p /\ Uncarved(p) = (f + 1)..(n - 1)
    BY <2>2 DEF Frontier
  <2>4. slab[p] \in Allocators /\ l \in Seq(BlockIds)
    BY DEF SlabInv, TypeOK
  <2>5. l[1] \in BlockIds
    BY <2>3, <2>4
  <2>6. f \in Nat /\ n \in Nat /\ k \in Nat
    BY <2>4, <2>5, BlockFacts, Sizes
  <2> HIDE DEF f, n
  <2>7. f < k /\ \A j \in (f + 1)..k : j \in Uncarved(p)
    <3>1. k \in 0..(n - 1)
      BY DEF n
    <3>. QED BY <2>1, <2>3, <2>6, <3>1
  <2>8. \A j \in Uncarved(p) : <<p, j>> \notin used \cup Elems(l)
    BY DEF Uncarved
  <2>. QED BY <2>3, <2>7, <2>8 DEF f
<1>. QED BY <1>1, SlabInvariant, PTL

\* block_count is the number of blocks of a page that are not in use, so that the
\* page goes back exactly with the last of them.
THEOREM SlabCountExact == Spec => []CountExact
<1>1. SlabInv => CountExact
  <2> SUFFICES ASSUME SlabInv, NEW p \in Pages, slab[p] # 0
               PROVE  block_count[p] = Blocks(slab[p]) - InUse(p)
    BY DEF CountExact
  <2> DEFINE A == 0..(Blocks(slab[p]) - 1)
             U == {b \in used : b[1] = p}
  <2>1. TypeOK /\ block_count[p] = Cardinality(NotUsed(p)) /\ slab[p] \in Allocators
    BY DEF SlabInv, CountInv, TypeOK
  <2>2. /\ IsFiniteSet(A) /\ Cardinality(A) = Blocks(slab[p]) /\ Blocks(slab[p]) \in Nat
        /\ NotUsed(p) \in SUBSET A
    BY <2>1, NotUsedFinite, Sizes
  <2>3. NotUsed(p) = A \ {k \in A : <<p, k>> \in used}
    BY DEF NotUsed
  <2> DEFINE V == {k \in A : <<p, k>> \in used}
  <2>4. \A b \in U : b[2] \in V /\ b = <<p, b[2]>>
    BY ListedFacts
  <2>5. \A k \in V : <<p, k>> \in U
    OBVIOUS
  <2> HIDE DEF A, U
  <2>6. IsFiniteSet(V) /\ V \in SUBSET A /\ A \cap V = V
    BY <2>2, FS_Subset
  <2> HIDE DEF V
  <2>7. Cardinality(U) = Cardinality(V)
    <3> DEFINE g == [k \in V |-> <<p, k>>]
    <3>1. g \in Bijection(V, U)
      <4>1. g \in [V -> U] /\ \A j, k \in V : g[j] = g[k] => j = k
        BY <2>5
      <4>2. \A b \in U : \E k \in V : g[k] = b
        BY <2>4
      <4>. QED BY <4>1, <4>2 DEF Bijection, Injection, Surjection, IsInjective
    <3>2. ExistsBijection(V, U)
      BY <3>1 DEF ExistsBijection
    <3>. QED BY <2>6, <3>2, FS_Bijection
  <2>8. Cardinality(NotUsed(p)) = Cardinality(A) - Cardinality(V)
    BY <2>2, <2>3, <2>6, FS_Difference DEF V
  <2>. QED BY <2>1, <2>2, <2>7, <2>8 DEF U, InUse
<1>. QED BY <1>1, SlabInvariant, PTL
=============================================================================
