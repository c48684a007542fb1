-------------------------------- MODULE Slab --------------------------------
(***************************************************************************)
(* The allocator of src/src/kernel/mem.c: pages under page_lock, and under *)
(* mem_lock one free list per size of block.  A block is a page and an     *)
(* index.  The blocks of a page are not linked into a free list when the   *)
(* page is split: while head is TRUE the first block of the list is a      *)
(* frontier, and the block behind it is carved when it is the only one.    *)
(* So what is free is nowhere written down: block_count in the page and    *)
(* the list have to agree about it through any sequence of calls.          *)
(* A critical section without a nested lock is one step.                   *)
(***************************************************************************)
EXTENDS Integers, Sequences, FiniteSets, ListOps

CONSTANTS Cpus,     \* the CPUs
          Pages,    \* the pages above the kernel's image
          PageSize, \* PAGE_SIZE
          size,     \* the sizes of the allocators, in increasing order
          Requests, \* the sizes that callers ask for
          None      \* nobody

\* (PAGE_SIZE - sizeof(Header)) / block_size: the blocks of a page.
Blocks(i) == (PageSize - 4) \div size[i]

\* No caller asks for a block of which a page holds only one; blocks are aligned
\* to 8 bytes.
ASSUME SlabAssumption ==
    /\ IsFiniteSet(Cpus) /\ IsFiniteSet(Pages) /\ None \notin Cpus
    /\ PageSize \in Nat /\ size \in Seq(Nat \ {0}) /\ size # <<>>
    /\ \A i, j \in 1..Len(size) : i < j => size[i] < size[j]
    /\ PageSize % 8 = 0 /\ \A i \in 1..Len(size) : size[i] % 8 = 0 /\ Blocks(i) > 1
    /\ \A r \in Requests : r \in Nat /\ r <= size[Len(size)]

Allocators == 1..Len(size)

VARIABLES
    mem_lock,        \* the CPU that holds mem_lock over several steps, or None
    page_lock,       \* the CPU that kept page_lock for ever, or None
    free_pages,      \* the list of free pages, first to last
    kalloc_page_cnt, \* the pages handed out
    free_list,       \* allocators[i].free_list
    head,            \* allocators[i].head
    slab,            \* the allocator of a page's Header, 0 in other pages
    block_count,     \* block_count of a page's Header
    used,            \* the blocks that callers hold
    used_pages,      \* the pages that callers hold
    pc,              \* what each CPU does next
    arg              \* the allocator or the page it does it for

slabs == <<free_list, head, slab, block_count, used>>
vars  == <<mem_lock, page_lock, free_pages, kalloc_page_cnt, slabs, used_pages, pc, arg>>

\* Pages are pushed in the order of their addresses; here, in some order.
kinit ==
    /\ mem_lock = None
    /\ page_lock = None
    /\ free_pages \in {s \in [1..Cardinality(Pages) -> Pages] : NoDup(s)}
    /\ kalloc_page_cnt = 0
    /\ free_list = [i \in Allocators |-> <<>>]
    /\ head = [i \in Allocators |-> FALSE]
    /\ slab = [p \in Pages |-> 0]
    /\ block_count = [p \in Pages |-> 0]
    /\ used = {}
    /\ used_pages = {}
    /\ pc = [c \in Cpus |-> "idle"]
    /\ arg = [c \in Cpus |-> None]

\* The first allocator whose blocks are large enough, else the last.
get_allocator_index(sz) ==
    CHOOSE i \in Allocators : /\ sz <= size[i] \/ i = Len(size)
                              /\ \A j \in 1..(i - 1) : size[j] < sz

-----------------------------------------------------------------------------
(* kalloc_page and kfree_page.                                             *)

\* kalloc_page counts the page before it takes page_lock.
kalloc_page(c) ==
    /\ pc[c] = "idle"
    /\ kalloc_page_cnt' = kalloc_page_cnt + 1
    /\ pc' = [pc EXCEPT ![c] = "page"]
    /\ UNCHANGED <<mem_lock, page_lock, free_pages, slabs, used_pages, arg>>

TakePage(c) ==
    /\ pc[c] = "page" /\ page_lock = None
    /\ free_pages # <<>>
    /\ used_pages' = used_pages \cup {Head(free_pages)}
    /\ free_pages' = Tail(free_pages)
    /\ pc' = [pc EXCEPT ![c] = "idle"]
    /\ UNCHANGED <<mem_lock, page_lock, kalloc_page_cnt, slabs, arg>>

\* No page is left: mem_lock is released, whoever holds it, and page_lock is not.
\* The caller gets NULL.
NoPage(c) ==
    /\ pc[c] \in {"page", "slab"} /\ page_lock = None
    /\ free_pages = <<>>
    /\ page_lock' = c
    /\ mem_lock' = None
    /\ pc' = [pc EXCEPT ![c] = IF @ = "slab" THEN "fail" ELSE "idle"]
    /\ UNCHANGED <<free_pages, kalloc_page_cnt, slabs, used_pages, arg>>

\* A mutant of kfree_page: the page is not counted.
KfreePageUncounted(c, p) ==
    /\ pc[c] = "idle" /\ page_lock = None
    /\ p \in used_pages
    /\ used_pages' = used_pages \ {p}
    /\ free_pages' = <<p>> \o free_pages
    /\ UNCHANGED <<mem_lock, page_lock, kalloc_page_cnt, slabs, pc, arg>>

kfree_page(c, p) ==
    /\ pc[c] = "idle" /\ page_lock = None
    /\ p \in used_pages
    /\ used_pages' = used_pages \ {p}
    /\ free_pages' = <<p>> \o free_pages
    /\ kalloc_page_cnt' = kalloc_page_cnt - 1
    /\ UNCHANGED <<mem_lock, page_lock, slabs, pc, arg>>

-----------------------------------------------------------------------------
(* kalloc.                                                                 *)

\* A step of kalloc that hands out block b of allocator i, which leaves list l.
Allocate(c, i, b, l) ==
    /\ free_list' = [free_list EXCEPT ![i] = l]
    /\ block_count' = [block_count EXCEPT ![b[1]] = @ - 1]
    /\ used' = used \cup {b}
    /\ UNCHANGED <<mem_lock, page_lock, free_pages, kalloc_page_cnt, head, slab, used_pages,
                   pc, arg>>

\* The list has several blocks: the second one is taken, the first one stays.
KallocSecond(c, r) ==
    LET i == get_allocator_index(r)
        l == free_list[i]
    IN  /\ pc[c] = "idle" /\ mem_lock = None
        /\ Len(l) >= 2
        /\ Allocate(c, i, l[2], <<l[1]>> \o SubSeq(l, 3, Len(l)))

\* A mutant of Carved: the last block of a page is not carved.
CarvedShort(i, b) ==
    IF head[i] /\ block_count[b[1]] > 2 THEN <<<<b[1], b[2] + 1>>>> ELSE <<>>

\* The block behind frontier b, if the page still has one: the code tests the
\* offset of its address in a page, which is small again past the end.
Carved(i, b) ==
    IF /\ head[i] /\ block_count[b[1]] > 1
       /\ ((8 + (b[2] + 1) * size[i]) % PageSize) + size[i] <= PageSize
    THEN <<<<b[1], b[2] + 1>>>> ELSE <<>>

\* The list has one block.
KallocLast(c, r) ==
    LET i == get_allocator_index(r)
        l == free_list[i]
    IN  /\ pc[c] = "idle" /\ mem_lock = None
        /\ Len(l) = 1
        /\ Allocate(c, i, l[1], Carved(i, l[1]))

\* The list is empty: a page is needed, and mem_lock stays held.
KallocEmpty(c, r) ==
    /\ pc[c] = "idle" /\ mem_lock = None
    /\ free_list[get_allocator_index(r)] = <<>>
    /\ mem_lock' = c
    /\ kalloc_page_cnt' = kalloc_page_cnt + 1
    /\ pc' = [pc EXCEPT ![c] = "slab"]
    /\ arg' = [arg EXCEPT ![c] = get_allocator_index(r)]
    /\ UNCHANGED <<page_lock, free_pages, slabs, used_pages>>

\* A mutant of Unused: the block that is handed out is counted too.
UnusedAll(i) == Blocks(i)

\* The blocks of a new page, without the one that is handed out.
Unused(i) == Blocks(i) - 1

\* The new page is split: its first block is handed out, the second one is the
\* frontier.
KallocSlab(c) ==
    LET i == arg[c]
        p == Head(free_pages)
    IN  /\ pc[c] = "slab" /\ page_lock = None
        /\ free_pages # <<>>
        /\ free_pages' = Tail(free_pages)
        /\ slab' = [slab EXCEPT ![p] = i]
        /\ block_count' = [block_count EXCEPT ![p] = Unused(i)]
        /\ used' = used \cup {<<p, 0>>}
        /\ free_list' = [free_list EXCEPT ![i] = <<<<p, 1>>>>]
        /\ head' = [head EXCEPT ![i] = TRUE]
        /\ mem_lock' = None
        /\ pc' = [pc EXCEPT ![c] = "idle"]
        /\ arg' = [arg EXCEPT ![c] = None]
        /\ UNCHANGED <<page_lock, kalloc_page_cnt, used_pages>>

\* kalloc gets no page, releases mem_lock once more and returns NULL.
KallocFail(c) ==
    /\ pc[c] = "fail"
    /\ mem_lock' = None
    /\ pc' = [pc EXCEPT ![c] = "idle"]
    /\ arg' = [arg EXCEPT ![c] = None]
    /\ UNCHANGED <<page_lock, free_pages, kalloc_page_cnt, slabs, used_pages>>

-----------------------------------------------------------------------------
(* kfree.                                                                  *)

\* A mutant of Freed: the block becomes the first of the list.
FreedFirst(l, b) == <<b>> \o l

\* The list with block b behind its first block.
Freed(l, b) == IF l = <<>> THEN <<b>> ELSE <<l[1], b>> \o Tail(l)

\* Its blocks leave the list when a page is freed; the others keep their order.
WithoutPage(l, p) ==
    LET kept == {k \in 1..Len(l) : l[k][1] # p}
        rank(k) == Cardinality({m \in kept : m <= k})
    IN  [j \in 1..Cardinality(kept) |-> l[CHOOSE k \in kept : rank(k) = j]]

\* The block goes back to its list; with the last block in use of a page the
\* page's blocks leave the list, and mem_lock is held until the page is freed.
kfree(c, b) ==
    LET p == b[1]
        i == get_allocator_index(size[slab[p]])
        l == Freed(free_list[i], b)
    IN  /\ pc[c] = "idle" /\ mem_lock = None
        /\ b \in used
        /\ used' = used \ {b}
        /\ head' = [head EXCEPT ![i] = @ /\ free_list[i] # <<>>]
        /\ block_count' = [block_count EXCEPT ![p] = @ + 1]
        /\ IF block_count[p] + 1 = Blocks(slab[p])
           THEN /\ free_list' = [free_list EXCEPT ![i] = WithoutPage(l, p)]
                /\ mem_lock' = c
                /\ pc' = [pc EXCEPT ![c] = "free"]
                /\ arg' = [arg EXCEPT ![c] = p]
           ELSE /\ free_list' = [free_list EXCEPT ![i] = l]
                /\ UNCHANGED <<mem_lock, pc, arg>>
        /\ UNCHANGED <<page_lock, free_pages, kalloc_page_cnt, slab, used_pages>>

\* kfree_page, for a page without blocks; its Header is overwritten.
KfreeSlab(c) ==
    LET p == arg[c]
    IN  /\ pc[c] = "free" /\ page_lock = None
        /\ free_pages' = <<p>> \o free_pages
        /\ kalloc_page_cnt' = kalloc_page_cnt - 1
        /\ slab' = [slab EXCEPT ![p] = 0]
        /\ block_count' = [block_count EXCEPT ![p] = 0]
        /\ mem_lock' = None
        /\ pc' = [pc EXCEPT ![c] = "idle"]
        /\ arg' = [arg EXCEPT ![c] = None]
        /\ UNCHANGED <<page_lock, free_list, head, used, used_pages>>

-----------------------------------------------------------------------------
Next ==
    \E c \in Cpus :
        \/ kalloc_page(c) \/ TakePage(c) \/ NoPage(c)
        \/ \E p \in Pages : kfree_page(c, p)
        \/ \E r \in Requests : KallocSecond(c, r) \/ KallocLast(c, r) \/ KallocEmpty(c, r)
        \/ KallocSlab(c) \/ KallocFail(c)
        \/ \E b \in used : kfree(c, b)
        \/ KfreeSlab(c)

Spec == kinit /\ [][Next]_vars

-----------------------------------------------------------------------------
(* Properties.                                                             *)

BlockIds == UNION {Pages \X (0..(Blocks(i) - 1)) : i \in Allocators}

TypeOK ==
    /\ mem_lock \in Cpus \cup {None}
    /\ page_lock \in Cpus \cup {None}
    /\ free_pages \in Seq(Pages)
    /\ kalloc_page_cnt \in Nat
    /\ free_list \in [Allocators -> Seq(BlockIds)]
    /\ head \in [Allocators -> BOOLEAN]
    /\ slab \in [Pages -> Allocators \cup {0}]
    /\ block_count \in [Pages -> Nat]
    /\ used \subseteq BlockIds
    /\ used_pages \subseteq Pages
    /\ pc \in [Cpus -> {"idle", "page", "slab", "fail", "free"}]
    /\ arg \in [Cpus -> Allocators \cup Pages \cup {None}]

\* No memory is handed out twice: a block that kalloc will hand out is in one
\* list once, in nobody's hands, and lies in a page of its allocator.
BlocksExclusive ==
    \A i \in Allocators :
        /\ NoDup(free_list[i])
        /\ \A b \in Elems(free_list[i]) :
            b \notin used /\ slab[b[1]] = i /\ b[2] < Blocks(i)

\* A page is free, or a caller's, or split into blocks, and never two of these:
\* no page goes back while a caller holds one of its blocks.
PagesExclusive ==
    /\ NoDup(free_pages)
    /\ \A p \in Pages :
        /\ p \in Elems(free_pages) => p \notin used_pages /\ slab[p] = 0
        /\ p \in used_pages => slab[p] = 0
        /\ slab[p] = 0 => \A b \in used : b[1] # p

InUse(p) == Cardinality({b \in used : b[1] = p})

\* block_count counts the blocks of a page that are not in use, carved or not:
\* the page goes back exactly when its last block does.
CountExact ==
    \A p \in Pages : slab[p] # 0 => block_count[p] = Blocks(slab[p]) - InUse(p)

\* The blocks behind the frontier are the only ones of a split page that are
\* neither in use nor in the list, so no memory is lost; and nothing in use
\* lies behind a frontier that will still be carved.
NoBlockLost ==
    \A p \in Pages : slab[p] # 0 /\ (\A c \in Cpus : ~(pc[c] = "free" /\ arg[c] = p)) =>
        LET l == free_list[slab[p]]
        IN  \A k \in 0..(Blocks(slab[p]) - 1) :
                \/ <<p, k>> \in used \cup Elems(l)
                \/ /\ head[slab[p]] /\ l # <<>> /\ l[1][1] = p /\ l[1][2] < k
                   /\ \A j \in (l[1][2] + 1)..k : <<p, j>> \notin used \cup Elems(l)

\* kalloc_test.c: kalloc_page_cnt is what it was once everything is freed.  It is
\* the number of pages that are not free, counting calls on their way, until
\* memory has run out once.
PagesCounted ==
    page_lock = None =>
        kalloc_page_cnt = Cardinality(Pages) - Len(free_pages)
                          + Cardinality({c \in Cpus : pc[c] \in {"page", "slab"}})
=============================================================================
