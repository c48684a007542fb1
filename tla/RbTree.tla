------------------------------ MODULE RbTree -------------------------------
(***************************************************************************)
(* The red-black tree of src/common/rbtree.c, as operators on a tree       *)
(*   [root, n, ret], n[x] = [l, r, p, c]:                                  *)
(* a node's children, its parent and its colour (__rb_parent_color holds   *)
(* the last two).  Nodes are addresses 1..MaxNode, 0 is NULL; n[0] is what *)
(* a store through NULL would hit.  ret is what __rb_erase returns.        *)
(*                                                                         *)
(* The code writes every case twice, once for each side.  Here d is the    *)
(* side the code's first copy calls left (insert) or right (erase), and    *)
(* Opp(d) the other: d = "l" and d = "r" give the two copies.              *)
(***************************************************************************)
EXTENDS Integers, Sequences

CONSTANT MaxNode
ASSUME RbAssumption == MaxNode \in Nat

Null == 0
Nodes == 1..MaxNode
Opp(d) == IF d = "l" THEN "r" ELSE "l"

\* A node of zeroed memory: no links, red.
Blank == [l |-> Null, r |-> Null, p |-> Null, c |-> "red"]
EmptyTree == [root |-> Null, n |-> [x \in 0..MaxNode |-> Blank], ret |-> Null]

IsRed(t, x)   == x # Null /\ t.n[x].c = "red"
IsBlack(t, x) == x = Null \/ t.n[x].c = "black"
Child(t, x, d) == t.n[x][d]
Parent(t, x)   == t.n[x].p

SetChild(t, x, d, y)      == [t EXCEPT !.n[x][d] = y]
SetColor(t, x, c)         == [t EXCEPT !.n[x].c = c]
SetParent(t, x, p)        == [t EXCEPT !.n[x].p = p]
SetParentColor(t, x, p, c) == [t EXCEPT !.n[x].p = p, !.n[x].c = c]
CopyParentColor(t, x, y)  == SetParentColor(t, x, Parent(t, y), t.n[y].c)
IfNode(t, x, u)           == IF x = Null THEN t ELSE u

\* A sequence of assignments: the tree t goes on as F(t).
Do(t, F(_)) == F(t)

\* __rb_change_child.
ChangeChild(t, old, new, parent) ==
    IF parent = Null THEN [t EXCEPT !.root = new]
    ELSE SetChild(t, parent, IF Child(t, parent, "l") = old THEN "l" ELSE "r", new)

\* __rb_rotate_set_parents.
RotateSetParents(t, old, new, color) ==
    ChangeChild(SetParentColor(CopyParentColor(t, new, old), old, new, color),
                old, new, Parent(t, old))

-----------------------------------------------------------------------------
(* Insertion. *)

\* Mutant of InsertRotate: the parent's inner subtree is lost.
InsertRotateDrop(t, gparent, parent, d) ==
    Do(SetChild(t, gparent, d, Null), LAMBDA t1 :
    RotateSetParents(SetChild(t1, parent, Opp(d), gparent), gparent, parent, "red"))

\* Case 3 of __rb_insert_fix: one rotation of the grandparent.
InsertRotate(t, gparent, parent, d) ==
    Do(Child(t, parent, Opp(d)), LAMBDA tmp :
    Do(SetChild(t, gparent, d, tmp), LAMBDA t1 :
    Do(IfNode(t1, tmp, SetParentColor(t1, tmp, gparent, "black")), LAMBDA t2 :
    RotateSetParents(SetChild(t2, parent, Opp(d), gparent), gparent, parent, "red"))))

\* Case 2: the node is the inner child and takes its parent's place below it.
InsertInner(t, node, parent, d) ==
    Do(Child(t, node, d), LAMBDA tmp :
    Do(SetChild(t, parent, Opp(d), tmp), LAMBDA t1 :
    Do(IfNode(t1, tmp, SetParentColor(t1, tmp, parent, "black")), LAMBDA t2 :
    SetParentColor(SetChild(t2, node, d, parent), parent, node, "red"))))

\* The uncle is black: cases 2 and 3.
InsertBlackUncle(t, node, parent, gparent, d) ==
    IF node = Child(t, parent, Opp(d))
    THEN InsertRotate(InsertInner(t, node, parent, d), gparent, node, d)
    ELSE InsertRotate(t, gparent, parent, d)

\* Case 1: the uncle is red.
InsertRecolor(t, parent, uncle, gparent) ==
    SetColor(SetParentColor(SetParentColor(t, uncle, gparent, "black"), parent, gparent, "black"),
             gparent, "red")

\* __rb_insert_fix.
RECURSIVE InsertFix(_, _)
InsertFix(t, node) ==
    Do(Parent(t, node), LAMBDA parent :
    IF parent = Null THEN [SetParentColor(t, node, Null, "black") EXCEPT !.root = node]
    ELSE IF IsBlack(t, parent) THEN t
    ELSE Do(Parent(t, parent), LAMBDA gparent :
         Do(IF parent # Child(t, gparent, "r") THEN "l" ELSE "r", LAMBDA d :
         Do(Child(t, gparent, Opp(d)), LAMBDA uncle :
         IF IsRed(t, uncle) THEN InsertFix(InsertRecolor(t, parent, uncle, gparent), gparent)
         ELSE InsertBlackUncle(t, node, parent, gparent, d)))))

\* Where the walk down from nw for node ends: an equal node, or NULL below
\* parent on side d.  less holds the pairs that cmp calls smaller.
RECURSIVE Walk(_, _, _, _, _, _)
Walk(t, less, node, nw, parent, d) ==
    IF nw = Null THEN [at |-> Null, parent |-> parent, d |-> d]
    ELSE IF <<node, nw>> \in less THEN Walk(t, less, node, Child(t, nw, "l"), nw, "l")
    ELSE IF <<nw, node>> \in less THEN Walk(t, less, node, Child(t, nw, "r"), nw, "r")
    ELSE [at |-> nw, parent |-> parent, d |-> d]

\* _rb_lookup.
Lookup(t, less, node) == Walk(t, less, node, t.root, Null, "l").at

\* _rb_insert: ret is -1 for a key that is there; node loses its links then.
RbInsert(t, less, node) ==
    Do([t EXCEPT !.n[node] = Blank], LAMBDA t1 :
    Do(Walk(t1, less, node, t1.root, Null, "l"), LAMBDA w :
    IF w.at # Null THEN [t1 EXCEPT !.ret = -1]
    ELSE Do([t1 EXCEPT !.ret = 0], LAMBDA t2 :
         InsertFix(IfNode(t2, w.parent, SetParent(SetChild(t2, w.parent, w.d, node), node, w.parent)),
                   node))))

-----------------------------------------------------------------------------
(* Removal. *)

\* The leftmost node below x, and its parent (x itself below first parent).
RECURSIVE Leftmost(_, _, _)
Leftmost(t, x, parent) ==
    IF Child(t, x, "l") = Null THEN [at |-> x, parent |-> parent]
    ELSE Leftmost(t, Child(t, x, "l"), x)

\* _rb_first.
First(t) == IF t.root = Null THEN Null ELSE Leftmost(t, t.root, Null).at

Rebalance(t, x) == [t EXCEPT !.ret = x]

\* At most one child, child or NULL: it takes the node's place.
EraseOne(t, node, child) ==
    Do(ChangeChild(t, node, child, Parent(t, node)), LAMBDA t1 :
    IF child # Null THEN Rebalance(CopyParentColor(t1, child, node), Null)
    ELSE Rebalance(t1, IF IsBlack(t, node) THEN Parent(t, node) ELSE Null))

\* Two children: the successor, next to or below the right child, takes the
\* node's place and colour.
EraseTwo(t, node, child, successor, parent) ==
    Do(Child(t, successor, "r"), LAMBDA child2 :
    Do(IF successor = child THEN t
       ELSE SetParent(SetChild(SetChild(t, parent, "l", child2), successor, "r", child),
                      child, successor), LAMBDA t1 :
    Do(Child(t1, node, "l"), LAMBDA left :
    Do(SetParent(SetChild(t1, successor, "l", left), left, successor), LAMBDA t2 :
    Do(CopyParentColor(ChangeChild(t2, node, successor, Parent(t2, node)), successor, node), LAMBDA t3 :
    IF child2 # Null THEN Rebalance(SetParentColor(t3, child2, parent, "black"), Null)
    ELSE Rebalance(t3, IF IsBlack(t2, successor) THEN parent ELSE Null))))))

\* __rb_erase.
RbUnlink(t, node) ==
    Do(Child(t, node, "r"), LAMBDA child :
    IF Child(t, node, "l") = Null THEN EraseOne(t, node, child)
    ELSE IF child = Null THEN EraseOne(t, node, Child(t, node, "l"))
    ELSE Do(Leftmost(t, child, child), LAMBDA s : EraseTwo(t, node, child, s.at, s.parent)))

\* Mutant of EraseCase1: the old parent stays black.
EraseCase1Black(t, parent, sibling, d) ==
    Do(Child(t, sibling, Opp(d)), LAMBDA tmp1 :
    RotateSetParents(
        SetChild(SetParentColor(SetChild(t, parent, d, tmp1), tmp1, parent, "black"),
                 sibling, Opp(d), parent),
        parent, sibling, "black"))

\* Case 1 of __rb_erase_fix: a red sibling on side d is rotated up.
EraseCase1(t, parent, sibling, d) ==
    Do(Child(t, sibling, Opp(d)), LAMBDA tmp1 :
    RotateSetParents(
        SetChild(SetParentColor(SetChild(t, parent, d, tmp1), tmp1, parent, "black"),
                 sibling, Opp(d), parent),
        parent, sibling, "red"))

\* Case 3: the sibling's inner red child tmp2 is rotated above it.
EraseCase3(t, parent, sibling, tmp2, d) ==
    Do(Child(t, tmp2, d), LAMBDA tmp1 :
    Do(SetChild(t, sibling, Opp(d), tmp1), LAMBDA t1 :
    Do(IfNode(t1, tmp1, SetParentColor(t1, tmp1, sibling, "black")), LAMBDA t2 :
    SetChild(SetChild(t2, tmp2, d, sibling), parent, d, tmp2))))

\* The last rotation: the sibling above the parent, its outer child black.
EraseCase4(t, parent, sibling, outer, d) ==
    Do(Child(t, sibling, Opp(d)), LAMBDA tmp2 :
    Do(SetChild(t, parent, d, tmp2), LAMBDA t1 :
    Do(IfNode(t1, tmp2, SetParent(t1, tmp2, parent)), LAMBDA t2 :
    RotateSetParents(SetParentColor(SetChild(t2, sibling, Opp(d), parent), outer, sibling, "black"),
                     parent, sibling, "black"))))

\* __rb_erase_fix: the subtree of node (NULL at first) below parent lacks a
\* black node; its sibling is on side d.
RECURSIVE EraseFix(_, _, _)
EraseBlack(t, parent, sibling, d) ==
    Do(Child(t, sibling, Opp(d)), LAMBDA inner :
    IF IsRed(t, Child(t, sibling, d)) THEN EraseCase4(t, parent, sibling, Child(t, sibling, d), d)
    ELSE IF IsRed(t, inner)
    THEN EraseCase4(EraseCase3(t, parent, sibling, inner, d), parent, inner, sibling, d)
    ELSE Do(SetParentColor(t, sibling, parent, "red"), LAMBDA t1 :      \* case 2
         IF IsRed(t1, parent) THEN SetColor(t1, parent, "black")
         ELSE IF Parent(t1, parent) = Null THEN t1
         ELSE EraseFix(t1, parent, Parent(t1, parent))))

EraseFix(t, node, parent) ==
    Do(IF node # Child(t, parent, "r") THEN "r" ELSE "l", LAMBDA d :
    Do(Child(t, parent, d), LAMBDA sibling :
    IF IsRed(t, sibling)
    THEN EraseBlack(EraseCase1(t, parent, sibling, d), parent, Child(t, sibling, Opp(d)), d)
    ELSE EraseBlack(t, parent, sibling, d)))

\* _rb_erase, of whatever node it is given.
RbErase(t, node) ==
    Do(RbUnlink(t, node), LAMBDA t1 :
    IF t1.ret = Null THEN t1 ELSE EraseFix(t1, Null, t1.ret))

-----------------------------------------------------------------------------
(* What a tree is. *)

\* The nodes below x in order; a walk of more than MaxNode levels is cut off.
RECURSIVE InOrder(_, _, _)
InOrder(t, x, fuel) ==
    IF x = Null \/ fuel = 0 THEN <<>>
    ELSE InOrder(t, Child(t, x, "l"), fuel - 1) \o <<x>> \o InOrder(t, Child(t, x, "r"), fuel - 1)

\* The black nodes on every path from x down, or -1 if two paths differ.
RECURSIVE BlackHeight(_, _)
BlackHeight(t, x) ==
    IF x = Null THEN 0
    ELSE LET h == BlackHeight(t, Child(t, x, "l"))
         IN  IF h = -1 \/ h # BlackHeight(t, Child(t, x, "r")) THEN -1
             ELSE IF t.n[x].c = "black" THEN h + 1 ELSE h
=============================================================================
