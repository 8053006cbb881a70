------------------------------- MODULE Rbtree -------------------------------
(***************************************************************************)
(* The red-black tree of kernel/rbtree.c over the binary tree of           *)
(* kernel/bintree.c and kernel/inc/bintree.h, pointer by pointer.  It      *)
(* orders the timers, the VM areas, the free virtual ranges and the thread *)
(* trees.  A node is its own key, 0 is NULL, and a node outside the tree   *)
(* is its own parent.  The mirrored halves of the C functions are one      *)
(* operator with the side as a parameter.                                  *)
(***************************************************************************)
EXTENDS Integers, FiniteSets

CONSTANT MaxKey      \* the keys are 1..MaxKey
ASSUME MaxKeyIsPositive == MaxKey \in Nat \ {0}

VARIABLES tree,      \* the root pointer and the nodes
          coloured   \* whether the tree is used as a red-black tree
rbVars == <<tree, coloured>>

Keys == 1..MaxKey
NULL == 0
Sides == {"left", "right"}
Other(s) == IF s = "left" THEN "right" ELSE "left"

(* Reading and writing pointers ------------------------------------------ *)

Parent(t, n) == IF n = NULL THEN NULL ELSE t.node[n].parent
Child(t, n, s) == IF n = NULL THEN NULL ELSE t.node[n][s]
IsBlack(t, n) == n = NULL \/ t.node[n].black
IsTop(t, n) == Parent(t, n) = NULL
IsEmptyNode(t, n) == n = NULL \/ Parent(t, n) = n

SetParent(t, n, p) == [t EXCEPT !.node[n].parent = p]
SetChild(t, n, s, c) == [t EXCEPT !.node[n][s] = c]
Dye(t, n, b) == IF n = NULL THEN t ELSE [t EXCEPT !.node[n].black = b]

\* rb_node_init leaves the colour bit 0, which is red.
NodeInit(n) == [left |-> NULL, right |-> NULL, parent |-> n, black |-> FALSE]
RootInit == [root |-> NULL, node |-> [n \in Keys |-> NodeInit(n)]]

\* A link is the pointer that leads to a node: the root's or a child's.
RootLink == [of |-> NULL, side |-> "left"]
NodeLink(t, n) ==
    LET p == Parent(t, n)
    IN IF p = NULL THEN RootLink
       ELSE [of |-> p, side |-> IF n = t.node[p].left THEN "left" ELSE "right"]
Follow(t, l) == IF l = RootLink THEN t.root ELSE t.node[l.of][l.side]
Store(t, l, n) == IF l = RootLink THEN [t EXCEPT !.root = n] ELSE SetChild(t, l.of, l.side, n)
LinkNodes(t, p, n, l) == SetParent(Store(t, l, n), n, p)
DelinkNode(t, l, n) == SetParent(Store(t, l, NULL), n, n)

(* Walking --------------------------------------------------------------- *)

\* The farthest node on one side of the subtree of n.
Extreme(t, n, s) ==
    LET go[m \in Keys] == IF t.node[m][s] = NULL THEN m ELSE go[t.node[m][s]]
    IN go[n]
RbFirst(t) == IF t.root = NULL THEN NULL ELSE Extreme(t, t.root, "left")
RbLast(t) == IF t.root = NULL THEN NULL ELSE Extreme(t, t.root, "right")

\* The neighbour on side s: the nearest node of that subtree, or the first
\* ancestor reached from its other side.
Neighbour(t, n, s) ==
    LET climb[m \in Keys] ==
          LET p == t.node[m].parent
          IN IF p # NULL /\ t.node[p][s] = m THEN climb[p] ELSE p
    IN IF IsEmptyNode(t, n) THEN NULL
       ELSE IF Child(t, n, s) # NULL THEN Extreme(t, Child(t, n, s), Other(s))
       ELSE climb[n]
RbNext(t, n) == Neighbour(t, n, "right")
RbPrev(t, n) == Neighbour(t, n, "left")
Brother(t, n) ==
    IF IsTop(t, n) \/ IsEmptyNode(t, n) THEN NULL
    ELSE Child(t, Parent(t, n), Other(NodeLink(t, n).side))

FindKeyLink(t, key) ==
    LET go[n \in Keys] ==
          LET side == IF n > key THEN "left" ELSE "right"
          IN IF n = key THEN NodeLink(t, n)
             ELSE IF t.node[n][side] = NULL THEN [of |-> n, side |-> side]
             ELSE go[t.node[n][side]]
    IN IF t.root = NULL THEN RootLink ELSE go[t.root]
FindKey(t, key) == Follow(t, FindKeyLink(t, key))

\* The link's owner is next to the missing key on one side of it.
FindKeyRup(t, key) ==
    LET p == FindKeyLink(t, key).of
    IN IF FindKey(t, key) # NULL THEN FindKey(t, key)
       ELSE IF p = NULL THEN NULL
       ELSE IF p >= key THEN p ELSE RbNext(t, p)
FindKeyRdown(t, key) ==
    LET p == FindKeyLink(t, key).of
    IN IF FindKey(t, key) # NULL THEN FindKey(t, key)
       ELSE IF p = NULL THEN NULL
       ELSE IF p <= key THEN p ELSE RbPrev(t, p)

(* Changing the shape ---------------------------------------------------- *)

Transplant(t, new, old) ==
    LET moved == Store(t, NodeLink(t, old), new)
    IN IF new = NULL THEN moved ELSE SetParent(moved, new, Parent(t, old))

Adopt(t, n, p) == IF n = NULL THEN t ELSE SetParent(t, n, p)

\* new takes over old's links and colour; old is left outside the tree.
ReplaceNode(t, l, new, old) ==
    LET copied == Store([t EXCEPT !.node[new] = t.node[old]], l, new)
        left == Adopt(copied, t.node[old].left, new)
        right == Adopt(left, t.node[old].right, new)
    IN SetParent(Dye(right, old, FALSE), old, old)

\* Bug: the subtree that changes sides keeps its old parent.
RotateForgetsChild(t, n, s) ==
    LET up == Child(t, n, Other(s))
    IN IF up = NULL THEN t
       ELSE LET top == LinkNodes(t, Parent(t, n), up, NodeLink(t, n))
            IN LinkNodes(SetChild(top, n, Other(s), Child(t, up, s)),
                         up, n, [of |-> up, side |-> s])

\* Rotate n down to side s.
Rotate(t, n, s) ==
    LET up == Child(t, n, Other(s))
        inner == Child(t, up, s)
    IN IF up = NULL THEN t
       ELSE LET top == LinkNodes(t, Parent(t, n), up, NodeLink(t, n))
                mid == Adopt(SetChild(top, n, Other(s), inner), inner, n)
            IN LinkNodes(mid, up, n, [of |-> up, side |-> s])

InsertNode(t, n) ==
    LET l == FindKeyLink(t, n)
        linked == LinkNodes(t, l.of, n, l)
    IN IF Follow(t, l) # NULL THEN t
       ELSE SetChild(SetChild(linked, n, "left", NULL), n, "right", NULL)

(* Insertion with recolouring ------------------------------------------- *)

\* One turn of the loop: the red node `pos` has a red parent on side s.
Rebalance(w) ==
    LET t == w.t
        parent == Parent(t, w.pos)
        grand == Parent(t, parent)
        s == NodeLink(t, parent).side
        uncle == Child(t, grand, Other(s))
        inner == Child(t, parent, Other(s)) = w.pos
        lifted == IF inner THEN Rotate(t, parent, s) ELSE t
        turned == Rotate(lifted, grand, Other(s))
    IN IF ~IsBlack(t, uncle)
       THEN [t |-> Dye(Dye(Dye(t, parent, TRUE), uncle, TRUE), grand, FALSE), pos |-> grand]
       ELSE IF inner
       THEN [t |-> Dye(Dye(turned, parent, TRUE), grand, TRUE), pos |-> w.pos]
       ELSE [t |-> Dye(Dye(turned, w.pos, TRUE), grand, TRUE), pos |-> parent]

\* Every turn moves up the tree, so there are fewer than MaxKey of them.
InsertColor(t, n) ==
    LET turn[i \in 0..MaxKey] ==
          IF i = 0 THEN [t |-> Dye(InsertNode(t, n), n, FALSE), pos |-> n]
          ELSE LET w == turn[i - 1]
               IN IF IsBlack(w.t, Parent(w.t, w.pos)) THEN w ELSE Rebalance(w)
        end == turn[MaxKey]
    IN IF FindKey(t, n) # NULL THEN t
       ELSE IF IsTop(end.t, end.pos) THEN Dye(end.t, end.pos, TRUE) ELSE end.t

(* Deletion --------------------------------------------------------------- *)

\* The brother b is black and its far child too: its near child takes its place.
LiftNear(t, b, s) ==
    IF IsBlack(t, Child(t, b, Other(s)))
    THEN Rotate(Dye(Dye(t, Child(t, b, s), TRUE), b, FALSE), b, Other(s)) ELSE t

\* The far child of the brother is red: a rotation of the parent fills the gap.
FillFar(t, parent, b, s) ==
    Rotate(Dye(Dye(Dye(t, b, IsBlack(t, parent)), parent, TRUE), Child(t, b, Other(s)), TRUE),
           parent, s)
LiftAndFill(t, parent, s) == FillFar(t, parent, Child(t, parent, Other(s)), s)
Repaired(t) == [t |-> t, node |-> t.root, parent |-> NULL]

\* The brother b is black: with two black children it turns red and the parent's subtree
\* is short; otherwise the gap is filled.
RefillBlack(t, parent, b, s) ==
    IF IsBlack(t, Child(t, b, s)) /\ IsBlack(t, Child(t, b, Other(s)))
    THEN [t |-> Dye(t, b, FALSE), node |-> parent, parent |-> Parent(t, parent)]
    ELSE Repaired(LiftAndFill(LiftNear(t, b, s), parent, s))
RefillUnder(t, parent, s) == RefillBlack(t, parent, Child(t, parent, Other(s)), s)

\* A red brother b goes above the parent first.
RefillRed(w, b, s) ==
    LET t == Rotate(Dye(Dye(w.t, w.parent, FALSE), b, TRUE), w.parent, s)
    IN RefillUnder(t, Parent(t, w.node), s)

\* One turn of the fixup: the subtree of w.node, on side s, is one black
\* node short.
Refill(w) ==
    LET s == IF w.node = Child(w.t, w.parent, "left") THEN "left" ELSE "right"
        b == Child(w.t, w.parent, Other(s))
    IN IF IsBlack(w.t, b) THEN RefillUnder(w.t, w.parent, s) ELSE RefillRed(w, b, s)

DeleteFixup(t, n) ==
    LET turn[i \in 0..MaxKey] ==
          IF i = 0 THEN [t |-> t, node |-> n, parent |-> Parent(t, n)]
          ELSE LET w == turn[i - 1]
               IN IF w.node = w.t.root \/ ~IsBlack(w.t, w.node) THEN w ELSE Refill(w)
        end == turn[MaxKey]
    IN Dye(end.t, end.node, TRUE)

\* The node that leaves its place: the deleted node or its successor.
Leaver(t, n) ==
    IF Child(t, n, "left") # NULL /\ Child(t, n, "right") # NULL
    THEN Extreme(t, Child(t, n, "right"), "left") ELSE n

\* A leaf leaves the tree; a black one has been fixed up while it still hangs there.
TakeLeaf(t, target) ==
    IF IsTop(t, target) THEN t ELSE DelinkNode(t, NodeLink(t, target), target)

\* The only child takes the leaver's place.
TakeInner(t, target, repl) ==
    LET m == SetParent(Transplant(t, repl, target), target, target)
    IN IF IsBlack(t, target) THEN DeleteFixup(m, repl) ELSE m

\* The place of the leaver is closed.
ClosePlace(t, target) ==
    LET repl == IF Child(t, target, "left") # NULL THEN Child(t, target, "left")
                ELSE Child(t, target, "right")
    IN IF repl # NULL THEN TakeInner(t, target, repl)
       ELSE IF IsTop(t, target) THEN [t EXCEPT !.root = NULL]
       ELSE TakeLeaf(IF IsBlack(t, target) THEN DeleteFixup(t, target) ELSE t, target)

\* Then the leaver replaces the deleted node.
Substitute(t, target, n) ==
    IF target = n THEN t ELSE ReplaceNode(t, NodeLink(t, n), target, n)

DeleteColor(t, n) == Substitute(ClosePlace(t, Leaver(t, n)), Leaver(t, n), n)

\* rb_delete_node_color: a node outside the tree is left alone.
DeleteNodeColor(t, n) ==
    IF IsEmptyNode(t, n) \/ Follow(t, NodeLink(t, n)) = NULL THEN t
    ELSE DeleteColor(t, Follow(t, NodeLink(t, n)))
DeleteKeyColor(t, key) ==
    IF FindKey(t, key) = NULL THEN t ELSE DeleteColor(t, FindKey(t, key))

\* rb_delete_key, without colours: the predecessor takes the place.
DeleteKey(t, key) ==
    LET l == FindKeyLink(t, key)
        n == Follow(t, l)
        leaf == Extreme(t, Child(t, n, "left"), "right")
    IN IF n = NULL THEN t
       ELSE IF Child(t, n, "left") = NULL /\ Child(t, n, "right") = NULL THEN DelinkNode(t, l, n)
       ELSE IF Child(t, n, "left") = NULL
       THEN SetParent(Transplant(t, Child(t, n, "right"), n), n, n)
       ELSE IF Child(t, n, "right") = NULL
       THEN SetParent(Transplant(t, Child(t, n, "left"), n), n, n)
       ELSE ReplaceNode(Transplant(t, Child(t, leaf, "left"), leaf), l, leaf, n)

(* A tree in use: nodes come and go one at a time under its owner's lock --- *)

RbInit == tree = RootInit /\ coloured \in BOOLEAN

RbInsert(n) ==
    /\ FindKey(tree, n) = NULL
    /\ tree' = IF coloured THEN InsertColor(tree, n) ELSE InsertNode(tree, n)
    /\ UNCHANGED coloured
\* The owner frees the node, or initialises it before it uses it again.
RbDelete(n) ==
    /\ FindKey(tree, n) = n
    /\ \E out \in IF coloured THEN {DeleteNodeColor(tree, n), DeleteKeyColor(tree, n)} ELSE {DeleteKey(tree, n)} :
          tree' = [out EXCEPT !.node[n] = NodeInit(n)]
    /\ UNCHANGED coloured

RbNextStep == \E n \in Keys : RbInsert(n) \/ RbDelete(n)

(* Properties --------------------------------------------------------------- *)

\* The nodes on the path from n up to the root.
Up(t, n) ==
    LET go[m \in Keys] ==
          {m} \cup IF t.node[m].parent \in {NULL, m} THEN {} ELSE go[t.node[m].parent]
    IN go[n]
InTree(t) == {n \in Keys : t.root \in Up(t, n)}
BlacksAbove(t, n) == Cardinality({m \in Up(t, n) : t.node[m].black})

\* After any sequence of insertions and deletions the tree is a red-black
\* tree: its root is black, no red node has a red child, and every place
\* where a node can be hung has the same number of black nodes above it.
RbBalanced ==
    LET ends == {n \in InTree(tree) : \E s \in Sides : tree.node[n][s] = NULL}
    IN coloured =>
         /\ IsBlack(tree, tree.root)
         /\ \A n \in InTree(tree) : ~IsBlack(tree, n) => IsBlack(tree, Parent(tree, n))
         /\ \A m, n \in ends : BlacksAbove(tree, m) = BlacksAbove(tree, n)

Least(S) == IF S = {} THEN NULL ELSE CHOOSE k \in S : \A j \in S : k <= j
Greatest(S) == IF S = {} THEN NULL ELSE CHOOSE k \in S : \A j \in S : j <= k

\* What the walks and the rounded lookups return agrees with the ordered set
\* of the keys in the tree, parent and child pointers mirror each other, and
\* a walk from the first node meets every key: the timer wheel, the area
\* tree and the thread trees are built on exactly this.
TreeIsMap ==
    LET K == InTree(tree)
    IN /\ \A n \in K, s \in Sides :
            tree.node[n][s] # NULL => tree.node[tree.node[n][s]].parent = n
       /\ tree.root # NULL => tree.node[tree.root].parent = NULL
       /\ \A k \in Keys : FindKey(tree, k) = IF k \in K THEN k ELSE NULL
       /\ RbFirst(tree) = Least(K) /\ RbLast(tree) = Greatest(K)
       /\ \A k \in Keys : /\ FindKeyRup(tree, k) = Least({j \in K : j >= k})
                          /\ FindKeyRdown(tree, k) = Greatest({j \in K : j <= k})
       /\ \A k \in K : /\ RbNext(tree, k) = Least({j \in K : j > k})
                       /\ RbPrev(tree, k) = Greatest({j \in K : j < k})
                       /\ Brother(tree, k) = NULL \/ Parent(tree, Brother(tree, k)) = Parent(tree, k)
=============================================================================
