---------------------------- MODULE RedBlackTree ----------------------------
(***************************************************************************)
(* libs/rbtree: the map that vmalloc keeps its areas in.  A node is named  *)
(* by its key, since no operation copies a key from one node to another.   *)
(* The code writes every rotation and fix-up twice, once for each side;    *)
(* here the side is a parameter.  A null pointer that the code would       *)
(* follow is an application outside a function's domain.                   *)
(***************************************************************************)
EXTENDS Structures, SequencesExt

CONSTANTS RbKeys, RbValues

ASSUME RbAssumption == RbKeys \subseteq Nat \ {Nil}

Opposite(side) == IF side = "left" THEN "right" ELSE "left"

\* RbNode::new and RbTree::new
RbNode(v) == [kid |-> [left |-> Nil, right |-> Nil], parent |-> Nil, red |-> TRUE, value |-> v]
RbEmpty   == [root |-> Nil, node |-> <<>>]

RbRed(t, p) == p # Nil /\ t.node[p].red
Paint(t, p, red) == IF p = Nil THEN t ELSE [t EXCEPT !.node[p].red = red]

\* tree_minimum for "left" and tree_maximum for "right"
RECURSIVE Extreme(_, _, _)
Extreme(t, p, side) ==
    IF p = Nil \/ t.node[p].kid[side] = Nil THEN p ELSE Extreme(t, t.node[p].kid[side], side)

RECURSIVE Climb(_, _, _)
Climb(t, p, side) ==
    LET up == t.node[p].parent
    IN  IF up # Nil /\ p = t.node[up].kid[side] THEN Climb(t, up, side) ELSE up

\* successor for "right" and predecessor for "left"
Neighbour(t, p, side) ==
    IF t.node[p].kid[side] # Nil THEN Extreme(t, t.node[p].kid[side], Opposite(side)) ELSE Climb(t, p, side)

\* The pointer that leads to u, the root or one of its parent's, leads to v.
SideOf(t, p, u) == IF t.node[p].kid.left = u THEN "left" ELSE "right"
Redirect(t, u, v) ==
    LET p == t.node[u].parent
    IN  IF p = Nil THEN [t EXCEPT !.root = v] ELSE [t EXCEPT !.node[p].kid[SideOf(t, p, u)] = v]

Adopt(t, v, p) == IF v = Nil THEN t ELSE [t EXCEPT !.node[v].parent = p]

\* Mutant of Transplant: the node that moves up keeps its old parent.
TransplantNoParent(t, u, v) == Redirect(t, u, v)

Transplant(t, u, v) == Adopt(Redirect(t, u, v), v, t.node[u].parent)

\* rotate_left and rotate_right: y, a child of x, takes the place of x, and its
\* inner child goes to x.
Exchange(t, x, y, inner, side) ==
    [Redirect([Adopt(t, inner, x) EXCEPT !.node[x].kid[Opposite(side)] = inner, !.node[y].parent = t.node[x].parent], x, y)
        EXCEPT !.node[y].kid[side] = x, !.node[x].parent = y]
Rotate(t, x, side) ==
    LET y == t.node[x].kid[Opposite(side)] IN Exchange(t, x, y, t.node[y].kid[side], side)

\* The last case of insert_fixup, z on the outer side of its parent.
Lift(t, p, gp, side) == Rotate(Paint(Paint(t, p, FALSE), gp, TRUE), gp, Opposite(side))

RECURSIVE InsertFixup(_, _)
InsertFixup(t, z) ==
    LET p     == t.node[z].parent
        gp    == t.node[p].parent
        side  == SideOf(t, gp, p)
        uncle == t.node[gp].kid[Opposite(side)]
    IN  IF p = Nil \/ ~RbRed(t, p) THEN Paint(t, t.root, FALSE)
        ELSE IF RbRed(t, uncle)
        THEN InsertFixup(Paint(Paint(Paint(t, p, FALSE), uncle, FALSE), gp, TRUE), gp)
        ELSE IF z = t.node[p].kid[Opposite(side)]
        THEN InsertFixup(Lift(Rotate(t, p, side), z, gp, side), p)
        ELSE InsertFixup(Lift(t, p, gp, side), z)

\* delete_fixup, where p is the parent of the node x on the given side that
\* lacks a black node.  Its sibling w is made black, the outer child of w red,
\* and then p is rotated.
BlackSibling(t, p, w, side) == IF RbRed(t, w) THEN Rotate(Paint(Paint(t, w, FALSE), p, TRUE), p, side) ELSE t
RedNephew(t, w, side) ==
    IF RbRed(t, t.node[w].kid[Opposite(side)]) THEN t
    ELSE Rotate(Paint(Paint(t, t.node[w].kid[side], FALSE), w, TRUE), w, Opposite(side))
LastRotation(t, p, w, side) ==
    Rotate(Paint(Paint(Paint(t, w, RbRed(t, p)), p, FALSE), t.node[w].kid[Opposite(side)], FALSE), p, side)
BlackRoot(t) == Paint(t, t.root, FALSE)
SiblingOf(t, p, side) == t.node[p].kid[Opposite(side)]

\* x may be a null leaf, which is why its parent is carried along.
RECURSIVE DeleteFixup(_, _, _), SiblingCases(_, _, _, _), RedNephewCase(_, _, _)
DeleteFixup(t, x, x_parent) ==
    LET p == IF x # Nil THEN t.node[x].parent ELSE x_parent
    IN  IF x = t.root \/ RbRed(t, x) \/ p = Nil THEN Paint(t, x, FALSE)
        ELSE LET side == SideOf(t, p, x)
                 t1   == BlackSibling(t, p, SiblingOf(t, p, side), side)
             IN  SiblingCases(t1, p, SiblingOf(t1, p, side), side)
SiblingCases(t, p, w, side) ==
    IF \A s \in {"left", "right"} : ~RbRed(t, t.node[w].kid[s])
    THEN DeleteFixup(Paint(t, w, TRUE), p, t.node[p].parent)
    ELSE RedNephewCase(RedNephew(t, w, side), p, side)
RedNephewCase(t, p, side) == BlackRoot(LastRotation(t, p, SiblingOf(t, p, side), side))

RECURSIVE Attach(_, _, _)
Attach(t, k, p) ==
    LET side == IF k < p THEN "left" ELSE "right"
    IN  IF t.node[p].kid[side] # Nil THEN Attach(t, k, t.node[p].kid[side])
        ELSE [t EXCEPT !.node[p].kid[side] = k, !.node[k].parent = p]

InternalInsert(t, k, v) ==
    LET t1 == [t EXCEPT !.node = [n \in DOMAIN t.node \cup {k} |-> IF n = k THEN RbNode(v) ELSE t.node[n]]]
    IN  InsertFixup(IF t.root = Nil THEN [t1 EXCEPT !.root = k] ELSE Attach(t1, k, t.root), k)

\* internal_delete: the tree without z, whether a black node is gone, and the
\* node that has taken its place.  A node with two children gives its place to
\* its successor y, which is first taken out of its own, unless it is a child
\* of z.
TakeOut(t, y, r) == Adopt([Transplant(t, y, t.node[y].kid.right) EXCEPT !.node[y].kid.right = r], r, y)
RbReplace(t, z, y, l, red) ==
    [Transplant(t, z, y) EXCEPT !.node[y].kid.left = l, !.node[l].parent = y, !.node[y].red = red]
RbRaise(t, z, y, l, r) ==
    LET deep == t.node[y].parent # z
    IN  [tree |-> RbReplace(IF deep THEN TakeOut(t, y, r) ELSE t, z, y, l, t.node[z].red),
         red |-> RbRed(t, y), x |-> t.node[y].kid.right, parent |-> IF deep THEN t.node[y].parent ELSE y]
RbUnlink(t, z, l, r) ==
    IF l = Nil \/ r = Nil
    THEN LET x == IF l = Nil THEN r ELSE l
         IN  [tree |-> Transplant(t, z, x), red |-> RbRed(t, z), x |-> x, parent |-> t.node[z].parent]
    ELSE RbRaise(t, z, Extreme(t, r, "left"), l, r)
Rebalance(cut) == IF ~cut.red /\ cut.tree.root # Nil THEN DeleteFixup(cut.tree, cut.x, cut.parent) ELSE cut.tree
RbRelease(t, z) == [t EXCEPT !.node = [n \in DOMAIN @ \ {z} |-> @[n]]]
InternalDelete(t, z) == RbRelease(Rebalance(RbUnlink(t, z, t.node[z].kid.left, t.node[z].kid.right)), z)

----------------------------------------------------------------------------
\* Searches.  Each walk keeps the last node that satisfied its test.

RECURSIVE FindNode(_, _, _)
FindNode(t, k, p) ==
    IF p = Nil \/ k = p THEN p ELSE FindNode(t, k, t.node[p].kid[IF k < p THEN "left" ELSE "right"])

\* lower_bound_node and upper_bound_node
RECURSIVE Above(_, _, _, _)
Above(t, p, low, best) ==
    IF p = Nil THEN best
    ELSE IF p >= low THEN Above(t, t.node[p].kid.left, low, p) ELSE Above(t, t.node[p].kid.right, low, best)

\* floor_node and lower_than_node
RECURSIVE Below(_, _, _, _)
Below(t, p, high, best) ==
    IF p = Nil THEN best
    ELSE IF p <= high THEN Below(t, t.node[p].kid.right, high, p) ELSE Below(t, t.node[p].kid.left, high, best)

RbContains(t, k) == FindNode(t, k, t.root) # Nil

\* RbIter and RbRangeIter: from node p through the successors up to the end bound
RECURSIVE RbWalk(_, _, _)
RbWalk(t, p, high) == IF p = Nil \/ p > high THEN <<>> ELSE <<p>> \o RbWalk(t, Neighbour(t, p, "right"), high)

RbIter(t) == RbWalk(t, Extreme(t, t.root, "left"), Max(RbKeys))

\* range and range_mut: from is where the start bound leads, high the last key the end bound admits
RbRange(t, low, high) == RbWalk(t, Above(t, t.root, low, Nil), high)

----------------------------------------------------------------------------
\* The calls.  insert, entry(..).or_insert, OccupiedEntry::insert and
\* and_modify write a value; the others take entries out.

RbPut(t, k, v) == IF RbContains(t, k) THEN [t EXCEPT !.node[k].value = v] ELSE InternalInsert(t, k, v)
RbTake(t, k)   == IF RbContains(t, k) THEN InternalDelete(t, k) ELSE t

\* retain collects the nodes to go on a walk, then deletes them in that order
RbKeep(t, keep) == FoldSeq(LAMBDA k, u : InternalDelete(u, k), t, SelectSeq(RbIter(t), LAMBDA k : k \notin keep))

\* append pops the smallest entry of the other tree until it is empty
RECURSIVE RbDrain(_, _)
RbDrain(t, other) ==
    LET k == Extreme(other, other.root, "left")
    IN  IF k = Nil THEN t ELSE RbDrain(RbPut(t, k, other.node[k].value), InternalDelete(other, k))

\* clone inserts what an iteration yields into an empty tree
RbCopy(t) == FoldSeq(LAMBDA k, u : RbPut(u, k, t.node[k].value), RbEmpty, RbIter(t))

RbInsert(k, v)   == Call("rbtree", RbPut(obj, k, v), Updated(ref, k, v))
RbOrInsert(k, v) == Call("rbtree", IF RbContains(obj, k) THEN obj ELSE InternalInsert(obj, k, v),
                         IF k \in DOMAIN ref THEN ref ELSE Updated(ref, k, v))
RbRemove(k)      == Call("rbtree", RbTake(obj, k), Without(ref, {k}))
RbPopFirst       == Call("rbtree", IF obj.root = Nil THEN obj ELSE InternalDelete(obj, Extreme(obj, obj.root, "left")),
                         Without(ref, {k \in DOMAIN ref : \A l \in DOMAIN ref : k <= l}))
RbPopLast        == Call("rbtree", IF obj.root = Nil THEN obj ELSE InternalDelete(obj, Extreme(obj, obj.root, "right")),
                         Without(ref, {k \in DOMAIN ref : \A l \in DOMAIN ref : k >= l}))
RbRetain(keep)   == Call("rbtree", RbKeep(obj, keep), Without(ref, RbKeys \ keep))
RbAppend(more)   == Call("rbtree", RbDrain(obj, FoldSeq(LAMBDA k, u : RbPut(u, k, more[k]), RbEmpty, SetToSeq(DOMAIN more))),
                         [k \in DOMAIN ref \cup DOMAIN more |-> IF k \in DOMAIN more THEN more[k] ELSE ref[k]])
RbClone          == Call("rbtree", RbCopy(obj), ref)
RbClear          == Call("rbtree", RbEmpty, <<>>)

RbNext ==
    \/ \E k \in RbKeys, v \in RbValues : RbInsert(k, v) \/ RbOrInsert(k, v)
    \/ \E k \in RbKeys : RbRemove(k)
    \/ RbPopFirst \/ RbPopLast \/ RbClone \/ RbClear
    \/ RbRetain({k \in RbKeys : k % 2 = 0})
    \/ \E v \in RbValues : RbAppend([k \in {l \in RbKeys : l % 3 = 1} |-> v])

----------------------------------------------------------------------------
RbContents(t) == [k \in ToSet(RbIter(t)) |-> t.node[k].value]

\* Black nodes on the paths from p down, 0 for paths that differ.
RECURSIVE BlackHeight(_, _)
BlackHeight(t, p) ==
    IF p = Nil THEN 1
    ELSE LET l == BlackHeight(t, t.node[p].kid.left)
             r == BlackHeight(t, t.node[p].kid.right)
         IN  IF l = 0 \/ l # r THEN 0 ELSE l + (IF t.node[p].red THEN 0 ELSE 1)

\* The red-black conditions: links agree both ways, the root is black, no red
\* node has a red child and every path has the same number of black nodes.
RbBalanced(t) ==
    /\ ~RbRed(t, t.root) /\ BlackHeight(t, t.root) # 0
    /\ t.root # Nil => t.node[t.root].parent = Nil
    /\ \A p \in DOMAIN t.node, side \in {"left", "right"} :
          LET c == t.node[p].kid[side]
          IN  c # Nil => /\ t.node[c].parent = p
                         /\ ~(t.node[p].red /\ t.node[c].red)

\* The ordered queries and the iterators answer what the set of keys says.
RbAnswers(t, map) ==
    LET keys == DOMAIN map
    IN  /\ \A k \in RbKeys :
              /\ RbContains(t, k) <=> k \in keys
              /\ Above(t, t.root, k, Nil) = Least({l \in keys : l >= k})
              /\ Above(t, t.root, k + 1, Nil) = Least({l \in keys : l > k})
              /\ Below(t, t.root, k, Nil) = Greatest({l \in keys : l <= k})
              /\ Below(t, t.root, k - 1, Nil) = Greatest({l \in keys : l < k})
              /\ k \in keys => Neighbour(t, k, "left") = Greatest({l \in keys : l < k})
        /\ \A low, high \in RbKeys :
              RbRange(t, low, high) = SetToSortSeq({l \in keys : low <= l /\ l <= high}, <)
=============================================================================
