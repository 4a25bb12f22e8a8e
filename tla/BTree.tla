-------------------------------- MODULE BTree --------------------------------
(***************************************************************************)
(* libs/btree: the ordered map under the range tree of the VMAs and of     *)
(* vmalloc.  The code has B = 16.  An entry is a pair of a key and a       *)
(* value: the code's two vectors always move together.  Positions count    *)
(* from 1.                                                                 *)
(***************************************************************************)
EXTENDS Structures, SequencesExt

CONSTANTS B, BtKeys, BtValues

ASSUME BAssumption == B \in Nat /\ B % 2 = 0 /\ B >= 4

MinKeys == B \div 2 - 1
MaxKeys == B - 1

Leaf(entries)           == [leaf |-> TRUE, entries |-> entries, kids |-> <<>>]
Internal(entries, kids) == [leaf |-> FALSE, entries |-> entries, kids |-> kids]
NoEntry == <<>>
BtEmpty == [root |-> Leaf(<<>>), len |-> 0, panicked |-> FALSE]

IsFull(node) == Len(node.entries) >= MaxKeys
BtSize(node) == Len(node.entries)

\* where a node has the key, 0 if it does not, and the child that may have it
KeyAt(node, k)    == Least({i \in DOMAIN node.entries : node.entries[i][1] = k})
ChildFor(node, k) == Cardinality({i \in DOMAIN node.entries : node.entries[i][1] <= k}) + 1

SplitChild(parent, c) ==
    LET child == parent.kids[c]
        mid   == MinKeys + 1
        low   == [child EXCEPT !.entries = SubSeq(@, 1, mid - 1),
                               !.kids = IF child.leaf THEN @ ELSE SubSeq(@, 1, mid)]
        high  == [child EXCEPT !.entries = SubSeq(@, mid + 1, Len(@)),
                               !.kids = IF child.leaf THEN @ ELSE SubSeq(@, mid + 1, Len(@))]
    IN  [parent EXCEPT !.entries = InsertAt(@, c, child.entries[mid]),
                       !.kids = InsertAt([@ EXCEPT ![c] = low], c + 1, high)]

RECURSIVE InsertNonFull(_, _, _)
InsertSplit(node, c, k, v) ==
    [node EXCEPT !.kids[IF k > node.entries[c][1] THEN c + 1 ELSE c] = InsertNonFull(@, k, v)]
InsertNonFull(node, k, v) ==
    LET c == ChildFor(node, k)
    IN  IF KeyAt(node, k) # 0 THEN [node EXCEPT !.entries[KeyAt(node, k)] = <<k, v>>]
        ELSE IF node.leaf THEN [node EXCEPT !.entries = InsertAt(@, c, <<k, v>>)]
        ELSE IF IsFull(node.kids[c]) THEN InsertSplit(SplitChild(node, c), c, k, v)
        ELSE [node EXCEPT !.kids[c] = InsertNonFull(@, k, v)]

\* get, get_mut and contains_key
RECURSIVE BtGet(_, _)
BtGet(node, k) ==
    IF KeyAt(node, k) # 0 THEN node.entries[KeyAt(node, k)]
    ELSE IF node.leaf THEN NoEntry ELSE BtGet(node.kids[ChildFor(node, k)], k)

\* BTreeIter: a node's children and entries in turn
RECURSIVE InOrder(_)
InOrder(node) ==
    IF node.leaf THEN node.entries
    ELSE FoldLeftDomain(LAMBDA s, i : Append(s, node.entries[i]) \o InOrder(node.kids[i + 1]),
                        InOrder(node.kids[1]), node.entries)
BtIter(t) == InOrder(t.root)

\* len grows when the insertion found no old value
AfterInsertion(t, root) == [t EXCEPT !.root = root, !.len = @ + Len(InOrder(root)) - Len(InOrder(t.root))]
BtPut(t, k, v) ==
    AfterInsertion(t, InsertNonFull(IF IsFull(t.root) THEN SplitChild(Internal(<<>>, <<t.root>>), 1) ELSE t.root, k, v))

BorrowFromLeft(parent, c) ==
    LET left  == parent.kids[c - 1]
        child == parent.kids[c]
    IN  [parent EXCEPT
           !.entries[c - 1] = Last(left.entries),
           !.kids[c - 1] = [left EXCEPT !.entries = Front(@), !.kids = IF child.leaf THEN @ ELSE Front(@)],
           !.kids[c] = [child EXCEPT !.entries = <<parent.entries[c - 1]>> \o @,
                                     !.kids = IF child.leaf THEN @ ELSE <<Last(left.kids)>> \o @]]

BorrowFromRight(parent, c) ==
    LET right == parent.kids[c + 1]
        child == parent.kids[c]
    IN  [parent EXCEPT
           !.entries[c] = Head(right.entries),
           !.kids[c + 1] = [right EXCEPT !.entries = Tail(@), !.kids = IF child.leaf THEN @ ELSE Tail(@)],
           !.kids[c] = [child EXCEPT !.entries = Append(@, parent.entries[c]),
                                     !.kids = IF child.leaf THEN @ ELSE Append(@, Head(right.kids))]]

MergeChildren(parent, c) ==
    LET left  == parent.kids[c]
        right == parent.kids[c + 1]
        both  == [left EXCEPT !.entries = Append(@, parent.entries[c]) \o right.entries,
                              !.kids = IF left.leaf THEN @ ELSE @ \o right.kids]
    IN  [parent EXCEPT !.entries = RemoveAt(@, c), !.kids = RemoveAt([@ EXCEPT ![c] = both], c + 1)]

FixChild(parent, c) ==
    CASE c > 1 /\ BtSize(parent.kids[c - 1]) > MinKeys -> BorrowFromLeft(parent, c)
      [] ~(c > 1 /\ BtSize(parent.kids[c - 1]) > MinKeys)
         /\ c < Len(parent.kids) /\ BtSize(parent.kids[c + 1]) > MinKeys -> BorrowFromRight(parent, c)
      [] OTHER -> MergeChildren(parent, IF c > 1 THEN c - 1 ELSE c)

\* remove_max and remove_min go to the outermost leaf without refilling the
\* nodes on the way.  There is no entry where the code unwraps an empty leaf.
Lowered(node, c, below) == [node |-> [node EXCEPT !.kids[c] = below.node], entry |-> below.entry]
RECURSIVE RemoveMax(_)
RemoveMax(node) ==
    IF ~node.leaf THEN Lowered(node, Len(node.kids), RemoveMax(Last(node.kids)))
    ELSE IF node.entries = <<>> THEN [node |-> node, entry |-> NoEntry]
    ELSE [node |-> [node EXCEPT !.entries = Front(@)], entry |-> Last(node.entries)]

RECURSIVE RemoveMin(_)
RemoveMin(node) ==
    IF ~node.leaf THEN Lowered(node, 1, RemoveMin(Head(node.kids)))
    ELSE IF node.entries = <<>> THEN [node |-> node, entry |-> NoEntry]
    ELSE [node |-> [node EXCEPT !.entries = Tail(@)], entry |-> Head(node.entries)]

\* The removal of a key that is absent refills nodes on the path it searches.
\* A node without keys has one child and nothing to merge it with: the code
\* then takes a key out of an empty vector.
RECURSIVE RemoveFrom(_, _), BtRemoveBelow(_, _, _)
WithKid(node, c, r) == [node |-> [node EXCEPT !.kids[c] = r.node], found |-> r.found, ok |-> r.ok]
WithEntry(node, p, c, r) ==
    [node |-> [node EXCEPT !.kids[c] = r.node, !.entries[p] = r.entry], found |-> TRUE, ok |-> r.entry # NoEntry]
BtRemoveBelow(node, c, k) == WithKid(node, c, RemoveFrom(node.kids[c], k))
BtRemoveAbsent(node, k) == BtRemoveBelow(node, ChildFor(node, k), k)
RemoveFrom(node, k) ==
    LET p    == KeyAt(node, k)
        poor == BtSize(node.kids[ChildFor(node, k)]) <= MinKeys
    IN  IF node.leaf
        THEN [node |-> IF p = 0 THEN node ELSE [node EXCEPT !.entries = RemoveAt(@, p)], found |-> p # 0, ok |-> TRUE]
        ELSE IF p = 0 /\ poor /\ node.entries = <<>> THEN [node |-> node, found |-> FALSE, ok |-> FALSE]
        ELSE IF p = 0 THEN BtRemoveAbsent(IF poor THEN FixChild(node, ChildFor(node, k)) ELSE node, k)
        ELSE IF BtSize(node.kids[p]) > MinKeys THEN WithEntry(node, p, p, RemoveMax(node.kids[p]))
        ELSE IF BtSize(node.kids[p + 1]) > MinKeys THEN WithEntry(node, p, p + 1, RemoveMin(node.kids[p + 1]))
        ELSE BtRemoveBelow(MergeChildren(node, p), p, k)

\* An absent key returns before the root is shortened.
AfterRemoval(t, r) ==
    IF ~r.ok THEN [t EXCEPT !.panicked = TRUE]
    ELSE IF ~r.found THEN [t EXCEPT !.root = r.node]
    ELSE [t EXCEPT !.root = IF r.node.entries = <<>> /\ ~r.node.leaf THEN Last(r.node.kids) ELSE r.node,
                   !.len = @ - 1]
BtTake(t, k) == AfterRemoval(t, RemoveFrom(t.root, k))

\* first and last: the end of the outermost leaf, Nil if that is empty
RECURSIVE FirstIn(_)
FirstIn(node) == IF ~node.leaf THEN FirstIn(Head(node.kids))
                 ELSE IF node.entries = <<>> THEN Nil ELSE Head(node.entries)[1]
RECURSIVE LastIn(_)
LastIn(node) == IF ~node.leaf THEN LastIn(Last(node.kids))
                ELSE IF node.entries = <<>> THEN Nil ELSE Last(node.entries)[1]

----------------------------------------------------------------------------
\* The calls.  The kernel inserts only keys that are absent: the range tree,
\* the one user of this map, refuses an overlap first.

BtInsert(k, v) == BtGet(obj.root, k) = NoEntry /\ Call("btree", BtPut(obj, k, v), Updated(ref, k, v))

\* A panic stops the kernel: it is the last state of the object.
BtGone(t, keys) == Call("btree", t, IF t.panicked THEN ref ELSE Without(ref, keys))
BtRemove(k)     == BtGone(BtTake(obj, k), {k})
BtPopFirst      == FirstIn(obj.root) # Nil /\ BtGone(BtTake(obj, FirstIn(obj.root)), {FirstIn(obj.root)})
BtPopLast       == LastIn(obj.root) # Nil /\ BtGone(BtTake(obj, LastIn(obj.root)), {LastIn(obj.root)})
BtRetain(keep)  ==
    LET gone == SelectSeq(BtIter(obj), LAMBDA e : e[1] \notin keep)
    IN  BtGone(FoldLeft(LAMBDA t, e : IF t.panicked THEN t ELSE BtTake(t, e[1]), obj, gone), BtKeys \ keep)
BtClone         == Call("btree", FoldLeft(LAMBDA t, e : BtPut(t, e[1], e[2]), BtEmpty, BtIter(obj)), ref)
BtClear         == Call("btree", BtEmpty, <<>>)

BtNext ==
    /\ kind = "btree" /\ ~obj.panicked
    /\ \/ \E k \in BtKeys, v \in BtValues : BtInsert(k, v)
       \/ \E k \in BtKeys : BtRemove(k)
       \/ BtPopFirst \/ BtPopLast \/ BtClone \/ BtClear
       \/ BtRetain({k \in BtKeys : k % 2 = 0})

----------------------------------------------------------------------------
BtContents(t) == [k \in {e[1] : e \in ToSet(BtIter(t))} |-> BtGet(t.root, k)[2]]

RECURSIVE BtDepth(_)
BtDepth(node) ==     \* of a tree with all leaves at one depth, else 0
    IF node.leaf THEN 1
    ELSE LET d == {BtDepth(node.kids[i]) : i \in DOMAIN node.kids}
         IN  IF Cardinality(d) # 1 \/ 0 \in d THEN 0 ELSE Max(d) + 1

RECURSIVE BtNodes(_)
BtNodes(node) == {node} \cup UNION {BtNodes(node.kids[i]) : i \in DOMAIN node.kids}

Drained(t) == \E n \in BtNodes(t.root) \ {t.root} : n.entries = <<>>

\* All leaves are at one depth, no node is over-full, an internal node has one
\* child more than entries, and keys ascend.
BtOrdered(t) ==
    /\ BtDepth(t.root) # 0
    /\ \A n \in BtNodes(t.root) : BtSize(n) <= MaxKeys /\ (~n.leaf => Len(n.kids) = BtSize(n) + 1)
    /\ \A i \in 1 .. Len(BtIter(t)) - 1 : BtIter(t)[i][1] < BtIter(t)[i + 1][1]
    /\ t.len = Len(BtIter(t))

\* The tree has the entries it should have.  A removal panics only when earlier
\* ones have drained a node, or removals of absent keys have left a root without
\* keys.
BtAgrees(t, map) ==
    IF t.panicked THEN Drained(t) \/ (~t.root.leaf /\ t.root.entries = <<>>) ELSE BtContents(t) = map

\* first and last answer the smallest and the largest key, or nothing when the
\* outermost leaf has been drained; get finds every key and no other.
BtAnswers(t, map) ==
    LET keys == DOMAIN map
    IN  ~t.panicked =>
           /\ FirstIn(t.root) \in {Least(keys), Nil} /\ LastIn(t.root) \in {Greatest(keys), Nil}
           /\ ~Drained(t) => FirstIn(t.root) = Least(keys) /\ LastIn(t.root) = Greatest(keys)
           /\ \A k \in BtKeys : BtGet(t.root, k) = IF k \in keys THEN <<k, map[k]>> ELSE NoEntry
=============================================================================
