------------------------------ MODULE RadixTree ------------------------------
(***************************************************************************)
(* libs/rdtree: the map from integers in which the task manager keeps its  *)
(* tasks and processes.  The code has 64 slots a node; Radix is a          *)
(* parameter, and RdMax is the largest index there is, usize::MAX.  A slot *)
(* is occupied when it is in the domain of slots; at level 0 slots hold    *)
(* values and above it nodes.                                              *)
(***************************************************************************)
EXTENDS Structures, SequencesExt

CONSTANTS Radix, RdMax, RdValues

ASSUME RdAssumption == Radix \in Nat \ {0, 1} /\ RdMax \in Nat /\ Nil \notin RdValues

RdKeys == 0 .. RdMax
NoKey  == -1

HeightForKey(k) == Min({h \in 1 .. RdMax + 1 : k < Radix ^ h})
KeyIndex(k, level) == (k \div Radix ^ level) % Radix

RdNode  == [slots |-> <<>>, count |-> 0]
\* At height 0 there is no root.  "passed" is not in the code: the indices that
\* the iteration of the last call should have come to and did not.
RdEmpty == [root |-> RdNode, len |-> 0, height |-> 0, passed |-> {}]

RECURSIVE EnsureHeight(_, _)
EnsureHeight(t, required) ==
    IF t.height >= required THEN t
    ELSE EnsureHeight([t EXCEPT !.root = IF t.height = 0 THEN RdNode
                                         ELSE [slots |-> (0 :> t.root), count |-> t.len],
                                !.height = @ + 1], required)

RECURSIVE GetAt(_, _, _)
GetAt(node, k, level) ==
    LET i == KeyIndex(k, level)
    IN  IF i \notin DOMAIN node.slots THEN Nil
        ELSE IF level = 0 THEN node.slots[i] ELSE GetAt(node.slots[i], k, level - 1)

\* get, get_mut, get_key_value and contains
RdGet(t, k) == IF HeightForKey(k) > t.height THEN Nil ELSE GetAt(t.root, k, t.height - 1)

RECURSIVE InsertBelow(_, _, _, _)
InsertBelow(node, k, v, level) ==
    LET i     == KeyIndex(k, level)
        child == IF i \in DOMAIN node.slots THEN node.slots[i] ELSE RdNode
        new   == GetAt(node, k, level) = Nil
    IN  [slots |-> Updated(node.slots, i, IF level = 0 THEN v ELSE InsertBelow(child, k, v, level - 1)),
         count |-> node.count + (IF new THEN 1 ELSE 0)]

RdPut(t, k, v) ==
    LET tall == EnsureHeight(t, HeightForKey(k))
    IN  [tall EXCEPT !.root = InsertBelow(@, k, v, tall.height - 1),
                     !.len = @ + (IF GetAt(tall.root, k, tall.height - 1) = Nil THEN 1 ELSE 0)]

\* for an index that is present
RECURSIVE RemoveBelow(_, _, _)
RemoveBelow(node, k, level) ==
    LET i     == KeyIndex(k, level)
        child == RemoveBelow(node.slots[i], k, level - 1)
        gone  == level = 0 \/ child.count = 0
    IN  [slots |-> IF gone THEN Without(node.slots, {i}) ELSE [node.slots EXCEPT ![i] = child],
         count |-> node.count - 1]

\* The height only comes down when the last entry goes.
RdTake(t, k) ==
    LET root == RemoveBelow(t.root, k, t.height - 1)
    IN  IF RdGet(t, k) = Nil THEN t
        ELSE IF root.count = 0 THEN [RdEmpty EXCEPT !.len = t.len - 1]
        ELSE [t EXCEPT !.root = root, !.len = @ - 1]

----------------------------------------------------------------------------
\* Ordered queries: find_first, find_last, find_lower_bound, find_floor

RdKey(prefix, i, level) == prefix + i * Radix ^ level

From(S) == IF S \ {NoKey} = {} THEN NoKey ELSE Min(S \ {NoKey})
UpTo(S) == IF S \ {NoKey} = {} THEN NoKey ELSE Max(S)

\* The slots are tried in order until one has an entry: ensure_height may put
\* an empty node under a new root.
RECURSIVE FindFirst(_, _, _)
FindFirst(node, prefix, level) ==
    From({IF level = 0 THEN prefix + i ELSE FindFirst(node.slots[i], RdKey(prefix, i, level), level - 1)
             : i \in DOMAIN node.slots})

RECURSIVE FindLast(_, _, _)
FindLast(node, prefix, level) ==
    UpTo({IF level = 0 THEN prefix + i ELSE FindLast(node.slots[i], RdKey(prefix, i, level), level - 1)
             : i \in DOMAIN node.slots})

\* The slot on the path of the target is searched for it; if it has nothing,
\* the first entry of the slots after it is taken.
RECURSIVE FindLowerBound(_, _, _, _)
FindLowerBound(node, prefix, level, target) ==
    LET at   == KeyIndex(target, level)
        here == IF at \notin DOMAIN node.slots THEN NoKey
                ELSE FindLowerBound(node.slots[at], RdKey(prefix, at, level), level - 1, target)
    IN  CASE level = 0 -> From({prefix + i : i \in {j \in DOMAIN node.slots : j >= at}} \cap target .. RdMax)
          [] level > 0 /\ here # NoKey -> here
          [] OTHER -> From({FindFirst(node.slots[i], RdKey(prefix, i, level), level - 1)
                               : i \in {j \in DOMAIN node.slots : j > at}})

RECURSIVE FindFloor(_, _, _, _)
FindFloor(node, prefix, level, target) ==
    LET at   == KeyIndex(target, level)
        here == IF at \notin DOMAIN node.slots THEN NoKey
                ELSE FindFloor(node.slots[at], RdKey(prefix, at, level), level - 1, target)
    IN  CASE level = 0 -> UpTo({prefix + i : i \in {j \in DOMAIN node.slots : j <= at}} \cap 0 .. target)
          [] level > 0 /\ here # NoKey -> here
          [] OTHER -> UpTo({FindLast(node.slots[i], RdKey(prefix, i, level), level - 1)
                               : i \in {j \in DOMAIN node.slots : j < at}})

RdLowerBound(t, k) == IF t.height = 0 THEN NoKey ELSE FindLowerBound(t.root, 0, t.height - 1, k)
RdUpperBound(t, k) == IF k = RdMax THEN NoKey ELSE RdLowerBound(t, k + 1)
RdFloor(t, k)      == IF t.height = 0 THEN NoKey ELSE FindFloor(t.root, 0, t.height - 1, k)
RdLowerThan(t, k)  == IF k = 0 THEN NoKey ELSE RdFloor(t, k - 1)

FirstInRange(t, a, b) == LET k == RdLowerBound(t, a) IN IF a <= b /\ k # NoKey /\ k <= b THEN k ELSE NoKey
LastInRange(t, a, b)  == LET k == RdFloor(t, b) IN IF a <= b /\ k # NoKey /\ k >= a THEN k ELSE NoKey

RECURSIVE FindFirstGap(_, _)
FindFirstGap(t, k) == IF RdGet(t, k) = Nil THEN k ELSE IF k = RdMax THEN NoKey ELSE FindFirstGap(t, k + 1)

\* Iter::next and IterMut::next.  When it enters a child the code stores the
\* position it had reached in the parent in the frame on top of the stack,
\* which by then is the child's: a child is read from that position on.
RECURSIVE Iterate(_)
Iterate(stack) ==
    LET top  == Last(stack)
        left == {i \in DOMAIN top.node.slots : i >= top.index}
        i    == Min(left)
        key  == RdKey(top.prefix, i, top.level)
        rest == Append(Front(stack), [top EXCEPT !.index = i + 1])
    IN  IF stack = <<>> THEN <<>>
        ELSE IF left = {} THEN Iterate(Front(stack))
        ELSE IF top.level = 0 THEN <<key>> \o Iterate(rest)
        ELSE Iterate(Append(rest, [node |-> top.node.slots[i], prefix |-> key, level |-> top.level - 1,
                                   index |-> i + 1]))

RdIter(t) == IF t.height = 0 THEN <<>>
             ELSE Iterate(<<[node |-> t.root, prefix |-> 0, level |-> t.height - 1, index |-> 0]>>)

\* range and range_mut: skip_while and take_while over the iterator; end is
\* the last index, one less, but not less than zero, when it is excluded
RdRange(t, start, end) == SelectSeq(RdIter(t), LAMBDA k : start <= k /\ k <= end)
Included(end) == IF end = 0 THEN 0 ELSE end - 1

----------------------------------------------------------------------------
\* The calls.  Of the indices that its iteration passed over a call's plain
\* definition says nothing: the next call finds there what is there.

RdContents(t) == [k \in {l \in RdKeys : RdGet(t, l) # Nil} |-> RdGet(t, k)]
RdHeld ==
    LET there == {k \in obj.passed : RdGet(obj, k) # Nil}
    IN  [k \in (DOMAIN ref \ obj.passed) \cup there |-> IF k \in there THEN RdGet(obj, k) ELSE ref[k]]
Passed(t) == LET seen == ToSet(RdIter(t)) IN {k \in RdKeys : RdGet(t, k) # Nil /\ k \notin seen}

RdBuild(keys, f) == FoldSeq(LAMBDA k, t : RdPut(t, k, f[k]), RdEmpty, keys)
RdTakeAll(t, keys) == FoldSeq(LAMBDA k, u : RdTake(u, k), t, keys)
RdSeen(t, S) == SelectSeq(RdIter(t), LAMBDA k : k \in S)

RdCall(t, map, passed) == Call("rdtree", [t EXCEPT !.passed = passed], map)

RdInsert(k, v) == RdCall(RdPut(obj, k, v), Updated(RdHeld, k, v), {})
RdRemove(k)    == RdCall(RdTake(obj, k), Without(RdHeld, {k}), {})
GetOrInsert(k, v) ==
    RdCall(IF RdGet(obj, k) = Nil THEN RdPut(obj, k, v) ELSE obj,
           IF k \in DOMAIN RdHeld THEN RdHeld ELSE Updated(RdHeld, k, v), {})
InsertFirstGap(k, v) ==
    LET gap  == FindFirstGap(obj, k)
        held == RdHeld
        free == {l \in k .. RdMax : l \notin DOMAIN held}
    IN  RdCall(IF gap = NoKey THEN obj ELSE RdPut(obj, gap, v),
               IF free = {} THEN held ELSE Updated(held, Min(free), v), {})
RdPopFirst ==
    /\ obj.height # 0
    /\ RdCall(RdTake(obj, FindFirst(obj.root, 0, obj.height - 1)), Without(RdHeld, {Min(DOMAIN RdHeld)}), {})
RdPopLast ==
    /\ obj.height # 0
    /\ RdCall(RdTake(obj, FindLast(obj.root, 0, obj.height - 1)), Without(RdHeld, {Max(DOMAIN RdHeld)}), {})
RdClear == RdCall(RdEmpty, <<>>, {})

\* remove_range, and retain with the complement
RemoveRange(S) == RdCall(RdTakeAll(obj, RdSeen(obj, S)), Without(RdHeld, S), Passed(obj) \cap S)
\* split_off keeps the entries below k here; the others go to the tree it returns
SplitOff(k)    == LET S == {l \in RdKeys : l >= k}
                  IN  \/ RdCall(RdTakeAll(obj, RdSeen(obj, S)), Without(RdHeld, S), Passed(obj) \cap S)
                      \/ RdCall(RdBuild(RdSeen(obj, S), RdContents(obj)), Without(RdHeld, RdKeys \ S), Passed(obj) \cap S)
\* append with a tree of S, which goes through its iterator, and clone
RdAppend(S, v) ==
    LET other == RdBuild(SetToSeq(S), [l \in S |-> v])
        held  == RdHeld
    IN  RdCall(FoldSeq(LAMBDA k, t : RdPut(t, k, v), obj, RdIter(other)),
               [l \in DOMAIN held \cup S |-> IF l \in S THEN v ELSE held[l]], Passed(other))
RdClone == RdCall(RdBuild(RdIter(obj), RdContents(obj)), RdHeld, Passed(obj))

RdNext ==
    /\ kind = "rdtree"
    /\ \/ \E k \in RdKeys, v \in RdValues : RdInsert(k, v) \/ GetOrInsert(k, v) \/ InsertFirstGap(k, v)
       \/ \E k \in RdKeys : RdRemove(k) \/ SplitOff(k)
       \/ RdPopFirst \/ RdPopLast \/ RdClear \/ RdClone
       \/ \E a \in RdKeys, b \in {RdMax \div 2, RdMax} : RemoveRange(a .. b)
       \/ RemoveRange({k \in RdKeys : k % 2 = 1})
       \/ \E v \in RdValues : RdAppend({k \in RdKeys : k % 3 = 1}, v)

RdInit == kind = "rdtree" /\ obj = RdEmpty /\ ref = <<>>
RdSpec == RdInit /\ [][RdNext]_structure

----------------------------------------------------------------------------
\* Every index has what the calls should have left there, unless the iteration
\* of the last call passed it over.
RdAgrees == \A k \in RdKeys \ obj.passed : RdGet(obj, k) = IF k \in DOMAIN ref THEN ref[k] ELSE Nil

\* keys, and with it iter, values and what is made of them, goes over all the
\* keys there are, as its comment says (rdtree/tree.rs:528).  In a tree of more
\* than one level next stores the parent's position in the frame of the child it
\* has just entered (rdtree/tree.rs:786).
AllKeysIterated == RdIter(obj) = SetToSortSeq(DOMAIN RdHeld, <)

\* Every node counts the entries below it.
RECURSIVE Counted(_, _)
Counted(node, level) ==
    IF level = 0 THEN node.count = Cardinality(DOMAIN node.slots)
    ELSE /\ node.count = FoldFunction(+, 0, [i \in DOMAIN node.slots |-> node.slots[i].count])
         /\ \A i \in DOMAIN node.slots : Counted(node.slots[i], level - 1)

\* The queries answer what the set of keys says, for an index that the height
\* of the tree covers.  The iterators yield entries in order, each once, and all
\* of them, or of the range, while the tree has one level; a range that excludes
\* its end has an end to exclude.
RdAnswers(t, map) ==
    LET keys == DOMAIN map
        Covered(k) == t.height = 0 \/ k < Radix ^ t.height
        Ordered(S) == SetToSortSeq(S, <)
    IN  /\ t.height # 0 => FindFirst(t.root, 0, t.height - 1) = Min(keys) /\ FindLast(t.root, 0, t.height - 1) = Max(keys)
        /\ RdIter(t) = Ordered(ToSet(RdIter(t)) \cap keys)
        /\ t.height <= 1 => RdIter(t) = Ordered(keys)
        /\ \A k \in RdKeys :
              /\ FindFirstGap(t, k) = From({l \in k .. RdMax : l \notin keys})
              /\ Covered(k) =>
                    /\ RdLowerBound(t, k) = From({l \in keys : l >= k})
                    /\ RdFloor(t, k) = UpTo({l \in keys : l <= k})
                    /\ RdLowerThan(t, k) = UpTo({l \in keys : l < k})
                    /\ Covered(k + 1) => RdUpperBound(t, k) = From({l \in keys : l > k})
              /\ \A j \in RdKeys :
                    /\ Covered(j) => FirstInRange(t, j, k) = From({l \in keys : j <= l /\ l <= k})
                    /\ Covered(k) => LastInRange(t, j, k) = UpTo({l \in keys : j <= l /\ l <= k})
                    /\ t.height <= 1 => RdRange(t, j, k) = Ordered({l \in keys : j <= l /\ l <= k})
                    /\ t.height <= 1 /\ k > 0 => RdRange(t, j, Included(k)) = Ordered({l \in keys : j <= l /\ l < k})
=============================================================================
