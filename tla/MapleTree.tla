------------------------------ MODULE MapleTree ------------------------------
(***************************************************************************)
(* libs/mptree: disjoint ranges [start, end) in a B-tree keyed by start.   *)
(* It holds the VMAs of an address space and the free space of vmalloc.    *)
(* Every query but remove walks the whole B-tree in order.                 *)
(***************************************************************************)
EXTENDS BTree

CONSTANTS Points, MpValues      \* the bounds of ranges, and what is kept of them

Mp(start, end, value) == <<start, [end |-> end, value |-> value]>>
Meets(r, start, end)  == ~(end <= r[1] \/ start >= r[2].end)
HasOverlap(t, start, end) == \E r \in ToSet(BtIter(t)) : Meets(r, start, end)

MpPut(t, start, end, value) == BtPut(t, start, [end |-> end, value |-> value])

\* insert: InvalidRange or Overlap leave the tree as it is
MpAdd(t, start, end, value) ==
    IF start >= end \/ HasOverlap(t, start, end) THEN t ELSE MpPut(t, start, end, value)
MpTakeAll(t, ranges) == FoldLeft(LAMBDA u, r : BtTake(u, r[1]), t, ranges)

\* Mutant of UpdateEnd: a refused end loses the range instead of putting it back.
UpdateEndForgets(t, start, end) == MpAdd(BtTake(t, start), start, end, BtGet(t.root, start)[2].value)

\* update_end, of a range that is there
MpRenew(rest, start, end, old) ==
    MpAdd(rest, start, IF HasOverlap(rest, start, end) THEN old.end ELSE end, old.value)
UpdateEnd(t, start, end) == MpRenew(BtTake(t, start), start, end, BtGet(t.root, start)[2])

\* replace: the old range is put back when the new one is refused
MpSwap(rest, start, end, value, old) ==
    IF start < end /\ ~HasOverlap(rest, start, end) THEN MpPut(rest, start, end, value)
    ELSE IF old = NoEntry THEN rest ELSE MpAdd(rest, start, old[2].end, old[2].value)
Replace(t, start, end, value) == MpSwap(BtTake(t, start), start, end, value, BtGet(t.root, start))

\* move_start, where s is the ranges in order
MpShift(t, s, start, new_start, old) ==
    LET clash == \E i \in DOMAIN s : s[i][1] # start /\ Meets(s[i], new_start, old[2].end)
    IN  IF old = NoEntry \/ new_start >= old[2].end \/ clash THEN t
        ELSE MpPut(BtTake(t, start), new_start, old[2].end, old[2].value)
MoveStart(t, start, new_start) == MpShift(t, BtIter(t), start, new_start, BtGet(t.root, start))

InsertOverwrite(t, start, end, value) ==
    IF start >= end THEN t
    ELSE MpAdd(MpTakeAll(t, SelectSeq(BtIter(t), LAMBDA r : Meets(r, start, end))), start, end, value)

MpCut(t, r, point) == MpAdd(MpAdd(BtTake(t, r[1]), r[1], point, r[2].value), point, r[2].end, r[2].value)
SplitAt(t, point) ==
    LET hit == SelectSeq(BtIter(t), LAMBDA r : r[1] < point /\ point < r[2].end)
    IN  IF hit = <<>> THEN t ELSE MpCut(t, Head(hit), point)

\* merge_adjacent_equal: the first two neighbours that touch and have one value, until there are none
RECURSIVE MergeAdjacent(_)
MpJoin(t, l, r) == MpAdd(MpTakeAll(t, <<l, r>>), l[1], r[2].end, l[2].value)
MpJoinable(s) == {j \in 1 .. Len(s) - 1 : s[j][2].end = s[j + 1][1] /\ s[j][2].value = s[j + 1][2].value}
MergeAdjacent(t) ==
    LET s == BtIter(t)
        i == Least(MpJoinable(s))
    IN  IF i = Nil THEN t ELSE MergeAdjacent(MpJoin(t, s[i], s[i + 1]))

\* find_gap: before the first range, between two, after the last; NoGap is None
NoGap == -1
Larger(a, b)  == IF a > b THEN a ELSE b
Smaller(a, b) == IF a < b THEN a ELSE b
FindGap(t, size, start, end) ==
    LET s    == BtIter(t)
        lead == s = <<>> \/ s[1][1] >= start + size
        top  == IF s = <<>> THEN end ELSE s[1][1]
        Low(i)  == Larger(s[i][2].end, start)
        High(i) == Smaller(IF i = Len(s) THEN end ELSE s[i + 1][1], end)
        i    == Least({j \in DOMAIN s : High(j) > Low(j) /\ High(j) - Low(j) >= size})
    IN  IF start >= end \/ size = 0 THEN NoGap
        ELSE IF lead /\ top - start >= size THEN start
        ELSE IF i = Nil THEN NoGap ELSE Low(i)

\* Mutant of FindGapReverse: gaps are not cut off at the lower end of the window.
FindGapReverseOpen(t, size, start, end) ==
    LET s    == BtIter(t)
        Low(i)  == IF i = 0 THEN end ELSE s[i][2].end
        High(i) == Smaller(IF i = Len(s) THEN start ELSE s[i + 1][1], start)
        fits == {j \in 0 .. Len(s) : High(j) > Low(j) /\ High(j) - Low(j) >= size}
    IN  IF start <= end \/ size = 0 \/ fits = {} THEN NoGap ELSE High(Max(fits)) - size

\* find_gap_reverse: down from start to end, the top of the highest gap
FindGapReverse(t, size, start, end) ==
    LET s    == BtIter(t)
        Low(i)  == Larger(IF i = 0 THEN end ELSE s[i][2].end, end)
        High(i) == Smaller(IF i = Len(s) THEN start ELSE s[i + 1][1], start)
        fits == {j \in 0 .. Len(s) : High(j) > Low(j) /\ High(j) - Low(j) >= size}
    IN  IF start <= end \/ size = 0 \/ fits = {} THEN NoGap ELSE High(Max(fits)) - size

\* find, get_mut and contains: the range that has the point; lower_bound: the first from start on
MpFind(t, point)   == SelectSeq(BtIter(t), LAMBDA r : r[1] <= point /\ point < r[2].end)
MpLowerBound(t, p) == SelectSeq(BtIter(t), LAMBDA r : r[1] >= p)
TotalLength(t)     == FoldLeft(LAMBDA n, r : n + r[2].end - r[1], 0, BtIter(t))

----------------------------------------------------------------------------
\* The calls, and the plain map from the start of a range to the rest of it.

Clash(f, start, end) == \E p \in DOMAIN f : ~(end <= p \/ start >= f[p].end)
Range1(end, value)   == [end |-> end, value |-> value]

MpInsert(start, end, v) ==
    Call("maple", MpAdd(obj, start, end, v),
         IF start >= end \/ Clash(ref, start, end) THEN ref ELSE Updated(ref, start, Range1(end, v)))
MpRemove(start) == Call("maple", BtTake(obj, start), Without(ref, {start}))
\* an end that is not above the start is not given: the code would then drop the range
MpUpdateEnd(start, end) ==
    /\ kind = "maple" /\ start \in DOMAIN ref /\ end > start
    /\ Call("maple", UpdateEnd(obj, start, end),
            IF Clash(Without(ref, {start}), start, end) THEN ref ELSE [ref EXCEPT ![start].end = end])
MpReplace(start, end, v) ==
    Call("maple", Replace(obj, start, end, v),
         IF start >= end \/ Clash(Without(ref, {start}), start, end) THEN ref
         ELSE Updated(ref, start, Range1(end, v)))
MpMoveStart(start, new) ==
    LET rest == Without(ref, {start})
    IN  Call("maple", MoveStart(obj, start, new),
             IF start \notin DOMAIN ref \/ new >= ref[start].end \/ Clash(rest, new, ref[start].end) THEN ref
             ELSE Updated(rest, new, ref[start]))
MpOverwrite(start, end, v) ==
    Call("maple", InsertOverwrite(obj, start, end, v),
         IF start >= end THEN ref
         ELSE Updated(Without(ref, {p \in DOMAIN ref : ~(end <= p \/ start >= ref[p].end)}), start, Range1(end, v)))
MpRemoveIntersecting(start, end) ==
    Call("maple", MpTakeAll(obj, SelectSeq(BtIter(obj), LAMBDA r : Meets(r, start, end))),
         Without(ref, {p \in DOMAIN ref : ~(end <= p \/ start >= ref[p].end)}))
MpSplit(point) ==
    LET at == {p \in DOMAIN ref : p < point /\ point < ref[p].end}
    IN  Call("maple", SplitAt(obj, point),
             [p \in DOMAIN ref \cup {point : q \in at} |->
                IF p \in at THEN [ref[p] EXCEPT !.end = point]
                ELSE IF p = point THEN ref[IF at = {} THEN p ELSE Max(at)] ELSE ref[p]])
MpMerge ==
    LET Touches(p) == \E q \in DOMAIN ref : ref[q].end = p /\ ref[q].value = ref[p].value
        Closes(p)  == ~(ref[p].end \in DOMAIN ref /\ ref[ref[p].end].value = ref[p].value)
        RunEnd(p)  == Min({ref[q].end : q \in {r \in DOMAIN ref : r >= p /\ ref[r].value = ref[p].value /\ Closes(r)}})
    IN  Call("maple", MergeAdjacent(obj),
             [p \in {q \in DOMAIN ref : ~Touches(q)} |-> [ref[p] EXCEPT !.end = RunEnd(p)]])
MpPop == \E k \in {FirstIn(obj.root), LastIn(obj.root)} : ref # <<>> /\ Call("maple", BtTake(obj, k), Without(ref, {k}))

MpNext ==
    /\ kind = "maple"
    /\ \/ \E a, b \in Points, v \in MpValues : MpInsert(a, b, v) \/ MpReplace(a, b, v) \/ MpOverwrite(a, b, v)
       \/ \E a, b \in Points : MpUpdateEnd(a, b) \/ MpMoveStart(a, b) \/ MpRemoveIntersecting(a, b)
       \/ \E a \in Points : MpRemove(a) \/ MpSplit(a)
       \/ MpMerge \/ MpPop

----------------------------------------------------------------------------
\* Ranges are disjoint and not empty.
MpDisjoint(t) ==
    \A i, j \in DOMAIN BtIter(t) :
       /\ BtIter(t)[i][1] < BtIter(t)[i][2].end
       /\ i # j => ~Meets(BtIter(t)[i], BtIter(t)[j][1], BtIter(t)[j][2].end)

\* For a size that fits the window a gap is found whenever there is one, the
\* first from the bottom or from the top, and it is free.  For a larger size
\* find_gap answers nothing or the lower end of the window, when it is free from
\* there on; for no size does it answer anything that is taken.
MpAnswers(t, map) ==
    LET Free(g, size) == ~Clash(map, g, g + size)
        OrNoGap(S)    == IF S = {} THEN {NoGap} ELSE S
    IN  \A a, b \in Points :
           /\ \A size \in 0 .. Max(Points) :
                 LET gaps == {g \in a .. b - size : Free(g, size)}
                 IN  IF size \in 1 .. b - a
                     THEN /\ FindGap(t, size, a, b) = Min(OrNoGap(gaps))
                          /\ FindGapReverse(t, size, b, a) = Max(OrNoGap(gaps))
                     ELSE /\ FindGap(t, size, a, b) \in {NoGap} \cup {g \in {a} : Free(g, size)}
                          /\ FindGapReverse(t, size, b, a) = NoGap
           /\ {r[1] : r \in ToSet(MpFind(t, a))} = {p \in DOMAIN map : p <= a /\ a < map[p].end}
           /\ a = b => LET later == {p \in DOMAIN map : p >= a}
                           found == MpLowerBound(t, a)
                       IN  IF later = {} THEN found = <<>> ELSE found[1][1] = Min(later)
=============================================================================
