------------------------------- MODULE Buffers -------------------------------
(***************************************************************************)
(* ring_buffer (and kfifo, which only wraps it), bitmap and id_allocator   *)
(* of kernel/src/libs.  WordBits stands for the 64 bits of a word; a word  *)
(* is the set of its bits.  Slots and bits count from 0.                   *)
(***************************************************************************)
EXTENDS Structures, SequencesExt

CONSTANTS RingSize, RingValues, Empty,      \* Empty is the None of a slot
          WordBits, NBits, Base             \* a bitmap of NBits bits; the first id

----------------------------------------------------------------------------
RingInit == [slots |-> [i \in 0 .. RingSize - 1 |-> Empty], read |-> 0, write |-> 0, len |-> 0]

\* push answers Full and pop None without a change
Push(r, v) == IF r.len = RingSize THEN r
              ELSE [r EXCEPT !.slots[r.write] = v, !.write = (@ + 1) % RingSize, !.len = @ + 1]
Pop(r)     == IF r.len = 0 THEN r
              ELSE [r EXCEPT !.slots[r.read] = Empty, !.read = (@ + 1) % RingSize, !.len = @ - 1]
PopBack(r) == IF r.len = 0 THEN r
              ELSE LET w == (r.write + RingSize - 1) % RingSize
                   IN  [r EXCEPT !.slots[w] = Empty, !.write = w, !.len = @ - 1]
PushOverwrite(r, v) == Push(IF r.len = RingSize THEN Pop(r) ELSE r, v)
WriteSlice(r, s) == FoldLeft(Push, r, s)
ReadSlice(r, n)  == FoldLeft(LAMBDA q, i : Pop(q), r, [i \in 1 .. n |-> i])
RingClear(r)     == [ReadSlice(r, RingSize) EXCEPT !.read = 0, !.write = 0]

\* as_slices: the occupied slots in two runs
AsSlices(r) ==
    LET n == IF r.len < RingSize - r.read THEN r.len ELSE RingSize - r.read
    IN  [i \in 1 .. n |-> r.slots[r.read + i - 1]] \o [i \in 1 .. r.len - n |-> r.slots[i - 1]]

Room(s, t) == SubSeq(s \o t, 1, IF Len(s \o t) < RingSize THEN Len(s \o t) ELSE RingSize)
RingNext ==
    /\ kind = "ring"
    /\ \/ \E v \in RingValues : \/ Call("ring", Push(obj, v), Room(ref, <<v>>))
                                \/ Call("ring", PushOverwrite(obj, v),
                                        IF Len(ref) = RingSize THEN Append(Tail(ref), v) ELSE Append(ref, v))
       \/ Call("ring", Pop(obj), IF ref = <<>> THEN ref ELSE Tail(ref))
       \/ Call("ring", PopBack(obj), IF ref = <<>> THEN ref ELSE Front(ref))
       \/ Call("ring", RingClear(obj), <<>>)
       \/ \E v, w \in RingValues : Call("ring", WriteSlice(obj, <<v, w>>), Room(ref, <<v, w>>))
       \/ Call("ring", ReadSlice(obj, 2), SubSeq(ref, 3, Len(ref)))

\* The free slots are empty, so nothing that was popped is kept alive.
RingTidy(r) == Cardinality({i \in DOMAIN r.slots : r.slots[i] # Empty}) = r.len

----------------------------------------------------------------------------
Words   == (NBits + WordBits - 1) \div WordBits
AllBits == 0 .. WordBits - 1
BitmapInit == [w \in 0 .. Words - 1 |-> {}]

Test(b, i)     == i < NBits /\ i % WordBits \in b[i \div WordBits]
SetBit(b, i)   == IF i >= NBits THEN b ELSE [b EXCEPT ![i \div WordBits] = @ \cup {i % WordBits}]
ClearBit(b, i) == IF i >= NBits THEN b ELSE [b EXCEPT ![i \div WordBits] = @ \ {i % WordBits}]
ValidRange(start, len) == len # 0 /\ start < NBits /\ start + len <= NBits
Span(start, len) == start .. start + len - 1
SetRange(b, start, len)   == IF ValidRange(start, len) THEN FoldSet(LAMBDA i, c : SetBit(c, i), b, Span(start, len)) ELSE b
ClearRange(b, start, len) == IF ValidRange(start, len) THEN FoldSet(LAMBDA i, c : ClearBit(c, i), b, Span(start, len)) ELSE b
\* set_all fills the words and masks the bits past the end
SetAll == [w \in 0 .. Words - 1 |-> {i \in AllBits : w * WordBits + i < NBits}]

NoBit == -1
FirstOf(S) == IF S = {} THEN NoBit ELSE Min(S)
\* the words are scanned for one that is not zero, or not all ones; a bit past the end is passed over
FindFirstSet(b)  == FirstOf({w * WordBits + Min(b[w]) : w \in {v \in DOMAIN b : b[v] # {}}} \cap 0 .. NBits - 1)
FindFirstZero(b) == FirstOf({w * WordBits + Min(AllBits \ b[w]) : w \in {v \in DOMAIN b : b[v] # AllBits}} \cap 0 .. NBits - 1)
FindNextSet(b, from)  == FirstOf({i \in from .. NBits - 1 : Test(b, i)})
FindNextZero(b, from) == FirstOf({i \in from .. NBits - 1 : ~Test(b, i)})
TestAllSet(b, start, len)   == ValidRange(start, len) /\ \A i \in Span(start, len) : Test(b, i)
TestAllClear(b, start, len) == ValidRange(start, len) /\ \A i \in Span(start, len) : ~Test(b, i)
CountOnes(b) == FoldFunction(LAMBDA w, n : n + Cardinality(w), 0, b)

\* find_contiguous_zeros_from and IdAllocator::alloc_range: count a run of zeros
RECURSIVE ZeroRun(_, _, _, _, _)
ZeroRun(b, i, len, run, start) ==
    LET first == IF run = 0 THEN i ELSE start
    IN  IF i >= NBits THEN NoBit
        ELSE IF Test(b, i) THEN ZeroRun(b, i + 1, len, 0, start)
        ELSE IF run + 1 = len THEN first ELSE ZeroRun(b, i + 1, len, run + 1, first)
FindContiguousZeros(b, from, len) == IF len = 0 THEN NoBit ELSE ZeroRun(b, from, len, 0, from)

\* IdAllocator: ids are bits from base on
IndexOf(id)  == IF id < Base \/ id - Base >= NBits THEN NoBit ELSE id - Base
Ids          == 0 .. Base + NBits
Alloc        == LET i == FindFirstZero(obj)
                    free == {id \in Base .. Base + NBits - 1 : id \notin ref}
                IN  Call("ids", IF i = NoBit THEN obj ELSE SetBit(obj, i), IF free = {} THEN ref ELSE ref \cup {Min(free)})
AllocSpecific(id) ==
    Call("ids", IF IndexOf(id) = NoBit \/ Test(obj, IndexOf(id)) THEN obj ELSE SetBit(obj, IndexOf(id)),
         ref \cup ({id} \cap Base .. Base + NBits - 1))
Free(id)     == Call("ids", IF IndexOf(id) = NoBit \/ ~Test(obj, IndexOf(id)) THEN obj ELSE ClearBit(obj, IndexOf(id)),
                     ref \ {id})
AllocRange(n) ==
    LET start == IF n = 0 \/ n > NBits THEN NoBit ELSE FindContiguousZeros(obj, 0, n)
        fits  == {id \in Base .. Base + NBits - n : n > 0 /\ Span(id, n) \cap ref = {}}
    IN  Call("ids", IF start = NoBit THEN obj ELSE SetRange(obj, start, n),
             IF fits = {} THEN ref ELSE ref \cup Span(Min(fits), n))
FreeRange(id, n) ==
    LET ok == IndexOf(id) # NoBit /\ TestAllSet(obj, IndexOf(id), n)
    IN  Call("ids", IF ok THEN ClearRange(obj, IndexOf(id), n) ELSE obj, IF Span(id, n) \subseteq ref THEN ref \ Span(id, n) ELSE ref)
IdsNext ==
    /\ kind = "ids"
    /\ \/ Alloc
       \/ \E id \in Ids : AllocSpecific(id) \/ Free(id)
       \/ \E n \in 0 .. NBits + 1 : AllocRange(n) \/ \E id \in Ids : FreeRange(id, n)
       \/ Call("ids", BitmapInit, {})
       \/ Call("ids", SetAll, Base .. Base + NBits - 1)

IdsContents(b) == {Base + i : i \in {j \in 0 .. NBits - 1 : Test(b, j)}}
IdsAnswers(b, ids) ==
    LET on == {id - Base : id \in ids}
        off == (0 .. NBits - 1) \ on
    IN  /\ FindFirstSet(b) = FirstOf(on) /\ FindFirstZero(b) = FirstOf(off) /\ CountOnes(b) = Cardinality(on)
        /\ \A i \in 0 .. NBits - 1, n \in 1 .. NBits :
              /\ FindNextSet(b, i) = FirstOf({j \in on : j >= i}) /\ FindNextZero(b, i) = FirstOf({j \in off : j >= i})
              /\ TestAllClear(b, i, n) <=> Span(i, n) \subseteq off
              /\ FindContiguousZeros(b, i, n) = FirstOf({j \in i .. NBits - n : Span(j, n) \subseteq off})
=============================================================================
