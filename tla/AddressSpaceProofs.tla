------------------------- MODULE AddressSpaceProofs -------------------------
(***************************************************************************)
(* The VMAs of an address space never overlap, for every layout, number of *)
(* processes and bound on the calls.                                       *)
(***************************************************************************)
EXTENDS AddressSpaces, TLAPS

TreeInv == TreeTypeOK /\ VmasDisjoint

\* Two VMAs do not overlap.
Apart(u, v) == u.end <= v.start \/ v.end <= u.start

\* A set of VMAs that can be a tree.
Tree(S) ==
    /\ S \subseteq Vma
    /\ \A u, v \in S : u.start < u.end /\ (u # v => Apart(u, v))

\* clone_vma_slice gives a VMA with the bounds it is asked for.
LEMMA SliceBounds ==
    ASSUME NEW v \in Vma, NEW a \in Int, NEW b \in Int, v.start <= a, a < b, b <= v.end
    PROVE  Slice(v, a, b) \in Vma /\ Slice(v, a, b).start = a /\ Slice(v, a, b).end = b
<1>1. /\ v.start \in Pages /\ v.end \in 1 .. NPages /\ v.pgoff \in Nat
      /\ NPages \in Nat
  BY Zenon, LayoutAssumption DEF Vma
<1>2. a \in Pages /\ b \in 1 .. NPages /\ v.pgoff + (a - v.start) \in Nat
  BY <1>1 DEF Pages
<1> QED BY Zenon, <1>2 DEF Slice, Vma

\* The invariant says that every address space is a tree.
LEMMA InvTree ==
    ASSUME TreeInv
    PROVE  \A m \in Mms : Tree(vmas[m])
BY Zenon DEF TreeInv, TreeTypeOK, VmasDisjoint, Tree, Apart

\* What munmap keeps of one VMA lies in it, outside the hole, and does not overlap.
LEMMA KeptPieces ==
    ASSUME NEW v \in Vma, v.start < v.end, NEW a \in Int, NEW b \in Int, a < b, v.start < b, a < v.end
    PROVE  /\ Kept(v, a, b) \subseteq Vma
           /\ \A u \in Kept(v, a, b) : /\ v.start <= u.start /\ u.end <= v.end /\ u.start < u.end
                                       /\ u.end <= a \/ b <= u.start
           /\ \A u, w \in Kept(v, a, b) : u # w => Apart(u, w)
<1>1. v.start \in Int /\ v.end \in Int
  BY LayoutAssumption DEF Vma, Pages
<1>2. ASSUME NEW u \in Left(v, a)
      PROVE  u \in Vma /\ u = Slice(v, v.start, a) /\ u.start = v.start /\ u.end = a /\ v.start < a
  BY <1>1, <1>2, SliceBounds DEF Left
<1>3. ASSUME NEW u \in Right(v, b)
      PROVE  u \in Vma /\ u = Slice(v, b, v.end) /\ u.start = b /\ u.end = v.end /\ b < v.end
  BY <1>1, <1>3, SliceBounds DEF Right
<1>4. ASSUME NEW u \in Kept(v, a, b), NEW w \in Kept(v, a, b), u # w
      PROVE  Apart(u, w)
  <2>1. CASE u \in Left(v, a) /\ w \in Left(v, a)
    BY Zenon, <2>1, <1>4, <1>2
  <2>2. CASE u \in Right(v, b) /\ w \in Right(v, b)
    BY Zenon, <2>2, <1>4, <1>3
  <2>3. CASE u \in Left(v, a) /\ w \in Right(v, b)
    BY <2>3, <1>2, <1>3 DEF Apart
  <2>4. CASE u \in Right(v, b) /\ w \in Left(v, a)
    BY <2>4, <1>2, <1>3 DEF Apart
  <2> QED BY Zenon, <2>1, <2>2, <2>3, <2>4 DEF Kept
<1>5. ASSUME NEW u \in Kept(v, a, b)
      PROVE  /\ u \in Vma
             /\ v.start <= u.start /\ u.end <= v.end /\ u.start < u.end
             /\ u.end <= a \/ b <= u.start
  <2>1. CASE u \in Left(v, a)
    BY <2>1, <1>1, <1>2
  <2>2. CASE u \in Right(v, b)
    BY <2>2, <1>1, <1>3
  <2> QED BY Zenon, <2>1, <2>2 DEF Kept
<1> QED BY Zenon, <1>4, <1>5

\* Pieces of the VMAs of a tree, each in its own VMA and apart from the other
\* pieces of it, make a tree again.
LEMMA PiecesTree ==
    ASSUME NEW S, Tree(S), NEW H \in SUBSET S, NEW piece \in [H -> SUBSET Vma],
           \A v \in H : /\ \A u \in piece[v] : v.start <= u.start /\ u.end <= v.end /\ u.start < u.end
                        /\ \A u, w \in piece[v] : u # w => Apart(u, w)
    PROVE  Tree((S \ H) \cup UNION {piece[v] : v \in H})
<1> DEFINE T == (S \ H) \cup UNION {piece[v] : v \in H}
<1>1. \A v \in Vma : v.start \in Int /\ v.end \in Int
  BY LayoutAssumption DEF Vma, Pages
\* Every element of the new tree lies in one of the old.
<1>2. ASSUME NEW u \in T
      PROVE  /\ u \in Vma /\ u.start < u.end
             /\ \E v \in S : /\ v.start <= u.start /\ u.end <= v.end
                             /\ (v \in H /\ u \in piece[v]) \/ (v \notin H /\ u = v)
  <2>1. CASE u \in S \ H
    <3>1. u \in Vma /\ u.start < u.end
      BY Zenon, <2>1 DEF Tree
    <3> QED BY <2>1, <3>1, <1>1
  <2>2. CASE \E v \in H : u \in piece[v]
    BY Zenon, <2>2
  <2> QED BY Zenon, <1>2, <2>1, <2>2
<1>3. ASSUME NEW u \in T, NEW w \in T, u # w
      PROVE  Apart(u, w)
  <2>1. PICK v \in S : /\ v.start <= u.start /\ u.end <= v.end
                       /\ (v \in H /\ u \in piece[v]) \/ (v \notin H /\ u = v)
    BY Zenon, <1>2
  <2>2. PICK x \in S : /\ x.start <= w.start /\ w.end <= x.end
                       /\ (x \in H /\ w \in piece[x]) \/ (x \notin H /\ w = x)
    BY Zenon, <1>2
  <2>3. CASE v = x
    BY Zenon, <2>1, <2>2, <2>3, <1>3
  <2>4. CASE v # x
    <3>1. v.end <= x.start \/ x.end <= v.start
      BY Zenon, <2>4 DEF Tree, Apart
    <3>2. {v, x, u, w} \subseteq Vma
      BY <1>2 DEF Tree
    <3> QED BY <3>1, <3>2, <2>1, <2>2, <1>1 DEF Apart
  <2> QED BY Zenon, <2>3, <2>4
<1>4. T \subseteq Vma /\ \A u \in T : u.start < u.end
  BY Zenon, <1>2
<1>5. Tree(T)
  BY Zenon, <1>3, <1>4 DEF Tree
<1> QED BY Zenon, <1>5

\* The bounds of a VMA are numbers.
LEMMA Bounds ==
    ASSUME NEW v \in Vma
    PROVE  v.start \in 0 .. NPages - 1 /\ v.end \in 1 .. NPages /\ NPages \in Nat
BY Zenon, LayoutAssumption DEF Vma, Pages

\* A VMA that overlaps no other can be inserted.
LEMMA InsertTree ==
    ASSUME NEW S, Tree(S), NEW n \in Vma, n.start < n.end, \A u \in S : Apart(u, n)
    PROVE  Tree(S \cup {n})
BY Zenon DEF Tree, Apart

\* munmap, and the first half of mmap with MAP_FIXED: the tree is cut, and nothing
\* is left in the hole.
LEMMA CutIsTree ==
    ASSUME TreeInv, NEW m \in Mms, NEW a \in Int, NEW b \in Int, a < b
    PROVE  /\ Tree(CutTree(m, a, b))
           /\ \A u \in CutTree(m, a, b) : u.end <= a \/ b <= u.start
<1> DEFINE H == Hit(m, a, b)
           piece == [v \in H |-> Kept(v, a, b)]
<1>1. Tree(vmas[m]) /\ H \in SUBSET vmas[m]
  BY Zenon, InvTree DEF Hit
<1>2. ASSUME NEW v \in H
      PROVE  /\ Kept(v, a, b) \subseteq Vma
             /\ \A u \in Kept(v, a, b) : /\ v.start <= u.start /\ u.end <= v.end /\ u.start < u.end
                                         /\ u.end <= a \/ b <= u.start
             /\ \A u, w \in Kept(v, a, b) : u # w => Apart(u, w)
  <2>1. v \in Vma /\ v.start < v.end /\ v.start < b /\ a < v.end
    BY Zenon, <1>1, <1>2 DEF Tree, Hit
  <2> QED BY Zenon, <2>1, KeptPieces
<1>3. piece \in [H -> SUBSET Vma]
  BY Zenon, <1>2
<1>4. CutTree(m, a, b) = (vmas[m] \ H) \cup UNION {piece[v] : v \in H}
  BY Zenon DEF CutTree
<1>5. Tree(CutTree(m, a, b))
  <2> HIDE DEF H
  <2>1. \A v \in H : /\ \A u \in piece[v] : v.start <= u.start /\ u.end <= v.end /\ u.start < u.end
                     /\ \A u, w \in piece[v] : u # w => Apart(u, w)
    BY Zenon, <1>2
  <2> HIDE DEF piece
  <2> QED BY <1>1, <1>3, <1>4, <2>1, PiecesTree
<1>6. ASSUME NEW u \in CutTree(m, a, b)
      PROVE  u.end <= a \/ b <= u.start
  <2>1. CASE u \in vmas[m] \ H
    <3>1. u \in Vma
      BY Zenon, <2>1, <1>1 DEF Tree
    <3> QED BY <2>1, <3>1, Bounds DEF Hit
  <2>2. CASE \E v \in H : u \in Kept(v, a, b)
    BY Zenon, <2>2, <1>2
  <2> QED BY Zenon, <1>6, <2>1, <2>2 DEF CutTree
<1> QED BY Zenon, <1>5, <1>6

\* A range with nothing in it can be mapped.
LEMMA CutAndInsert ==
    ASSUME TreeInv, NEW m \in Mms, NEW n \in Vma, n.start < n.end
    PROVE  Tree(CutTree(m, n.start, n.end) \cup {n})
<1>1. n.start \in Int /\ n.end \in Int
  BY Bounds
<1>2. /\ Tree(CutTree(m, n.start, n.end))
      /\ \A u \in CutTree(m, n.start, n.end) : u.end <= n.start \/ n.end <= u.start
  BY Zenon, <1>1, CutIsTree
<1>3. \A u \in CutTree(m, n.start, n.end) : Apart(u, n)
  BY Zenon, <1>2 DEF Apart
<1> QED BY Zenon, <1>2, <1>3, InsertTree

\* mprotect: the pieces of a VMA.
LEMMA ProtectedPieces ==
    ASSUME NEW v \in Vma, v.start < v.end, NEW a \in Int, NEW b \in Int, a < b, v.start < b, a < v.end,
           NEW prot \in SUBSET {"r", "w"}
    PROVE  /\ Protected(v, a, b, prot) \subseteq Vma
           /\ \A u \in Protected(v, a, b, prot) : v.start <= u.start /\ u.end <= v.end /\ u.start < u.end
           /\ \A u, w \in Protected(v, a, b, prot) : u # w => Apart(u, w)
<1> DEFINE lo  == IF v.start < a THEN a ELSE v.start
           hi  == IF b < v.end THEN b ELSE v.end
           mid == [Slice(v, lo, hi) EXCEPT !.prot = prot, !.may_write = @ \/ "w" \in prot]
<1>1. Protected(v, a, b, prot) = Kept(v, a, b) \cup {mid}
  BY Zenon DEF Protected, Kept
<1>2. v.start <= lo /\ lo < hi /\ hi <= v.end /\ lo \in Int /\ hi \in Int /\ a <= lo /\ hi <= b
  BY Bounds
<1>3. mid \in Vma /\ mid.start = lo /\ mid.end = hi
  <2> HIDE DEF lo, hi
  <2>1. Slice(v, lo, hi) \in Vma /\ Slice(v, lo, hi).start = lo /\ Slice(v, lo, hi).end = hi
    BY <1>2, SliceBounds
  <2> QED BY Zenon, <2>1 DEF Vma
<1>4. /\ Kept(v, a, b) \subseteq Vma
      /\ \A u \in Kept(v, a, b) : /\ v.start <= u.start /\ u.end <= v.end /\ u.start < u.end
                                  /\ u.end <= a \/ b <= u.start
      /\ \A u, w \in Kept(v, a, b) : u # w => Apart(u, w)
  BY Zenon, KeptPieces
<1>5. \A u \in Kept(v, a, b) : Apart(u, mid) /\ Apart(mid, u)
  <2> HIDE DEF lo, hi, mid
  <2> QED BY <1>2, <1>3, <1>4, Bounds DEF Apart
<1> HIDE DEF lo, hi, mid
<1> QED BY Zenon, <1>1, <1>2, <1>3, <1>4, <1>5

\* mprotect leaves a tree.
LEMMA ProtectTree ==
    ASSUME TreeInv, NEW m \in Mms, NEW a \in Int, NEW b \in Int, a < b, NEW prot \in SUBSET {"r", "w"}
    PROVE  Tree(ProtectedVmas(m, a, b, prot))
<1> DEFINE H == Hit(m, a, b)
           piece == [v \in H |-> Protected(v, a, b, prot)]
<1>1. Tree(vmas[m]) /\ H \in SUBSET vmas[m]
  BY Zenon, InvTree DEF Hit
<1>2. ASSUME NEW v \in H
      PROVE  /\ Protected(v, a, b, prot) \subseteq Vma
             /\ \A u \in Protected(v, a, b, prot) : v.start <= u.start /\ u.end <= v.end /\ u.start < u.end
             /\ \A u, w \in Protected(v, a, b, prot) : u # w => Apart(u, w)
  <2>1. v \in Vma /\ v.start < v.end /\ v.start < b /\ a < v.end
    BY Zenon, <1>1, <1>2 DEF Tree, Hit
  <2> QED BY Zenon, <2>1, ProtectedPieces
<1> HIDE DEF H
<1>3. piece \in [H -> SUBSET Vma]
  BY Zenon, <1>2
<1>4. \A v \in H : /\ \A u \in piece[v] : v.start <= u.start /\ u.end <= v.end /\ u.start < u.end
                   /\ \A u, w \in piece[v] : u # w => Apart(u, w)
  BY Zenon, <1>2
<1>5. UNION {Protected(v, a, b, prot) : v \in H} = UNION {piece[v] : v \in H}
  BY Zenon
<1> HIDE DEF piece
<1>6. Tree((vmas[m] \ H) \cup UNION {piece[v] : v \in H})
  BY <1>1, <1>3, <1>4, PiecesTree
<1> QED BY Zenon, <1>5, <1>6 DEF H, ProtectedVmas

\* A VMA of a tree can be replaced by one that overlaps no other.
LEMMA ReplaceTree ==
    ASSUME NEW S, Tree(S), NEW v \in S, NEW n \in Vma, n.start < n.end,
           \A u \in S \ {v} : Apart(u, n)
    PROVE  Tree((S \ {v}) \cup {n})
<1>1. Tree(S \ {v})
  BY Zenon DEF Tree
<1> QED BY Zenon, <1>1, InsertTree

\* Only one VMA of a tree holds a page.
LEMMA OneHolds ==
    ASSUME NEW S, Tree(S), NEW u \in S, NEW v \in S, NEW p \in Int,
           u.start <= p, p < u.end, v.start <= p, p < v.end
    PROVE  u = v
<1>1. u \in Vma /\ v \in Vma
  BY Zenon DEF Tree
<1> QED BY <1>1, Bounds DEF Tree, Apart

\* Stack growth extends the lowest VMA above the page down to it.
LEMMA FaultIsTree ==
    ASSUME TreeInv, NEW m \in Mms, NEW p \in Pages
    PROVE  Tree(FaultTree(m, p))
<1>1. Tree(vmas[m])
  BY Zenon, InvTree
<1>2. CASE Growing(m, p) = {}
  <2>1. FaultTree(m, p) = vmas[m]
    BY Zenon, <1>2 DEF FaultTree
  <2> QED BY Zenon, <1>1, <2>1
<1>3. CASE Growing(m, p) # {}
  <2>1. PICK v \in vmas[m] : v \in Growing(m, p)
    BY Zenon, <1>3 DEF Growing
  <2>2. /\ v \in Vma /\ v.start < v.end /\ p < v.start
        /\ \A u \in vmas[m] : u.start >= p => v.start <= u.start
        /\ \A u \in vmas[m] : p \notin Span(u)
    BY Zenon, <1>1, <2>1 DEF Growing, Find, Tree
  <2>3. ASSUME NEW u \in Growing(m, p)
        PROVE  u = v
    <3>1. u \in vmas[m] /\ u \in Vma /\ u.start < u.end /\ p < u.start
          /\ u.start <= v.start
      BY <2>3, <1>1, <2>2, Bounds DEF Growing, Tree, Pages
    <3>2. v.start <= u.start
      BY <3>1, <2>2, Bounds DEF Pages
    <3> QED BY <1>1, <2>2, <3>1, <3>2, OneHolds, Bounds
  <2> DEFINE n == [v EXCEPT !.start = p]
  <2>4. n \in Vma /\ n.start = p /\ n.end = v.end
    BY Zenon, <2>2 DEF Vma
  <2>5. n.start < n.end
    BY <2>2, <2>4, Bounds DEF Pages
  <2>6. ASSUME NEW u \in vmas[m] \ {v}
        PROVE  Apart(u, n)
    <3>1. u \in Vma /\ u.start < u.end /\ Apart(u, v)
      BY Zenon, <1>1 DEF Tree
    <3>2. CASE u.start >= p
      BY <3>1, <3>2, <2>2, <2>4, Bounds DEF Apart, Pages
    <3>3. CASE u.start < p
      <4>1. u.end <= p
        BY <3>1, <3>3, <2>2, Bounds DEF Span, Pages
      <4> QED BY Zenon, <4>1, <2>4 DEF Apart
    <3> QED BY <3>1, <3>2, <3>3, Bounds DEF Pages
  <2>7. FaultTree(m, p) = (vmas[m] \ {v}) \cup {n}
    BY Zenon, <2>1, <2>3 DEF FaultTree
  <2> HIDE DEF n
  <2> QED BY <1>1, <2>1, <2>4, <2>5, <2>6, <2>7, ReplaceTree
<1> QED BY Zenon, <1>2, <1>3

\* brk upwards extends the heap, or makes it, over pages that nothing holds.
LEMMA BrkGrowTree ==
    ASSUME TreeInv, NEW m \in Mms, NEW b \in 1 .. NPages, BrkGrow(m, b)
    PROVE  Tree(vmas'[m]) /\ \A n \in Mms \ {m} : vmas'[n] = vmas[n]
<1> DEFINE heap == {v \in Find(m, brk[m] - 1) : v.kind = "heap"}
<1>1. Tree(vmas[m])
  BY Zenon, InvTree
<1>2. /\ b > brk[m] /\ Hit(m, brk[m], b) = {}
      /\ vmas'[m] = (vmas[m] \ heap) \cup (IF heap = {} THEN {HeapVma(brk[m], b)}
                                           ELSE {[v EXCEPT !.end = b] : v \in heap})
      /\ \A n \in Mms \ {m} : vmas'[n] = vmas[n]
  BY Zenon DEF BrkGrow, TreeInv, TreeTypeOK
<1>3. brk[m] \in 0 .. NPages /\ NPages \in Nat
  BY Zenon, LayoutAssumption DEF TreeInv, TreeTypeOK
<1>4. \A u \in vmas[m] : u.end <= brk[m] \/ b <= u.start
  BY <1>1, <1>2, <1>3, Bounds DEF Hit, Tree
<1>5. CASE heap = {}
  <2>1. /\ HeapVma(brk[m], b) \in Vma
        /\ HeapVma(brk[m], b).start = brk[m] /\ HeapVma(brk[m], b).end = b
    BY <1>2, <1>3 DEF HeapVma, Vma, Pages, Kinds
  <2>2. \A u \in vmas[m] : Apart(u, HeapVma(brk[m], b))
    BY Zenon, <1>4, <2>1 DEF Apart
  <2>3. vmas'[m] = vmas[m] \cup {HeapVma(brk[m], b)}
    BY Zenon, <1>2, <1>5
  <2> QED BY <1>1, <1>2, <1>3, <2>1, <2>2, <2>3, InsertTree
<1>6. CASE heap # {}
  <2>1. PICK v \in heap : TRUE
    BY Zenon, <1>6
  <2>2. v \in vmas[m] /\ v \in Vma /\ v.start <= brk[m] - 1 /\ brk[m] - 1 < v.end
    BY <2>1, <1>1, <1>3, Bounds DEF Find, Span, Tree
  <2>3. ASSUME NEW u \in heap
        PROVE  u = v
    <3>1. u \in vmas[m] /\ u \in Vma /\ u.start <= brk[m] - 1 /\ brk[m] - 1 < u.end
      BY <2>3, <1>1, <1>3, Bounds DEF Find, Span, Tree
    <3> QED BY <1>1, <1>3, <2>2, <3>1, OneHolds
  <2> DEFINE n == [v EXCEPT !.end = b]
  <2>4. n \in Vma /\ n.start = v.start /\ n.end = b
    BY Zenon, <2>2 DEF Vma
  <2>5. n.start < n.end
    BY <2>2, <2>4, <1>2, <1>3, Bounds
  <2>6. ASSUME NEW u \in vmas[m] \ {v}
        PROVE  Apart(u, n)
    <3>1. u \in Vma /\ u.start < u.end /\ Apart(u, v)
      BY Zenon, <1>1, <2>2 DEF Tree
    <3> QED BY <3>1, <1>2, <1>3, <1>4, <2>2, <2>4, Bounds DEF Apart
  <2>7. vmas'[m] = (vmas[m] \ {v}) \cup {n}
    <3>1. heap = {v}
      BY Zenon, <2>1, <2>3
    <3> HIDE DEF heap
    <3> QED BY Zenon, <1>2, <3>1
  <2> HIDE DEF n
  <2> QED BY <1>1, <1>2, <2>2, <2>4, <2>5, <2>6, <2>7, ReplaceTree
<1> QED BY Zenon, <1>5, <1>6

\* brk downwards cuts the heap off at the new break.
LEMMA BrkShrinkTree ==
    ASSUME TreeInv, NEW m \in Mms, NEW b \in 1 .. NPages, BrkShrink(m, b)
    PROVE  Tree(vmas'[m]) /\ \A n \in Mms \ {m} : vmas'[n] = vmas[n]
<1> DEFINE heap == {v \in Find(m, b) : v.kind = "heap"}
           piece == [v \in heap |-> {[v EXCEPT !.end = b]}]
<1>1. Tree(vmas[m]) /\ heap \in SUBSET vmas[m]
  BY Zenon, InvTree DEF Find
<1>2. /\ \A v \in heap : v.start < b
      /\ vmas'[m] = (vmas[m] \ heap) \cup {[v EXCEPT !.end = b] : v \in heap}
      /\ \A n \in Mms \ {m} : vmas'[n] = vmas[n]
  BY Zenon DEF BrkShrink, TreeInv, TreeTypeOK
<1>3. ASSUME NEW v \in heap
      PROVE  /\ [v EXCEPT !.end = b] \in Vma
             /\ [v EXCEPT !.end = b].start = v.start /\ [v EXCEPT !.end = b].end = b
             /\ v.start < b /\ b <= v.end /\ v.start <= v.start
  <2>1. v \in Vma /\ b \in Span(v)
    BY Zenon, <1>1 DEF Find, Tree
  <2>2. v.start < b /\ b <= v.end /\ v.start <= v.start
    BY <2>1, <1>2, Bounds DEF Span
  <2> QED BY Zenon, <2>1, <2>2 DEF Vma
<1> HIDE DEF heap
<1>4. piece \in [heap -> SUBSET Vma]
  BY Zenon, <1>3
<1>5. \A v \in heap : /\ \A u \in piece[v] : v.start <= u.start /\ u.end <= v.end /\ u.start < u.end
                      /\ \A u, w \in piece[v] : u # w => Apart(u, w)
  BY Zenon, <1>3
<1>6. {[v EXCEPT !.end = b] : v \in heap} = UNION {piece[v] : v \in heap}
  BY Zenon
<1> HIDE DEF piece
<1>7. Tree((vmas[m] \ heap) \cup UNION {piece[v] : v \in heap})
  BY <1>1, <1>4, <1>5, PiecesTree
<1> QED BY Zenon, <1>2, <1>6, <1>7

\* What execve loads is a tree.
LEMMA LoadedTree == Tree({ImageVma, StackVma}) /\ Tree({})
BY LayoutAssumption DEF Tree, Apart, ImageVma, StackVma, Vma, Pages, Backings, Kinds

\* A step that leaves a tree in one address space, and the others alone.
LEMMA TreeStep ==
    ASSUME TreeInv, NEW m \in Mms, NEW T, Tree(T), vmas' = [vmas EXCEPT ![m] = T],
           brk' \in [Mms -> 0 .. NPages], next_id' \in 1 .. NBackings + 1
    PROVE  TreeInv'
<1>1. \A n \in Mms : Tree(vmas'[n])
  BY Zenon, InvTree DEF TreeInv, TreeTypeOK
<1>2. vmas' \in [Mms -> SUBSET Vma]
  BY Zenon DEF TreeInv, TreeTypeOK, Tree
<1> QED BY Zenon, <1>1, <1>2 DEF TreeInv, TreeTypeOK, VmasDisjoint, Tree, Apart

LEMMA TreeInit == Init => TreeInv
<1> SUFFICES ASSUME Init PROVE TreeInv
  BY Zenon
<1>1. \A m \in Mms : Tree(vmas[m])
  BY Zenon, LoadedTree DEF Init
<1>2. TreeTypeOK
  BY <1>1, LayoutAssumption DEF Init, TreeTypeOK, Tree
<1> QED BY Zenon, <1>1, <1>2 DEF TreeInv, VmasDisjoint, Tree, Apart

LEMMA TreeNext == TreeInv /\ [Next]_vars => TreeInv'
<1> SUFFICES ASSUME TreeInv, [Next]_vars PROVE TreeInv'
  BY Zenon
<1>t. /\ vmas \in [Mms -> SUBSET Vma] /\ brk \in [Mms -> 0 .. NPages] /\ next_id \in 1 .. NBackings + 1
      /\ NPages \in Nat /\ NBackings \in Nat
      /\ \A n \in Mms : Tree(vmas[n])
  BY Zenon, InvTree, LayoutAssumption DEF TreeInv, TreeTypeOK
<1>s. CASE UNCHANGED <<vmas, brk, next_id>>
  BY Zenon, <1>s DEF TreeInv, TreeTypeOK, VmasDisjoint
<1>1. ASSUME NEW m \in Mms, NEW p \in Pages, NEW write \in BOOLEAN, PageFault(m, p, write)
      PROVE  TreeInv'
  <2>1. vmas' = [vmas EXCEPT ![m] = FaultTree(m, p)] /\ brk' = brk /\ next_id' = next_id
    BY Zenon, <1>1 DEF PageFault
  <2> QED BY Zenon, <2>1, <1>t, FaultIsTree, TreeStep
<1>2. ASSUME NEW m \in Mms, NEW r \in Ranges, Munmap(m, r[1], r[2]) \/ MmapBadFd(m, r[1], r[2])
      PROVE  TreeInv'
  <2>1. vmas' = [vmas EXCEPT ![m] = CutTree(m, r[1], r[2])] /\ brk' = brk /\ next_id' = next_id
    BY Zenon, <1>2 DEF Munmap, MmapBadFd
  <2>2. r[1] \in Int /\ r[2] \in Int /\ r[1] < r[2]
    BY <1>t DEF Ranges, Pages
  <2>3. Tree(CutTree(m, r[1], r[2]))
    BY Zenon, <2>2, CutIsTree
  <2> QED BY Zenon, <2>1, <2>3, <1>t, TreeStep
<1>3. ASSUME NEW m \in Mms, NEW r \in Ranges, NEW x \in Mappings, NEW fixed \in BOOLEAN,
             Mmap(m, r[1], r[2], x.prot, x.kind, fixed)
      PROVE  TreeInv'
  <2> DEFINE id  == IF x.kind = "file" THEN next_id ELSE 0
             new == NewVma(r[1], r[2], x.prot, x.kind, id)
  <2>1. /\ id \in {0} \cup Backings
        /\ vmas' = [vmas EXCEPT ![m] = CutTree(m, r[1], r[2]) \cup {new}]
        /\ next_id' = IF id = 0 THEN next_id ELSE next_id + 1
        /\ brk' = brk
    BY Zenon, <1>3 DEF Mmap
  <2>2. r[1] \in Pages /\ r[2] \in 1 .. NPages /\ r[1] < r[2]
    BY Zenon DEF Ranges
  <2>3. new \in Vma /\ new.start = r[1] /\ new.end = r[2]
    BY <2>1, <2>2, ProtectionAssumption DEF NewVma, Vma, Kinds
  <2>4. Tree(CutTree(m, r[1], r[2]) \cup {new})
    <3> HIDE DEF new
    <3> QED BY Zenon, <2>2, <2>3, CutAndInsert
  <2>5. next_id' \in 1 .. NBackings + 1
    BY <2>1, <1>t DEF Backings
  <2> HIDE DEF new, id
  <2> QED BY Zenon, <2>1, <2>4, <2>5, <1>t, TreeStep
<1>4. ASSUME NEW m \in Mms, NEW r \in Ranges, NEW prot \in Prots, Mprotect(m, r[1], r[2], prot)
      PROVE  TreeInv'
  <2> DEFINE T == ProtectedVmas(m, r[1], r[2], prot)
  <2>1. vmas' = [vmas EXCEPT ![m] = T] /\ brk' = brk /\ next_id' = next_id
    BY Zenon, <1>4 DEF Mprotect
  <2>2. r[1] \in Int /\ r[2] \in Int /\ r[1] < r[2] /\ prot \in SUBSET {"r", "w"}
    BY <1>t, ProtectionAssumption DEF Ranges, Pages
  <2>3. Tree(T)
    BY Zenon, <2>2, ProtectTree
  <2> HIDE DEF T
  <2> QED BY Zenon, <2>1, <2>3, <1>t, TreeStep
<1>5. ASSUME NEW m \in Mms, NEW b \in 1 .. NPages, Brk(m, b)
      PROVE  TreeInv'
  <2>1. Tree(vmas'[m]) /\ \A n \in Mms \ {m} : vmas'[n] = vmas[n]
    BY Zenon, <1>5, BrkGrowTree, BrkShrinkTree DEF Brk
  <2>2. vmas' = [vmas EXCEPT ![m] = vmas'[m]]
    BY Zenon, <1>5, <1>t, <2>1 DEF Brk, BrkGrow, BrkShrink
  <2>3. brk' \in [Mms -> 0 .. NPages] /\ next_id' = next_id
    BY <1>5, <1>t DEF Brk
  <2> QED BY Zenon, <2>1, <2>2, <2>3, <1>t, TreeStep
<1>6. ASSUME NEW m \in Mms, NEW c \in Mms, Fork(m, c)
      PROVE  TreeInv'
  <2>1. /\ vmas' = [vmas EXCEPT ![c] = vmas[m]] /\ brk' = [brk EXCEPT ![c] = brk[m]]
        /\ next_id' = next_id
    BY Zenon, <1>6 DEF Fork
  <2>2. brk' \in [Mms -> 0 .. NPages]
    BY Zenon, <2>1, <1>t
  <2> QED BY Zenon, <2>1, <2>2, <1>t, TreeStep
<1>7. ASSUME NEW m \in Mms, Exec(m)
      PROVE  TreeInv'
  <2>1. /\ vmas' = [vmas EXCEPT ![m] = {ImageVma, StackVma}] /\ brk' = [brk EXCEPT ![m] = ImageEnd]
        /\ next_id' = next_id
    BY Zenon, <1>7 DEF Exec, InstallExecVmas
  <2>2. brk' \in [Mms -> 0 .. NPages]
    BY Zenon, <2>1, <1>t, LayoutAssumption
  <2> QED BY Zenon, <2>1, <2>2, <1>t, LoadedTree, TreeStep
<1>8. ASSUME NEW m \in Mms, Reap(m)
      PROVE  TreeInv'
  <2>1. vmas' = [vmas EXCEPT ![m] = {}] /\ brk' = brk /\ next_id' = next_id
    BY Zenon, <1>8 DEF Reap
  <2> QED BY Zenon, <2>1, <1>t, LoadedTree, TreeStep
<1>9. CASE UNCHANGED vars
  BY Zenon, <1>9, <1>s DEF vars
<1>10. CASE Next
  <2> HIDE DEF TreeInv
  <2>1. PICK m \in Mms :
          \/ \E p \in Pages, write \in BOOLEAN : PageFault(m, p, write)
          \/ \E r \in Ranges : Munmap(m, r[1], r[2]) \/ MmapBadFd(m, r[1], r[2])
          \/ \E r \in Ranges, x \in Mappings, fixed \in BOOLEAN : Mmap(m, r[1], r[2], x.prot, x.kind, fixed)
          \/ \E r \in Ranges, prot \in Prots : Mprotect(m, r[1], r[2], prot)
          \/ \E b \in 1 .. NPages : Brk(m, b)
          \/ \E c \in Mms : Fork(m, c)
          \/ Exec(m)
          \/ Reap(m)
          \/ \/ \E p \in Pages : Store(m, p)
             \/ \E q \in Pages : ForkFails(m, q)
             \/ ExecFails(m) \/ Exit(m) \/ Kill(m)
    BY <1>10, Zenon DEF Next
  <2>2. CASE \/ \E p \in Pages : Store(m, p)
             \/ \E q \in Pages : ForkFails(m, q)
             \/ ExecFails(m) \/ Exit(m) \/ Kill(m)
    <3>1. UNCHANGED <<vmas, brk, next_id>>
      BY Zenon, <2>2 DEF Store, ForkFails, ExecFails, Exit, Kill
    <3> QED BY <3>1, <1>s, Zenon
  <2>3. CASE \E p \in Pages, write \in BOOLEAN : PageFault(m, p, write)
    BY Zenon, <2>3, <1>1
  <2>4. CASE \E r \in Ranges, x \in Mappings, fixed \in BOOLEAN : Mmap(m, r[1], r[2], x.prot, x.kind, fixed)
    BY Zenon, <2>4, <1>3
  <2>5. CASE \E r \in Ranges, prot \in Prots : Mprotect(m, r[1], r[2], prot)
    BY Zenon, <2>5, <1>4
  <2> QED BY <2>1, <2>2, <2>3, <2>4, <2>5, <1>2, <1>5, <1>6, <1>7, <1>8, Zenon
<1> QED BY Zenon, <1>9, <1>10

\* No sequence of faults and memory calls makes two VMAs of a process overlap: the
\* tree that find_vma, munmap and fork walk stays a set of disjoint ranges.
THEOREM VmasStayDisjoint == Spec => []VmasDisjoint
<1>1. TreeInv => VmasDisjoint
  BY Zenon DEF TreeInv
<1> QED BY <1>1, TreeInit, TreeNext, PTL DEF Spec
=============================================================================
