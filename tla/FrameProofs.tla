----------------------------- MODULE FrameProofs -----------------------------
(***************************************************************************)
(* The reference counts of frames, for any number of processes, of frames  *)
(* and of calls: a frame has one reference for every entry that maps it.   *)
(* This is about processes without recorded program images, as every fork  *)
(* makes them; with a recorded image a frame can be freed while it is      *)
(* mapped.                                                                 *)
(***************************************************************************)
EXTENDS AddressSpaceProofs, FiniteSetTheorems

\* No program image is recorded, and none will be.
Unrecorded == ~ budget.recorded /\ budget.exec = 0

\* Bounds on the calls, of which none is left for execve.
BudgetInv ==
    /\ budget \in [fork : Int, mmap : Int, fixed : Int, unmap : Int, protect : Int, brk : Int,
                   exec : Int, kill : Int, recorded : BOOLEAN]
    /\ Unrecorded

\* A process that was not forked yet maps nothing.
UnbornInv ==
    /\ phase \in [Mms -> {"none", "live", "zombie", "reaped"}]
    /\ \A m \in Mms : phase[m] = "none" => pte[m] = Empty

RefInv ==
    /\ pte \in [Mms -> [Pages -> Entry]]
    /\ ref \in [Frames -> Nat]
    /\ \A f \in Frames : ref[f] = Cardinality(Mappers(f))

FrameInv ==
    /\ TreeInv /\ BudgetInv /\ UnbornInv /\ RefInv
    /\ image = [m \in Mms |-> {}]

-----------------------------------------------------------------------------
(* Counting. *)

LEMMA MaxZero == \A n \in Int : Max({0, n}) = IF n > 0 THEN n ELSE 0
<1> SUFFICES ASSUME NEW n \in Int PROVE Max({0, n}) = IF n > 0 THEN n ELSE 0
  BY Zenon
<1>1. CASE n > 0
  <2>1. \A x \in {0, n} : (\A y \in {0, n} : x >= y) <=> x = n
    BY <1>1
  <2>. QED BY Zenon, <1>1, <2>1 DEF Max
<1>2. CASE ~ (n > 0)
  <2>1. \A x \in {0, n} : (\A y \in {0, n} : x >= y) <=> x = 0
    BY <1>2
  <2>. QED BY <1>2, <2>1 DEF Max
<1>. QED BY Zenon, <1>1, <1>2

LEMMA EntriesFinite == \A S \in SUBSET (Mms \X Pages) : IsFiniteSet(S) /\ Cardinality(S) \in Nat
<1>1. IsFiniteSet(Pages)
  BY LayoutAssumption, FS_Interval DEF Pages
<1>2. IsFiniteSet(Mms \X Pages)
  BY Zenon, <1>1, BudgetAssumption, FS_Product
<1>. QED BY Zenon, <1>2, FS_Subset, FS_CardinalityType

\* The entries of one address space are as many as their pages.
LEMMA PagesCount ==
    ASSUME NEW m \in Mms, NEW R \in SUBSET Pages
    PROVE  Cardinality({m} \X R) = Cardinality(R) /\ Cardinality(R) \in Nat
<1>1. IsFiniteSet(Pages)
  BY LayoutAssumption, FS_Interval DEF Pages
<1>2. IsFiniteSet(R) /\ Cardinality(R) \in Nat
  BY Zenon, <1>1, FS_Subset, FS_CardinalityType
<1>3. IsFiniteSet({m}) /\ Cardinality({m}) = 1
  BY Zenon, FS_Singleton
<1>4. Cardinality({m} \X R) = 1 * Cardinality(R)
  BY ZenonT(60), <1>2, <1>3, FS_Product
<1>. QED BY <1>2, <1>4

\* Entries that go, and entries that are added.
LEMMA CountedOut ==
    ASSUME NEW M \in SUBSET (Mms \X Pages), NEW D \in SUBSET M
    PROVE  /\ Cardinality(M \ D) = Cardinality(M) - Cardinality(D)
           /\ Cardinality(M) - Cardinality(D) \in Nat
<1>1. M \ D \in SUBSET (Mms \X Pages) /\ M \cap D = D
  BY Zenon
<1>2. IsFiniteSet(M) /\ Cardinality(M \ D) \in Nat
  BY Zenon, <1>1, EntriesFinite
<1>3. Cardinality(M \ D) = Cardinality(M) - Cardinality(M \cap D)
  BY Zenon, <1>2, FS_Difference
<1>. QED BY Zenon, <1>1, <1>2, <1>3

LEMMA CountedIn ==
    ASSUME NEW M \in SUBSET (Mms \X Pages), NEW A \in SUBSET (Mms \X Pages), M \cap A = {}
    PROVE  Cardinality(M \cup A) = Cardinality(M) + Cardinality(A) /\ Cardinality(M \cup A) \in Nat
<1>1. /\ IsFiniteSet(M) /\ IsFiniteSet(A) /\ Cardinality(M) \in Nat /\ Cardinality(A) \in Nat
      /\ Cardinality({}) = 0
  BY Zenon, EntriesFinite, FS_EmptySet
<1>2. Cardinality(M \cup A) = Cardinality(M) + Cardinality(A) - Cardinality(M \cap A)
  BY Zenon, <1>1, FS_Union
<1>. QED BY <1>1, <1>2

\* Only the frames of the entries matter.
LEMMA SameFrames ==
    ASSUME RefInv, pte' \in [Mms -> [Pages -> Entry]], UNCHANGED ref,
           \A m \in Mms, p \in Pages : pte'[m][p].frame = pte[m][p].frame
    PROVE  RefInv'
<1>1. \A f \in Frames : Mappers(f)' = Mappers(f)
  BY Zenon DEF Mappers
<1>. QED BY Zenon, <1>1 DEF RefInv

-----------------------------------------------------------------------------
(* The steps that change references. *)

\* unmap_and_release: the entries of the pages ps of m go, and with each its reference.
LEMMA UnmapStep ==
    ASSUME RefInv, NEW m \in Mms, NEW ps \in SUBSET Pages,
           pte' \in [Mms -> [Pages -> Entry]],
           \A n \in Mms, p \in Pages :
               pte'[n][p] = IF n = m /\ p \in ps THEN NoEntry ELSE pte[n][p],
           ref' = Put([p \in ps |-> pte[m][p].frame])
    PROVE  RefInv'
<1>1. ASSUME NEW f \in Frames
      PROVE  ref'[f] = Cardinality(Mappers(f)') /\ ref'[f] \in Nat
  <2> DEFINE R == {p \in ps : pte[m][p].frame = f}
             F == [p \in ps |-> pte[m][p].frame]
             D == {m} \X R
  <2>1. {c \in DOMAIN F : F[c] = f} = R
    BY Zenon
  <2>2. ref'[f] = Max({0, ref[f] - Cardinality(R)})
    BY Zenon, <2>1 DEF Put
  <2>3. D \in SUBSET Mappers(f)
    BY Zenon DEF Mappers
  <2>4. Mappers(f)' = Mappers(f) \ D /\ Mappers(f) \in SUBSET (Mms \X Pages)
    BY LayoutAssumption DEF Mappers, NoEntry
  <2>5. R \in SUBSET Pages
    BY Zenon
  <2> HIDE DEF R, D
  <2>6. Cardinality(D) = Cardinality(R) /\ Cardinality(R) \in Nat
    BY Zenon, <2>5, PagesCount DEF D
  <2>7. /\ Cardinality(Mappers(f)') = ref[f] - Cardinality(D)
        /\ ref[f] - Cardinality(D) \in Nat
    <3>1. /\ Cardinality(Mappers(f) \ D) = Cardinality(Mappers(f)) - Cardinality(D)
          /\ Cardinality(Mappers(f)) - Cardinality(D) \in Nat
      BY Zenon, <2>3, <2>4, CountedOut
    <3>. QED BY Zenon, <2>4, <3>1 DEF RefInv
  <2>8. Max({0, ref[f] - Cardinality(R)}) = ref[f] - Cardinality(R)
    BY <2>6, <2>7, MaxZero
  <2>. QED BY ZenonT(60), <2>2, <2>6, <2>7, <2>8
<1>2. ref' \in [Frames -> Nat]
  BY Zenon, <1>1 DEF Put
<1>. QED BY Zenon, <1>1, <1>2 DEF RefInv

\* A page of m gets the free frame g, in the place of nothing or of frame f.
LEMMA MapStep ==
    ASSUME RefInv, NEW m \in Mms, NEW p \in Pages, NEW g \in Free, NEW w \in BOOLEAN,
           pte' = [pte EXCEPT ![m][p] = [frame |-> g, w |-> w]],
           \/ ~ Present(m, p) /\ ref' = [ref EXCEPT ![g] = 1]
           \/ Present(m, p) /\ ref' = [ref EXCEPT ![g] = 1, ![pte[m][p].frame] = Max({0, @ - 1})]
    PROVE  RefInv'
<1> DEFINE e == <<m, p>>
<1>1. g \in Frames /\ ref[g] = 0 /\ pte \in [Mms -> [Pages -> Entry]] /\ ref \in [Frames -> Nat]
  BY Zenon DEF Free, RefInv
<1>2. /\ pte' \in [Mms -> [Pages -> Entry]]
      /\ pte'[m][p] = [frame |-> g, w |-> w]
      /\ \A n \in Mms, q \in Pages : <<n, q>> # e => pte'[n][q] = pte[n][q]
  BY ZenonT(60), <1>1 DEF Entry
<1>3. Mappers(g) = {}
  <2>1. Cardinality(Mappers(g)) = 0
    BY Zenon, <1>1 DEF RefInv
  <2>2. Mappers(g) \in SUBSET (Mms \X Pages)
    BY Zenon DEF Mappers
  <2>3. IsFiniteSet(Mappers(g))
    BY ZenonT(60), <2>2, EntriesFinite
  <2>. QED BY Zenon, <2>1, <2>3, FS_EmptySet
<1>4. \A f \in Frames : f # g => Mappers(f)' = Mappers(f) \ {e}
  BY SMTT(30), <1>1, <1>2 DEF Mappers
<1>5. Mappers(g)' = {e}
  BY SMTT(30), <1>1, <1>2, <1>3 DEF Mappers
<1>6. Cardinality(Mappers(g)') = 1
  BY Zenon, <1>5, FS_Singleton
<1>7. CASE ~ Present(m, p)
  <2>1. \A f \in Frames : f # g => Mappers(f)' = Mappers(f)
    BY <1>4, <1>7, LayoutAssumption DEF Mappers, Present
  <2>2. ref' = [ref EXCEPT ![g] = 1]
    BY Zenon, <1>7
  <2>3. \A f \in Frames : ref'[f] = Cardinality(Mappers(f)')
    BY Zenon, <1>1, <1>6, <2>1, <2>2 DEF RefInv
  <2>. QED BY ZenonT(60), <1>1, <1>2, <2>2, <2>3 DEF RefInv
<1>8. CASE Present(m, p)
  <2>0. PICK f \in Frames : f = pte[m][p].frame
    BY SMTT(30), <1>1, <1>8 DEF Present, Entry
  <2>1. e \in Mappers(f) /\ Mappers(f) \in SUBSET (Mms \X Pages)
    BY Zenon, <2>0 DEF Mappers
  <2>2. f # g
    BY Zenon, <1>3, <2>1
  <2>3. ref' = [ref EXCEPT ![g] = 1, ![f] = Max({0, ref[f] - 1})]
    BY Zenon, <1>8, <2>0, <2>2
  <2>4. Cardinality(Mappers(f)') = ref[f] - 1 /\ ref[f] - 1 \in Nat
    <3>1. {e} \in SUBSET Mappers(f) /\ Mappers(f)' = Mappers(f) \ {e}
      BY Zenon, <1>4, <2>1, <2>2
    <3>2. Cardinality({e}) = 1
      BY Zenon, FS_Singleton
    <3>3. /\ Cardinality(Mappers(f) \ {e}) = Cardinality(Mappers(f)) - Cardinality({e})
          /\ Cardinality(Mappers(f)) - Cardinality({e}) \in Nat
      BY Zenon, <2>1, <3>1, CountedOut
    <3>. QED BY Zenon, <3>1, <3>2, <3>3 DEF RefInv
  <2>5. Max({0, ref[f] - 1}) = ref[f] - 1
    BY <2>4, MaxZero
  <2>6. \A h \in Frames : h # f /\ h # g => Mappers(h)' = Mappers(h)
    BY <1>4, <2>0 DEF Mappers
  <2>7. ref' \in [Frames -> Nat]
    BY ZenonT(60), <1>1, <2>1, <2>2, <2>3, <2>4, <2>5
  <2>8. ASSUME NEW h \in Frames PROVE ref'[h] = Cardinality(Mappers(h)')
    <3>1. CASE h = g
      BY Zenon, <1>1, <1>6, <2>2, <2>3, <3>1
    <3>2. CASE h = f
      BY Zenon, <1>1, <2>2, <2>3, <2>4, <2>5, <3>2
    <3>3. CASE h # f /\ h # g
      BY Zenon, <1>1, <2>3, <2>6, <3>3 DEF RefInv
    <3>. QED BY Zenon, <3>1, <3>2, <3>3
  <2>. QED BY Zenon, <1>2, <2>7, <2>8 DEF RefInv
<1>. QED BY Zenon, <1>7, <1>8

\* Those of the pages ps at which m maps f.
Cloned(m, ps, f) == {p \in ps : pte[m][p].frame = f}

\* clone_user_present_pages: process c, which maps nothing yet, gets the pages ps of m,
\* and every frame a reference for each.
LEMMA CloneStep ==
    ASSUME RefInv, NEW m \in Mms, NEW c \in Mms, pte[c] = Empty, NEW ps \in SUBSET Pages,
           pte' \in [Mms -> [Pages -> Entry]],
           \A p \in ps : pte'[c][p].frame = pte[m][p].frame,
           \A p \in Pages \ ps : pte'[c][p].frame = NoFrame,
           \A n \in Mms \ {c}, p \in Pages : pte'[n][p].frame = pte[n][p].frame,
           ref' = [f \in Frames |-> ref[f] + Cardinality(Cloned(m, ps, f))]
    PROVE  RefInv'
<1>1. ASSUME NEW f \in Frames
      PROVE  ref'[f] = Cardinality(Mappers(f)') /\ ref'[f] \in Nat
  <2> DEFINE R == Cloned(m, ps, f)
             A == {c} \X R
  <2>1. ref'[f] = ref[f] + Cardinality(R)
    BY Zenon
  <2> USE DEF Cloned
  <2>2. \A p \in Pages : pte[c][p].frame # f
    BY LayoutAssumption DEF Empty, NoEntry
  <2>3. /\ Mappers(f) \in SUBSET (Mms \X Pages) /\ A \in SUBSET (Mms \X Pages)
        /\ Mappers(f) \cap A = {}
    BY <2>2 DEF Mappers
  <2>4. Mappers(f)' = Mappers(f) \cup A
    BY <2>2, LayoutAssumption DEF Mappers
  <2>5. R \in SUBSET Pages
    BY Zenon
  <2> HIDE DEF R, A
  <2>6. Cardinality(A) = Cardinality(R) /\ Cardinality(R) \in Nat
    BY Zenon, <2>5, PagesCount DEF A
  <2>7. Cardinality(Mappers(f) \cup A) = Cardinality(Mappers(f)) + Cardinality(A)
    BY Zenon, <2>3, CountedIn
  <2>. QED BY <2>1, <2>4, <2>6, <2>7 DEF RefInv
<1>2. ref' \in [Frames -> Nat]
  BY Zenon, <1>1
<1>. QED BY Zenon, <1>1, <1>2 DEF RefInv

-----------------------------------------------------------------------------
(* Every step. *)

LEMMA SpendStep ==
    ASSUME BudgetInv, NEW kind \in {"fork", "mmap", "fixed", "unmap", "protect", "brk", "kill"},
           Spend(kind)
    PROVE  BudgetInv'
BY DEF BudgetInv, Unrecorded, Spend

\* The call for which no budget is left is never made.
LEMMA NoExec == BudgetInv => ~ Spend("exec")
BY DEF BudgetInv, Unrecorded, Spend

\* The pages of the VMAs are pages of the address space.
LEMMA CoveredPages == TreeInv => \A m \in Mms : Covered(m) \in SUBSET Pages
<1> SUFFICES ASSUME TreeInv, NEW m \in Mms, NEW p \in Covered(m) PROVE p \in Pages
  BY Zenon
<1>1. PICK v \in vmas[m] : p \in Span(v)
  BY Zenon DEF Covered
<1>2. v \in Vma
  BY Zenon DEF TreeInv, TreeTypeOK
<1>3. v.start \in Pages /\ v.end \in 1 .. NPages /\ NPages \in Nat
  BY Zenon, <1>2, LayoutAssumption DEF Vma
<1>. QED BY <1>1, <1>3 DEF Span, Pages

\* Only the flags of an entry change.
LEMMA Rewritten ==
    \A e \in Entry, w \in BOOLEAN : [e EXCEPT !.w = w] \in Entry /\ [e EXCEPT !.w = w].frame = e.frame
BY Zenon DEF Entry

\* A page fault, of a page that is not present or of one that is write-protected.
LEMMA FaultStep ==
    ASSUME FrameInv, NEW m \in Mms, NEW p \in Pages, NEW write \in BOOLEAN, PageFault(m, p, write)
    PROVE  RefInv' /\ \A n \in Mms \ {m} : pte'[n] = pte[n]
<1> USE DEF FrameInv
<1>1. PICK v : IF Present(m, p) THEN WriteProtected(m, p, v) ELSE NotPresent(m, p, v)
  BY Zenon DEF PageFault
<1>2. ("w" \in v.prot) \in BOOLEAN /\ pte \in [Mms -> [Pages -> Entry]]
  BY DEF RefInv
<1>3. CASE ~ Present(m, p)
  <2>1. PICK f \in Free : /\ pte' = [pte EXCEPT ![m][p] = [frame |-> f, w |-> "w" \in v.prot]]
                          /\ ref' = [ref EXCEPT ![f] = 1]
    BY Zenon, <1>1, <1>3 DEF NotPresent
  <2>2. RefInv'
    BY Zenon, <1>2, <1>3, <2>1, MapStep
  <2>. QED BY Zenon, <1>2, <2>1, <2>2
<1>4. CASE Present(m, p)
  <2>1. CASE ref[pte[m][p].frame] = 1 /\ pte' = [pte EXCEPT ![m][p].w = "w" \in v.prot] /\ UNCHANGED ref
    <3>1. /\ pte' \in [Mms -> [Pages -> Entry]]
          /\ \A n \in Mms, q \in Pages : pte'[n][q].frame = pte[n][q].frame
          /\ \A n \in Mms \ {m} : pte'[n] = pte[n]
      <4>1. PICK w \in BOOLEAN : w = ("w" \in v.prot)
        BY Zenon, <1>2
      <4>2. PICK e \in Entry : e = [pte[m][p] EXCEPT !.w = w] /\ e.frame = pte[m][p].frame
        BY ZenonT(60), <1>2, Rewritten
      <4>3. pte' = [pte EXCEPT ![m] = [pte[m] EXCEPT ![p] = e]]
        BY Zenon, <1>2, <2>1, <4>1, <4>2
      <4>. QED BY Zenon, <1>2, <4>2, <4>3
    <3>. QED BY Zenon, <2>1, <3>1, SameFrames
  <2>2. CASE \E g \in Free :
               /\ pte' = [pte EXCEPT ![m][p] = [frame |-> g, w |-> "w" \in v.prot]]
               /\ ref' = [ref EXCEPT ![g] = 1, ![pte[m][p].frame] = Max({0, @ - 1})]
    <3>1. PICK g \in Free :
               /\ pte' = [pte EXCEPT ![m][p] = [frame |-> g, w |-> "w" \in v.prot]]
               /\ ref' = [ref EXCEPT ![g] = 1, ![pte[m][p].frame] = Max({0, @ - 1})]
      BY Zenon, <2>2
    <3>2. RefInv'
      BY Zenon, <1>2, <1>4, <3>1, MapStep
    <3>. QED BY Zenon, <1>2, <3>1, <3>2
  <2>. QED BY Zenon, <1>1, <1>4, <2>1, <2>2 DEF WriteProtected
<1>. QED BY Zenon, <1>3, <1>4

\* A step of a process m that was forked, that loads no image and that leaves the other
\* address spaces alone.
LEMMA OneStep ==
    ASSUME UnbornInv, pte \in [Mms -> [Pages -> Entry]], NEW m \in Mms, phase[m] # "none",
           NEW new \in {"live", "zombie", "reaped"},
           phase' = phase \/ phase' = [phase EXCEPT ![m] = new],
           \A n \in Mms \ {m} : pte'[n] = pte[n]
    PROVE  UnbornInv'
BY Zenon DEF UnbornInv, Empty, NoEntry

\* munmap and the calls of mmap that begin with one.
LEMMA CutStep ==
    ASSUME FrameInv, NEW m \in Mms, phase[m] = "live", phase' = phase, NEW ps \in SUBSET Pages,
           UnmapAndRelease(m, ps)
    PROVE  UnbornInv' /\ RefInv'
<1> USE DEF FrameInv
<1>1. pte \in [Mms -> [Pages -> Entry]] /\ NoEntry \in Entry /\ NoEntry.frame = NoFrame
  BY Zenon DEF RefInv, Entry, NoEntry
<1>2. PICK q \in [Pages -> Entry] : q = [p \in Pages |-> IF p \in ps THEN NoEntry ELSE pte[m][p]]
  BY Zenon, <1>1
<1>3. pte' = [pte EXCEPT ![m] = q] /\ ref' = Put([p \in ps |-> pte[m][p].frame])
  BY Zenon, <1>2 DEF UnmapAndRelease, Release
<1>4. pte' \in [Mms -> [Pages -> Entry]] /\ \A n \in Mms \ {m} : pte'[n] = pte[n]
  BY Zenon, <1>1, <1>3
<1>5. \A n \in Mms, p \in Pages :
         pte'[n][p] = IF n = m /\ p \in ps THEN NoEntry ELSE pte[n][p]
  BY Zenon, <1>1, <1>2, <1>3
<1>6. RefInv'
  BY SMTT(30), <1>1, <1>3, <1>4, <1>5, UnmapStep
<1>. QED BY Zenon, <1>1, <1>4, <1>6, OneStep

\* mprotect rewrites the flags of present entries.
LEMMA ProtectStep ==
    ASSUME FrameInv, NEW m \in Mms, NEW a, NEW b, NEW prot, Mprotect(m, a, b, prot)
    PROVE  UnbornInv' /\ RefInv'
<1> USE DEF FrameInv
<1>0. ("w" \in prot) \in BOOLEAN
  OBVIOUS
<1>1. PICK w \in BOOLEAN : w = ("w" \in prot)
  BY Zenon, <1>0
<1>2. pte \in [Mms -> [Pages -> Entry]] /\ phase' = phase /\ phase[m] = "live" /\ ref' = ref
  BY Zenon DEF RefInv, Mprotect
<1>3. pte' = [pte EXCEPT ![m] = [p \in Pages |-> IF p \in a .. b - 1 /\ Present(m, p)
                                                   THEN [pte[m][p] EXCEPT !.w = w]
                                                   ELSE pte[m][p]]]
  BY Zenon, <1>1, <1>2 DEF Mprotect, ApplyPteFlags
<1>4. \A p \in Pages : [pte[m][p] EXCEPT !.w = w] \in Entry
                       /\ [pte[m][p] EXCEPT !.w = w].frame = pte[m][p].frame
  BY ZenonT(60), <1>2, Rewritten
<1>5. /\ pte' \in [Mms -> [Pages -> Entry]]
      /\ \A n \in Mms, p \in Pages : pte'[n][p].frame = pte[n][p].frame
      /\ \A n \in Mms \ {m} : pte'[n] = pte[n]
  BY Zenon, <1>2, <1>3, <1>4
<1>6. RefInv'
  BY Zenon, <1>2, <1>5, SameFrames
<1>. QED BY Zenon, <1>2, <1>5, <1>6, OneStep

\* Cloning write-protects entries of the parent.
LEMMA CowFrames ==
    ASSUME RefInv, NEW m \in Mms, NEW ps
    PROVE  /\ CowEntries(m, ps) \in [Pages -> Entry]
           /\ \A p \in Pages : CowEntries(m, ps)[p].frame = pte[m][p].frame
<1>1. \A p \in Pages : /\ pte[m][p] \in Entry /\ [pte[m][p] EXCEPT !.w = FALSE] \in Entry
                       /\ [pte[m][p] EXCEPT !.w = FALSE].frame = pte[m][p].frame
  BY ZenonT(60), Rewritten DEF RefInv
<1>2. ASSUME NEW p \in Pages
      PROVE  CowEntries(m, ps)[p] \in Entry /\ CowEntries(m, ps)[p].frame = pte[m][p].frame
  <2>1. CowEntries(m, ps)[p] = [pte[m][p] EXCEPT !.w = FALSE] \/ CowEntries(m, ps)[p] = pte[m][p]
    BY Zenon DEF CowEntries
  <2>. QED BY Zenon, <1>1, <2>1
<1>3. CowEntries(m, ps) = [p \in Pages |-> CowEntries(m, ps)[p]]
  BY Zenon DEF CowEntries
<1>. QED BY Zenon, <1>2, <1>3

LEMMA ForkFailsStep ==
    ASSUME FrameInv, NEW m \in Mms, NEW q, ForkFails(m, q)
    PROVE  UnbornInv' /\ RefInv'
<1> USE DEF FrameInv
<1> DEFINE ps == {p \in Cloneable(m) : p < q}
<1>0. pte' = [pte EXCEPT ![m] = CowEntries(m, ps)]
  BY Zenon DEF ForkFails
<1> HIDE DEF ps
<1>1. PICK new \in [Pages -> Entry] : new = CowEntries(m, ps) /\ \A p \in Pages : new[p].frame = pte[m][p].frame
  BY Zenon, CowFrames
<1>2. pte \in [Mms -> [Pages -> Entry]] /\ phase' = phase /\ phase[m] = "live" /\ ref' = ref
  BY Zenon DEF RefInv, ForkFails
<1>3. /\ pte' \in [Mms -> [Pages -> Entry]]
      /\ \A n \in Mms, p \in Pages : pte'[n][p].frame = pte[n][p].frame
      /\ \A n \in Mms \ {m} : pte'[n] = pte[n]
  BY Zenon, <1>0, <1>1, <1>2
<1>4. RefInv'
  BY Zenon, <1>2, <1>3, SameFrames
<1>. QED BY Zenon, <1>2, <1>3, <1>4, OneStep

LEMMA ForkStep ==
    ASSUME FrameInv, NEW m \in Mms, NEW c \in Mms, Fork(m, c)
    PROVE  UnbornInv' /\ RefInv'
<1> USE DEF FrameInv
<1>0. PICK ps \in SUBSET Pages : ps = Cloneable(m)
  BY Zenon, CoveredPages DEF Cloneable
<1> DEFINE copy == [p \in Pages |-> IF p \in ps THEN [frame |-> pte[m][p].frame, w |-> CowW(VmaOf(m, p))]
                                                ELSE NoEntry]
<1>1. /\ pte \in [Mms -> [Pages -> Entry]] /\ phase \in [Mms -> {"none", "live", "zombie", "reaped"}]
      /\ phase[m] = "live" /\ phase[c] = "none" /\ phase' = [phase EXCEPT ![c] = "live"]
      /\ pte[c] = Empty /\ m # c
  BY Zenon DEF RefInv, UnbornInv, Fork
<1>3. ref' = [f \in Frames |-> ref[f] + Cardinality(Cloned(m, ps, f))]
  BY Zenon, <1>0 DEF Fork, Cloned
<1>a. pte' = [pte EXCEPT ![m] = CowEntries(m, ps), ![c] = copy]
  BY Zenon, <1>0 DEF Fork
<1>4. PICK new \in [Pages -> Entry] : new = CowEntries(m, ps) /\ \A p \in Pages : new[p].frame = pte[m][p].frame
  BY ZenonT(60), CowFrames
<1>5. copy \in [Pages -> Entry] /\ \A p \in Pages : copy[p].frame = IF p \in ps THEN pte[m][p].frame ELSE NoFrame
  <2>1. \A p \in Pages : CowW(VmaOf(m, p)) \in BOOLEAN /\ pte[m][p].frame \in Frames \cup {NoFrame}
    BY <1>1 DEF CowW, PteW, Entry
  <2>2. \A p \in Pages : [frame |-> pte[m][p].frame, w |-> CowW(VmaOf(m, p))] \in Entry
    BY Zenon, <2>1 DEF Entry
  <2>. QED BY Zenon, <2>2 DEF Entry, NoEntry
<1> HIDE DEF copy
<1>b. /\ pte' \in [Mms -> [Pages -> Entry]]
      /\ pte'[c] = copy /\ pte'[m] = new /\ \A n \in Mms \ {m, c} : pte'[n] = pte[n]
  BY Zenon, <1>1, <1>a, <1>4, <1>5
<1>6. /\ pte' \in [Mms -> [Pages -> Entry]]
      /\ \A p \in ps : pte'[c][p].frame = pte[m][p].frame
      /\ \A p \in Pages \ ps : pte'[c][p].frame = NoFrame
      /\ \A n \in Mms \ {c}, p \in Pages : pte'[n][p].frame = pte[n][p].frame
  BY Zenon, <1>4, <1>5, <1>b
<1>7. RefInv'
  BY ZenonT(60), <1>1, <1>3, <1>6, CloneStep
<1>8. UnbornInv'
  BY Zenon, <1>1, <1>b DEF UnbornInv
<1>. QED BY Zenon, <1>7, <1>8

\* exit has no image to roll back.
LEMMA ExitStep ==
    ASSUME FrameInv, NEW m \in Mms, Exit(m)
    PROVE  UnbornInv' /\ RefInv' /\ image' = image
<1> USE DEF FrameInv
<1>1. /\ pte \in [Mms -> [Pages -> Entry]] /\ ref \in [Frames -> Nat] /\ image[m] = {}
      /\ phase[m] = "live" /\ phase' = [phase EXCEPT ![m] = "zombie"]
      /\ image' = [image EXCEPT ![m] = {}]
  BY Zenon DEF RefInv, Exit
<1>2. Unloaded(m) = pte[m]
  BY Zenon, <1>1 DEF Unloaded
<1>3. pte' = pte
  BY Zenon, <1>1, <1>2 DEF Exit
<1>4. Put([r \in image[m] |-> r.frame]) = ref
  <2>1. \A f \in Frames : {c \in DOMAIN [r \in image[m] |-> r.frame] : [r \in image[m] |-> r.frame][c] = f} = {}
    BY Zenon, <1>1
  <2>2. \A f \in Frames : Max({0, ref[f] - Cardinality({})}) = ref[f]
    BY SMTT(30), <1>1, MaxZero, FS_EmptySet
  <2>. QED BY SMTT(30), <1>1, <2>1, <2>2 DEF Put
<1>5. ref' = ref
  BY Zenon, <1>4 DEF Exit, Release
<1>6. RefInv'
  BY Zenon, <1>3, <1>5 DEF RefInv, Mappers
<1>. QED BY Zenon, <1>1, <1>3, <1>6, OneStep

\* The teardown of an address space drops one reference for each of its entries.
LEMMA ReapStep ==
    ASSUME FrameInv, NEW m \in Mms, Reap(m)
    PROVE  UnbornInv' /\ RefInv' /\ image' = image
<1> USE DEF FrameInv
<1> DEFINE left == Put([p \in Pages |-> pte[m][p].frame])
<1>1. /\ pte \in [Mms -> [Pages -> Entry]] /\ ref \in [Frames -> Nat] /\ image[m] = {}
      /\ phase[m] = "zombie" /\ phase' = [phase EXCEPT ![m] = "reaped"]
      /\ image' = [image EXCEPT ![m] = {}]
  BY Zenon DEF RefInv, Reap
<1>2. pte' = [pte EXCEPT ![m] = Empty]
  <2>1. /\ pte'[m] = Empty /\ \A n \in Mms \ {m} : pte'[n] = pte[n]
        /\ pte' = [n \in Mms |-> pte'[n]]
    BY <1>1 DEF Reap
  <2>. QED BY Zenon, <1>1, <2>1
<1>3. \A f \in Frames : left[f] \in Nat
  <2>1. ASSUME NEW f \in Frames PROVE left[f] \in Nat
    <3>1. PICK k \in Nat : k = Cardinality({c \in Pages : pte[m][c].frame = f})
      BY Zenon, PagesCount
    <3>2. left[f] = Max({0, ref[f] - k})
      BY Zenon, <3>1 DEF Put
    <3> HIDE DEF left
    <3>3. ref[f] - k \in Int /\ ref[f] \in Nat
      BY <1>1, <3>1
    <3>. QED BY SMTT(30), <3>2, <3>3, MaxZero
  <2> HIDE DEF left
  <2>. QED BY Zenon, <2>1
<1>4. ref' = left
  <2>1. \A f \in Frames : {i \in image[m] : i.frame = f} = {}
    BY Zenon, <1>1
  <2>2. \A f \in Frames : ref'[f] = Max({0, left[f] - Cardinality({})})
    <3>1. ref' = [f \in Frames |-> Max({0, left[f] - Cardinality({i \in image[m] : i.frame = f})})]
      BY Zenon DEF Reap, Release
    <3> HIDE DEF left
    <3>. QED BY Zenon, <2>1, <3>1
  <2>3. ref' = [f \in Frames |-> ref'[f]] /\ left = [f \in Frames |-> left[f]]
    BY Zenon DEF Reap, Release, Put
  <2> HIDE DEF left
  <2>4. \A f \in Frames : ref'[f] = left[f]
    <3>1. ASSUME NEW f \in Frames PROVE ref'[f] = left[f]
      <4>1. PICK n \in Nat : n = left[f]
        BY Zenon, <1>3
      <4>2. n - Cardinality({}) = n
        BY SMTT(30), FS_EmptySet
      <4>3. ref'[f] = Max({0, n})
        BY Zenon, <2>2, <4>1, <4>2
      <4>. QED BY SMTT(30), <4>1, <4>3, MaxZero
    <3>. QED BY Zenon, <3>1
  <2>. QED BY Zenon, <2>3, <2>4
<1>5. RefInv'
  <2>1. Empty \in [Pages -> Entry] /\ \A p \in Pages : Empty[p] = NoEntry
    BY Zenon DEF Empty, Entry, NoEntry
  <2>2. /\ pte' \in [Mms -> [Pages -> Entry]]
        /\ \A n \in Mms, p \in Pages :
             pte'[n][p] = IF n = m /\ p \in Pages THEN NoEntry ELSE pte[n][p]
    BY Zenon, <1>1, <1>2, <2>1
  <2>. QED BY Zenon, <1>4, <2>2, UnmapStep
<1>. QED BY ZenonT(60), <1>1, <1>2, <1>5, OneStep

-----------------------------------------------------------------------------
(* The invariant. *)

LEMMA FrameInit == Init /\ Unrecorded => FrameInv
<1> SUFFICES ASSUME Init, Unrecorded PROVE FrameInv
  BY Zenon
<1>1. TreeInv
  BY Zenon, TreeInit
<1>2. BudgetInv
  BY SMTT(30), BudgetAssumption DEF Init, BudgetInv
<1>3. PICK load \in [Targets -> Frames] :
        /\ \A p, q \in Targets : load[p] = load[q] => p = q
        /\ pte = [m \in Mms |-> [p \in Pages |-> IF m = Root /\ p \in Targets
                                                   THEN [frame |-> load[p], w |-> budget.recorded]
                                                   ELSE NoEntry]]
        /\ ref = [f \in Frames |-> IF \E p \in Targets : load[p] = f THEN 1 ELSE 0]
        /\ image = [m \in Mms |-> {}]
  BY Zenon DEF Init, Unrecorded
<1>4. Targets \in SUBSET Pages
  BY LayoutAssumption DEF Targets, Pages
<1>5. UnbornInv
  BY Zenon, <1>3 DEF Init, UnbornInv, Empty
<1>6. pte \in [Mms -> [Pages -> Entry]]
  <2>1. \A p \in Targets : [frame |-> load[p], w |-> budget.recorded] \in Entry
    BY Zenon, <1>2 DEF Entry, BudgetInv
  <2>2. NoEntry \in Entry
    BY Zenon DEF Entry, NoEntry
  <2>. QED BY Zenon, <1>3, <2>1, <2>2
<1>7. \A m \in Mms, p \in Pages : pte[m][p].frame = IF m = Root /\ p \in Targets THEN load[p] ELSE NoFrame
  BY Zenon, <1>3 DEF NoEntry
<1>8. ASSUME NEW f \in Frames PROVE ref[f] = Cardinality(Mappers(f)) /\ ref[f] \in Nat
  <2>1. CASE \E p \in Targets : load[p] = f
    <3>1. PICK p \in Targets : load[p] = f
      BY Zenon, <2>1
    <3>2. Mappers(f) = {<<Root, p>>}
      BY SMTT(30), <1>3, <1>4, <1>7, <3>1, LayoutAssumption DEF Mappers
    <3>3. ref[f] = 1
      BY Zenon, <1>3, <2>1
    <3>4. Cardinality({<<Root, p>>}) = 1
      BY FS_Singleton, Zenon
    <3>. QED BY SMTT(30), <3>2, <3>3, <3>4
  <2>2. CASE ~ \E p \in Targets : load[p] = f
    <3>1. Mappers(f) = {}
      BY SMTT(30), <1>7, <2>2, LayoutAssumption DEF Mappers
    <3>2. ref[f] = 0
      BY Zenon, <1>3, <2>2
    <3>. QED BY SMTT(30), <3>1, <3>2, FS_EmptySet
  <2>. QED BY Zenon, <2>1, <2>2
<1>9. RefInv
  BY Zenon, <1>3, <1>6, <1>8 DEF RefInv
<1>. QED BY ZenonT(60), <1>1, <1>2, <1>3, <1>5, <1>9 DEF FrameInv

\* Every step but those of execve, which the budget excludes.
LEMMA FrameStep ==
    ASSUME FrameInv, [Next]_vars
    PROVE  BudgetInv' /\ UnbornInv' /\ RefInv' /\ image' = image
<1> DEFINE Goal == BudgetInv' /\ UnbornInv' /\ RefInv' /\ image' = image
<1> SUFFICES Goal
  BY Zenon
<1>t. /\ BudgetInv /\ UnbornInv /\ RefInv /\ TreeInv /\ pte \in [Mms -> [Pages -> Entry]]
      /\ ref \in [Frames -> Nat]
  BY Zenon DEF FrameInv, RefInv
<1>c. \A m \in Mms : Covered(m) \in SUBSET Pages
  BY Zenon, <1>t, CoveredPages
<1>1. ASSUME NEW m \in Mms, NEW p \in Pages, NEW write \in BOOLEAN, PageFault(m, p, write)
      PROVE  Goal
  <2>1. phase[m] = "live" /\ phase' = phase /\ budget' = budget /\ image' = image
    BY Zenon, <1>1 DEF PageFault
  <2>2. RefInv' /\ \A n \in Mms \ {m} : pte'[n] = pte[n]
    BY Zenon, <1>1, FaultStep
  <2>3. UnbornInv'
    BY ZenonT(60), <1>t, <2>1, <2>2, OneStep
  <2>. QED BY ZenonT(60), <1>t, <2>1, <2>2, <2>3 DEF BudgetInv, Unrecorded
<1>2. ASSUME NEW m \in Mms, NEW r \in Ranges, NEW x, NEW fixed,
             \/ Munmap(m, r[1], r[2]) \/ MmapBadFd(m, r[1], r[2])
             \/ Mmap(m, r[1], r[2], x.prot, x.kind, fixed)
      PROVE  Goal
  <2>1. PICK ps \in SUBSET Pages : ps = (r[1] .. r[2] - 1) \cap Covered(m)
    BY ZenonT(60), <1>c
  <2>2. UnmapAndRelease(m, ps) /\ phase[m] = "live" /\ phase' = phase /\ image' = image
    BY Zenon, <1>2, <2>1 DEF Munmap, MmapBadFd, Mmap
  <2>3. Spend("unmap") \/ Spend("fixed") \/ Spend("mmap")
    BY Zenon, <1>2 DEF Munmap, MmapBadFd, Mmap
  <2>4. BudgetInv'
    BY Zenon, <1>t, <2>3, SpendStep
  <2>. QED BY Zenon, <2>2, <2>4, CutStep
<1>3. ASSUME NEW m \in Mms, NEW r \in Ranges, NEW prot \in Prots, Mprotect(m, r[1], r[2], prot)
      PROVE  Goal
  <2>1. Spend("protect") /\ image' = image
    BY Zenon, <1>3 DEF Mprotect
  <2>2. UnbornInv' /\ RefInv'
    BY Zenon, <1>3, ProtectStep
  <2>. QED BY Zenon, <1>t, <2>1, <2>2, SpendStep

<1>4. ASSUME NEW m \in Mms, NEW p \in Pages, Store(m, p) PROVE Goal
  <2>1. pte' = pte /\ ref' = ref /\ phase' = phase /\ budget' = budget /\ image' = image
    BY Zenon, <1>4 DEF Store
  <2>. QED BY ZenonT(60), <1>t, <2>1 DEF BudgetInv, Unrecorded, UnbornInv, RefInv, Mappers
<1>5. ASSUME NEW m \in Mms, NEW b \in 1 .. NPages, Brk(m, b) PROVE Goal
  <2>1. pte' = pte /\ ref' = ref /\ phase' = phase /\ Spend("brk") /\ image' = image
    BY Zenon, <1>5 DEF Brk
  <2>2. UnbornInv' /\ RefInv'
    BY Zenon, <1>t, <2>1 DEF UnbornInv, RefInv, Mappers
  <2>. QED BY Zenon, <1>t, <2>1, <2>2, SpendStep
<1>6. ASSUME NEW m \in Mms, NEW c \in Mms, Fork(m, c) PROVE Goal
  <2>1. Spend("fork") /\ image' = image
    BY Zenon, <1>6 DEF Fork
  <2>2. UnbornInv' /\ RefInv'
    BY Zenon, <1>6, ForkStep
  <2>. QED BY Zenon, <1>t, <2>1, <2>2, SpendStep
<1>7. ASSUME NEW m \in Mms, NEW q \in Pages, ForkFails(m, q) PROVE Goal
  <2>1. Spend("fork") /\ image' = image
    BY Zenon, <1>7 DEF ForkFails
  <2>2. UnbornInv' /\ RefInv'
    BY Zenon, <1>7, ForkFailsStep
  <2>. QED BY Zenon, <1>t, <2>1, <2>2, SpendStep
<1>8. ASSUME NEW m \in Mms, Exec(m) \/ ExecFails(m) PROVE FALSE
  BY Zenon, <1>8, <1>t, NoExec DEF Exec, ExecFails
<1>9. ASSUME NEW m \in Mms, Exit(m) PROVE Goal
  <2>1. budget' = budget
    BY Zenon, <1>9 DEF Exit
  <2>2. UnbornInv' /\ RefInv' /\ image' = image
    BY Zenon, <1>9, ExitStep
  <2>. QED BY Zenon, <1>t, <2>1, <2>2 DEF BudgetInv, Unrecorded
<1>10. ASSUME NEW m \in Mms, Kill(m) PROVE Goal
  <2>1. /\ pte' = pte /\ ref' = ref /\ phase[m] = "live" /\ phase' = [phase EXCEPT ![m] = "zombie"]
        /\ Spend("kill") /\ image' = image
    BY Zenon, <1>10 DEF Kill
  <2>2. UnbornInv' /\ RefInv'
    BY ZenonT(60), <1>t, <2>1, OneStep DEF RefInv, Mappers
  <2>. QED BY Zenon, <1>t, <2>1, <2>2, SpendStep
<1>11. ASSUME NEW m \in Mms, Reap(m) PROVE Goal
  <2>1. budget' = budget
    BY ZenonT(60), <1>11 DEF Reap
  <2>2. UnbornInv' /\ RefInv' /\ image' = image
    BY Zenon, <1>11, ReapStep
  <2>. QED BY Zenon, <1>t, <2>1, <2>2 DEF BudgetInv, Unrecorded
<1>12. CASE UNCHANGED vars
  <2>1. pte' = pte /\ ref' = ref /\ phase' = phase /\ budget' = budget /\ image' = image
    BY Zenon, <1>12 DEF vars
  <2>. QED BY ZenonT(60), <1>t, <2>1 DEF BudgetInv, Unrecorded, UnbornInv, RefInv, Mappers
<1>13. CASE Next
  <2> HIDE DEF Goal
  <2>1. PICK m \in Mms :
          \/ \E p \in Pages, write \in BOOLEAN : PageFault(m, p, write)
          \/ \E r \in Ranges : \/ Munmap(m, r[1], r[2]) \/ MmapBadFd(m, r[1], r[2])
                              \/ \E x, fixed : Mmap(m, r[1], r[2], x.prot, x.kind, fixed)
          \/ \E r \in Ranges, prot \in Prots : Mprotect(m, r[1], r[2], prot)
          \/ \E p \in Pages : Store(m, p)
          \/ \E b \in 1 .. NPages : Brk(m, b)
          \/ \E c \in Mms : Fork(m, c)
          \/ \E q \in Pages : ForkFails(m, q)
          \/ Exec(m) \/ ExecFails(m) \/ Exit(m) \/ Kill(m) \/ Reap(m)
    BY <1>13, Zenon DEF Next
  <2>2. CASE \E p \in Pages, write \in BOOLEAN : PageFault(m, p, write)
    BY Zenon, <2>2, <1>1
  <2>3. CASE \E r \in Ranges : \/ Munmap(m, r[1], r[2]) \/ MmapBadFd(m, r[1], r[2])
                              \/ \E x, fixed : Mmap(m, r[1], r[2], x.prot, x.kind, fixed)
    BY Zenon, <2>3, <1>2
  <2>4. CASE \E r \in Ranges, prot \in Prots : Mprotect(m, r[1], r[2], prot)
    BY Zenon, <2>4, <1>3
  <2>. QED BY <2>1, <2>2, <2>3, <2>4, <1>4, <1>5, <1>6, <1>7, <1>8, <1>9, <1>10, <1>11, ZenonT(30)
<1>. QED BY Zenon, <1>12, <1>13

LEMMA FrameNext == FrameInv /\ [Next]_vars => FrameInv'
BY Zenon, FrameStep, TreeNext DEF FrameInv

\* Processes without a recorded image, however many fork, fault, copy on write, map, unmap
\* and exit in whatever order: a frame has exactly one reference for every page-table entry
\* that maps it.  So no frame is given back to the allocator while some process maps it
\* (free_page, from map_page, munmap and mm_release), and none is lost.
THEOREM FramesCounted == Spec /\ Unrecorded => []FrameRefsExact
<1>1. FrameInv => FrameRefsExact
  <2> SUFFICES ASSUME FrameInv PROVE FrameRefsExact
    BY Zenon
  <2>1. \A f \in Frames : ref[f] = Cardinality(Mappers(f)) /\ ref[f] \in Nat
    BY Zenon DEF FrameInv, RefInv
  <2>. QED BY <2>1 DEF FrameRefsExact, MappedIsReferenced
<1>. QED BY <1>1, FrameInit, FrameNext, PTL DEF Spec
=============================================================================
