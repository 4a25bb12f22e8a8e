----------------------------- MODULE PageTables -----------------------------
(* Page-table pages, their reference counts and the sharing of the kernel  *)
(* half: map_page, unmap_page and the root operations of                   *)
(* mm/arch/x86_64/paging.rs, with the tear-down of mm/virt/vma.rs.         *)
(*                                                                         *)
(* A table has two entries and a root is three levels high, so that a      *)
(* virtual page is a number of three binary digits, one per level; the     *)
(* pages from KernelBase on are the kernel's. Every operation holds        *)
(* PAGE_TABLE_OP_LOCK throughout and is one step. Frames are numbers; what *)
(* becomes of a replaced frame is AddressSpaces' subject.                  *)
EXTENDS Structures, FiniteSets, Sequences, SequencesExt

CONSTANTS
    Tables,     \* the frames page tables are allocated from
    Mms,        \* the address spaces beside init_mm
    UserPages,  \* the virtual pages below KernelBase that are used
    KernelPages, \* the virtual pages from KernelBase on that are used
    UserFrame,  \* the frame user pages map
    KernelFrame \* the frame kernel pages map

InitMm == "init_mm"

Levels == 3

KernelBase == 4

NoFrame == 99

(* level_index *)
LevelIndex(v, level) == (v \div (2 ^ (level - 1))) % 2

Pte(to, user, huge) == [present |-> TRUE, to |-> to, user |-> user, huge |-> huge]

NoPte == [present |-> FALSE, to |-> 0, user |-> FALSE, huge |-> FALSE]

EmptyTable == [i \in {0, 1} |-> NoPte]

(* entry_references_lower_table *)
ReferencesLowerTable(e) == e.present /\ ~e.huge

(* alloc_zeroed_table_phys: the first free frame, with one reference *)
Unused(pt) == {t \in Tables : pt.refs[t] = 0}

AllocTable(pt, t) ==
    [pt EXCEPT !.tab[t] = EmptyTable, !.refs[t] = 1, !.borrowed[t] = NoPte]

(* init_mm's root after boot: the low half holds the bootstrap identity    *)
(* map, one huge kernel-only entry; the kernel half is empty.              *)
PtBoot ==
    LET root == Least(Tables)
        low  == Least(Tables \ {root})
    IN [tab |-> [t \in Tables |->
                    CASE t = root -> [EmptyTable EXCEPT ![0] = Pte(low, FALSE, FALSE)]
                      [] t = low  -> [EmptyTable EXCEPT ![0] = Pte(0, FALSE, TRUE)]
                      [] OTHER    -> EmptyTable],
        refs |-> [t \in Tables |-> IF t \in {root, low} THEN 1 ELSE 0],
        borrowed |-> [t \in Tables |-> NoPte],
        root |-> [a \in Mms \cup {InitMm} |-> IF a = InitMm THEN root ELSE 0],
        current |-> InitMm]

(* retain_table_page_ref *)
Retain(pt, t) == [pt EXCEPT !.refs[t] = @ + 1]

(* release_table_page_ref: a table that shadows a borrowed entry releases  *)
(* that entry's table first, whatever its own count. What a free frame     *)
(* holds no longer matters.                                                *)
Put(pt, t) ==
    CASE pt.refs[t] = 0 -> pt
      [] pt.refs[t] = 1 -> [pt EXCEPT !.refs[t] = 0, !.tab[t] = EmptyTable]
      [] OTHER          -> [pt EXCEPT !.refs[t] = @ - 1]

ReleaseTable(pt, t) ==
    LET b      == pt.borrowed[t]
        bared  == [pt EXCEPT !.borrowed[t] = NoPte]
        lender == IF ReferencesLowerTable(b) THEN Put(bared, b.to) ELSE bared
    IN Put(lender, t)

(* split_huge_entry_for_user: the pages of the huge entry, with its flags *)
SplitHuge(pt, t, i, child) ==
    LET e == pt.tab[t][i]
    IN [AllocTable(pt, child) EXCEPT
            !.tab[child] = [k \in {0, 1} |-> Pte(e.to + k, e.user, FALSE)],
            !.tab[t][i]  = Pte(child, e.user, FALSE)]

(* The copy of a kernel-only table that a user mapping goes through *)
ShadowTable(pt, t, i, copy) ==
    LET e == pt.tab[t][i]
    IN [AllocTable(pt, copy) EXCEPT
            !.tab[copy]      = pt.tab[e.to],
            !.borrowed[copy] = e,
            !.tab[t][i]      = Pte(copy, TRUE, FALSE)]

(* One level of map_page's walk. w is the walk so far: the tables, the     *)
(* table reached and whether the walk goes on.                             *)
SplitStep(w, v, user, level) ==
    LET i == LevelIndex(v, level)
        e == w.pt.tab[w.table][i]
    IN IF ~e.huge THEN w
       ELSE IF ~user \/ Unused(w.pt) = {} THEN [w EXCEPT !.ok = FALSE]
       ELSE [w EXCEPT !.pt = SplitHuge(w.pt, w.table, i, Least(Unused(w.pt)))]

FillStep(w, v, user, level) ==
    LET i    == LevelIndex(v, level)
        e    == w.pt.tab[w.table][i]
        free == Unused(w.pt)
        new  == Least(free)
    IN IF e.present /\ (e.user \/ ~user) THEN [w EXCEPT !.table = e.to]
       ELSE IF free = {} THEN [w EXCEPT !.ok = FALSE]
       ELSE IF e.present
            THEN [w EXCEPT !.pt = ShadowTable(w.pt, w.table, i, new), !.table = new]
            ELSE [w EXCEPT !.pt = [AllocTable(w.pt, new) EXCEPT
                                      !.tab[w.table][i] = Pte(new, TRUE, FALSE)],
                           !.table = new]

WalkStep(w, v, user, level) ==
    LET split == SplitStep(w, v, user, level)
    IN IF ~w.ok \/ ~split.ok THEN [split EXCEPT !.ok = FALSE]
       ELSE FillStep(split, v, user, level)

MapPage(pt, root, v, frame, user) ==
    LET w == FoldLeft(LAMBDA acc, level : WalkStep(acc, v, user, level),
                      [pt |-> pt, table |-> root, ok |-> TRUE], <<3, 2>>)
    IN IF ~w.ok THEN [pt |-> w.pt, ok |-> FALSE]
       ELSE [pt |-> [w.pt EXCEPT !.tab[w.table][LevelIndex(v, 1)] =
                                     Pte(frame, user, FALSE)],
             ok |-> TRUE]

(* The tables from the root down to the page table, or fewer when the walk *)
(* meets a hole or a huge entry.                                           *)
Path(pt, root, v) ==
    LET e3 == pt.tab[root][LevelIndex(v, 3)]
        e2 == pt.tab[e3.to][LevelIndex(v, 2)]
    IN IF ~e3.present THEN <<root>>
       ELSE IF ~ReferencesLowerTable(e2) THEN <<root, e3.to>>
       ELSE <<root, e3.to, e2.to>>

(* Mutant of ReclaimStep: an empty table goes although another root holds it too. *)
ReclaimShared(r, path, v, level) ==
    LET child  == path[Levels - level + 2]
        parent == path[Levels - level + 1]
        out    == [r.pt EXCEPT !.tab[parent][LevelIndex(v, level)] = NoPte,
                               !.borrowed[child] = NoPte]
    IN IF r.stop \/ \E k \in {0, 1} : r.pt.tab[child][k].present
       THEN [r EXCEPT !.stop = TRUE]
       ELSE [pt |-> [out EXCEPT !.refs[child] = 0, !.tab[child] = EmptyTable], stop |-> FALSE]

(* The reclaim loop of unmap_page: an empty child held by this entry alone *)
(* goes, and a shadow gives back the entry it borrowed.                    *)
ReclaimStep(r, path, v, level) ==
    LET child  == path[Levels - level + 2]
        parent == path[Levels - level + 1]
        i      == LevelIndex(v, level)
        shadow == r.pt.borrowed[child]
        put(e) == [r.pt EXCEPT !.tab[parent][i] = e, !.borrowed[child] = NoPte]
    IN IF r.stop \/ r.pt.refs[child] # 1 \/ \E k \in {0, 1} : r.pt.tab[child][k].present
       THEN [r EXCEPT !.stop = TRUE]
       ELSE IF shadow.present
            THEN [pt |-> ReleaseTable(put(shadow), child), stop |-> TRUE]
            ELSE [pt |-> ReleaseTable(put(NoPte), child), stop |-> FALSE]

UnmapPage(pt, root, v) ==
    LET path == Path(pt, root, v)
        last == path[Len(path)]
        at   == LevelIndex(v, Levels + 1 - Len(path))
        gone == [pt EXCEPT !.tab[last][at] = NoPte]
    IN IF ~pt.tab[last][at].present THEN [pt |-> pt, ok |-> FALSE]
       ELSE IF Len(path) < Levels THEN [pt |-> gone, ok |-> TRUE]
       ELSE [pt |-> FoldLeft(LAMBDA acc, level : ReclaimStep(acc, path, v, level),
                             [pt |-> gone, stop |-> FALSE], <<2, 3>>).pt,
             ok |-> TRUE]

(* translate_addr *)
Translate(pt, root, v) ==
    LET path == Path(pt, root, v)
        e    == pt.tab[path[Len(path)]][LevelIndex(v, Levels + 1 - Len(path))]
    IN IF ~e.present THEN NoFrame
       ELSE IF e.huge THEN e.to + LevelIndex(v, 1)
       ELSE e.to

(* sync_kernel_root_entries_from_init, and clone_kernel_root_entries_with_ *)
(* refs with init_mm as the source: the kernel half has one root entry.    *)
CopyKernelEntry(pt, from, to) ==
    LET old == pt.tab[to][1]
        new == pt.tab[from][1]
        off == IF ReferencesLowerTable(old) THEN ReleaseTable(pt, old.to) ELSE pt
        on  == IF ReferencesLowerTable(new) THEN Retain(off, new.to) ELSE off
    IN IF old = new THEN pt ELSE [on EXCEPT !.tab[to][1] = new]

(* release_kernel_root_entries_refs *)
ReleaseKernelEntry(pt, root) ==
    LET e == pt.tab[root][1]
    IN IF ReferencesLowerTable(e) THEN ReleaseTable(pt, e.to) ELSE pt

(* teardown_table_level and teardown_user_page_tables: the user half of a  *)
(* root, bottom up.                                                        *)
DropLower(pt, table) ==
    FoldLeft(LAMBDA acc, i : IF ReferencesLowerTable(acc.tab[table][i])
                             THEN ReleaseTable([acc EXCEPT
                                        !.tab[acc.tab[table][i].to] = EmptyTable,
                                        !.tab[table][i] = NoPte],
                                    acc.tab[table][i].to)
                             ELSE [acc EXCEPT !.tab[table][i] = NoPte],
             pt, <<0, 1>>)

TeardownUser(pt, root) ==
    LET e == pt.tab[root][0]
    IN IF ~e.present THEN pt
       ELSE ReleaseTable([DropLower(pt, e.to) EXCEPT !.tab[root][0] = NoPte], e.to)

-----------------------------------------------------------------------------
(* The calls. ref holds, for every address space, the user pages it was    *)
(* asked to map, and the kernel pages vmalloc has mapped.                  *)
PtRef == [user |-> [a \in Mms \cup {InitMm} |-> {}], kernel |-> {}]

Mapped(a) == obj.root[a] # 0

(* Mm::new_user: a root page that starts with init_mm's kernel entries *)
PtNewMm ==
    \E a \in Mms :
       /\ ~Mapped(a)
       /\ Unused(obj) # {}
       /\ LET root == Least(Unused(obj))
          IN Call("ptables", [CopyKernelEntry(AllocTable(obj, root), obj.root[InitMm], root)
                                 EXCEPT !.root[a] = root],
                  ref)

(* teardown_private_mm, of a space that no CPU has loaded *)
PtTeardown ==
    \E a \in Mms :
       /\ Mapped(a)
       /\ obj.current # a
       /\ LET root == obj.root[a]
              bare == ReleaseKernelEntry(TeardownUser(obj, root), root)
          IN Call("ptables", [ReleaseTable(bare, root) EXCEPT !.root[a] = 0],
                  [ref EXCEPT !.user[a] = {}])

(* The page fault handler and mmap: a user page of an address space *)
PtMapUser ==
    \E a \in Mms \cup {InitMm}, v \in UserPages :
       /\ Mapped(a)
       /\ LET r == MapPage(obj, obj.root[a], v, UserFrame, TRUE)
          IN Call("ptables", r.pt, IF r.ok THEN [ref EXCEPT !.user[a] = @ \cup {v}] ELSE ref)

(* munmap: unmap_page for every page of the range, mapped or not. A huge   *)
(* entry goes as a whole, but no user page lies under one.                 *)
PtUnmapUser ==
    \E a \in Mms \cup {InitMm}, v \in UserPages :
       /\ Mapped(a)
       /\ Call("ptables", UnmapPage(obj, obj.root[a], v).pt,
               [ref EXCEPT !.user[a] = @ \ {v}])

(* map_vmalloc_page: init_mm first, then the current root unless it has    *)
(* the page already; a failure there takes the page back.                  *)
PtMapKernel ==
    \E v \in KernelPages \ ref.kernel :
       LET init == obj.root[InitMm]
           cur  == obj.root[obj.current]
           one  == MapPage(obj, init, v, KernelFrame, FALSE)
           two  == IF cur = init \/ Translate(one.pt, cur, v) # NoFrame THEN one
                   ELSE MapPage(one.pt, cur, v, KernelFrame, FALSE)
       IN IF two.ok /\ one.ok
          THEN Call("ptables", two.pt, [ref EXCEPT !.kernel = @ \cup {v}])
          ELSE Call("ptables", IF one.ok THEN UnmapPage(two.pt, init, v).pt ELSE one.pt, ref)

(* unmap_vmalloc_page: init_mm's mapping and the current root's *)
PtUnmapKernel ==
    \E v \in ref.kernel :
       LET one == UnmapPage(obj, obj.root[InitMm], v).pt
           two == IF obj.current = InitMm THEN one
                  ELSE UnmapPage(one, obj.root[obj.current], v).pt
       IN Call("ptables", two, [ref EXCEPT !.kernel = @ \ {v}])

(* switch_to_mm_pgd_if_needed: the target takes init_mm's kernel entries *)
PtSwitch ==
    \E a \in Mms \cup {InitMm} :
       /\ Mapped(a)
       /\ a # obj.current
       /\ Call("ptables",
               [(IF a = InitMm THEN obj
                 ELSE CopyKernelEntry(obj, obj.root[InitMm], obj.root[a]))
                   EXCEPT !.current = a],
               ref)

PtNext ==
    /\ kind = "ptables"
    /\ \/ PtNewMm
       \/ PtTeardown
       \/ PtMapUser
       \/ PtUnmapUser
       \/ PtMapKernel
       \/ PtUnmapKernel
       \/ PtSwitch

-----------------------------------------------------------------------------
Live(pt) == {t \in Tables : pt.refs[t] > 0}

IsRoot(pt, t) == \E a \in Mms \cup {InitMm} : pt.root[a] = t

(* The tables, and only they, that hold entries for other tables *)
Upper(pt) ==
    LET roots == {t \in Live(pt) : IsRoot(pt, t)}
    IN roots \cup {pt.tab[t][i].to : <<t, i>> \in
                      {p \in roots \X {0, 1} : ReferencesLowerTable(pt.tab[p[1]][p[2]])}}

References(pt, t) ==
    Cardinality({p \in Upper(pt) \X {0, 1} :
                    LET e == pt.tab[p[1]][p[2]] IN ReferencesLowerTable(e) /\ e.to = t})
    + Cardinality({s \in Live(pt) : pt.borrowed[s].present /\ pt.borrowed[s].to = t})

(* A table that an entry points to holds at least that many references *)
PtHeld(pt) == \A t \in Tables : pt.refs[t] >= References(pt, t)

UserView(pt, root, v) ==
    LET path == Path(pt, root, v)
    IN /\ Len(path) = Levels
       /\ \A k \in 1 .. Levels :
             LET e == pt.tab[path[k]][LevelIndex(v, Levels + 1 - k)]
             IN e.present /\ e.user

(* User code reaches exactly the pages its own address space mapped *)
PtExact ==
    /\ \A a \in Mms \cup {InitMm} : Mapped(a) =>
          \A v \in UserPages : UserView(obj, obj.root[a], v) <=> v \in ref.user[a]
    /\ \A v \in KernelPages :
          /\ (Translate(obj, obj.root[InitMm], v) = KernelFrame) <=> v \in ref.kernel
          /\ v \in ref.kernel \/ Translate(obj, obj.root[obj.current], v) = NoFrame
=============================================================================
