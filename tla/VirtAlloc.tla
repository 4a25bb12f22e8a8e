------------------------------ MODULE VirtAlloc ------------------------------
(* vmalloc, vfree, ioremap and iounmap (mm/alloc/vmalloc.rs) on one CPU.   *)
(*                                                                         *)
(* The unit is a page. The reserved ranges are the areas, each with its    *)
(* guard page; MapleTree's find_gap is checked in MapleTree.tla and is the *)
(* lowest gap here. A page table is a function from virtual pages to       *)
(* frames; a switch of address space copies init_mm's kernel half          *)
(* (PageTables!PtSwitch). A frame or a table page that cannot be had stops *)
(* a call at any page of its range.                                        *)
EXTENDS Structures, FiniteSets

CONSTANTS
    VmPages,  \* the pages between vmalloc_start and vmalloc_end
    VmFrames, \* the frames alloc_page can give
    IoFrames, \* the frames of devices
    VmSpaces, \* the roots beside init_mm's
    VmSizes   \* the sizes asked for, in pages

VmRoots == VmSpaces \cup {"init"}

Unmapped == 0

VmInit ==
    [areas |-> {}, free |-> VmFrames, cur |-> "init",
     map |-> [r \in VmRoots |-> [v \in VmPages |-> Unmapped]]]

(* The pages of an area, and those it reserves *)
AreaPages(a) == a.at .. a.at + a.n - 1

AreaRange(a) == a.at .. a.at + a.n

Gaps(vm, n) ==
    {v \in VmPages : /\ v + n \in VmPages
                     /\ \A a \in vm.areas : AreaRange(a) \cap (v .. v + n) = {}}

(* map_page_in_root_checked, where the page tables have room *)
MapChecked(vm, r, v, frame) ==
    IF vm.map[r][v] \notin {Unmapped, frame} THEN [ok |-> FALSE, vm |-> vm]
    ELSE [ok |-> TRUE, vm |-> [vm EXCEPT !.map[r][v] = frame]]

(* unmap_page_in_root *)
UnmapInRoot(vm, r, v) == [vm EXCEPT !.map[r][v] = Unmapped]

(* map_vmalloc_page: short is the root whose tables could not be extended, *)
(* or none.                                                                *)
MapVmallocPage(vm, v, frame, short) ==
    LET one  == MapChecked(vm, "init", v, frame)
        two  == MapChecked(one.vm, vm.cur, v, frame)
        back == IF vm.map["init"][v] = Unmapped THEN UnmapInRoot(one.vm, "init", v) ELSE one.vm
    IN IF ~one.ok \/ short = "init" THEN [ok |-> FALSE, vm |-> vm]
       ELSE IF vm.cur = "init" THEN one
       ELSE IF ~two.ok \/ short = vm.cur THEN [ok |-> FALSE, vm |-> back]
       ELSE two

(* get_vmalloc_phys *)
GetPhys(vm, v) ==
    IF vm.map[vm.cur][v] # Unmapped THEN vm.map[vm.cur][v] ELSE vm.map["init"][v]

(* unmap_vmalloc_page *)
UnmapVmallocPage(vm, v) == UnmapInRoot(UnmapInRoot(vm, "init", v), vm.cur, v)

(* The pages first .. last of an area unmapped, and their frames given     *)
(* back unless they are a device's: the loops of cleanup_partial and       *)
(* __vfree.                                                                *)
ReleasePages(vm, pages, io) ==
    LET gone == {GetPhys(vm, v) : v \in pages} \ {Unmapped}
    IN [vm EXCEPT !.map  = [r \in VmRoots |->
                               [v \in VmPages |->
                                   IF v \in pages /\ r \in {"init", vm.cur} THEN Unmapped
                                   ELSE vm.map[r][v]]],
                  !.free = IF io THEN @ ELSE @ \cup gone]

Vfree(vm, a) == ReleasePages([vm EXCEPT !.areas = @ \ {a}], AreaPages(a), a.io)

(* The first k pages of an area mapped, each to the frame frames gives it *)
MapPages(vm, a, k, frames) ==
    [vm EXCEPT !.free = @ \ {frames[i] : i \in 1 .. k},
               !.map  = [r \in VmRoots |->
                           [v \in VmPages |->
                               IF v \in a.at .. a.at + k - 1 /\ r \in {"init", vm.cur}
                               THEN frames[v - a.at + 1]
                               ELSE vm.map[r][v]]]]

(* The frames alloc_page gives, one after the other, from the low end *)
GivenFrames(vm, n) ==
    [i \in 1 .. n |-> CHOOSE f \in vm.free : Cardinality({g \in vm.free : g < f}) = i - 1]

-----------------------------------------------------------------------------
(* vmalloc: the range and the area are reserved, then page after page is   *)
(* allocated and mapped; a failure at page k frees what was mapped, page   *)
(* k's own frame included, and the reservation.                            *)
VmAlloc ==
    \E n \in VmSizes :
       /\ Gaps(obj, n) # {}
       /\ LET a     == [at |-> Least(Gaps(obj, n)), n |-> n, io |-> FALSE, phys |-> 0]
              with  == [obj EXCEPT !.areas = @ \cup {a}]
              short == Cardinality(obj.free) < n
          IN IF short
             THEN LET k    == Cardinality(obj.free)
                      part == MapPages(with, a, k, GivenFrames(obj, k))
                  IN Call("vmalloc",
                          [ReleasePages(part, a.at .. a.at + k - 1, FALSE)
                              EXCEPT !.areas = @ \ {a}],
                          ref)
             ELSE Call("vmalloc", MapPages(with, a, n, GivenFrames(obj, n)), ref \cup {a})

(* The same with page k's mapping refused, in init_mm's root or, undone    *)
(* there, in the current one.                                              *)
VmAllocUnmapped ==
    \E n \in VmSizes, root \in {"init", obj.cur} : \E k \in 0 .. n - 1 :
       /\ Gaps(obj, n) # {}
       /\ Cardinality(obj.free) > k
       /\ LET a      == [at |-> Least(Gaps(obj, n)), n |-> n, io |-> FALSE, phys |-> 0]
              with   == [obj EXCEPT !.areas = @ \cup {a}]
              frames == GivenFrames(obj, k + 1)
              part   == MapPages(with, a, k, frames)
              failed == MapVmallocPage([part EXCEPT !.free = @ \ {frames[k + 1]}],
                                       a.at + k, frames[k + 1], root).vm
              undone == ReleasePages([failed EXCEPT !.free = @ \cup {frames[k + 1]}],
                                     a.at .. a.at + k - 1, FALSE)
          IN Call("vmalloc", [undone EXCEPT !.areas = @ \ {a}], ref)

(* ioremap of a device's frames, and its failure at page k: vfree *)
VmIoremap ==
    \E n \in VmSizes, phys \in IoFrames :
       /\ Gaps(obj, n) # {}
       /\ \A i \in 0 .. n - 1 : phys + i \in IoFrames
       /\ LET a    == [at |-> Least(Gaps(obj, n)), n |-> n, io |-> TRUE, phys |-> phys]
              with == [obj EXCEPT !.areas = @ \cup {a}]
              dev  == [i \in 1 .. n |-> phys + i - 1]
          IN \/ Call("vmalloc", MapPages(with, a, n, dev), ref \cup {a})
             \/ \E k \in 0 .. n - 1 :
                   Call("vmalloc", Vfree(MapPages(with, a, k, dev), a), ref)

(* vfree and iounmap: an address that starts no area is ignored *)
VmFree ==
    \E a \in ref : Call("vmalloc", Vfree(obj, a), ref \ {a})

(* ensure_vmalloc_page_mapped_in_current, of a page the current root       *)
(* lacks: init_mm's mapping, else what ioremap recorded.                   *)
VmHeal ==
    \E v \in VmPages :
       /\ obj.map[obj.cur][v] = Unmapped
       /\ LET known == {a \in obj.areas : a.io /\ v \in AreaPages(a)}
              from  == IF obj.map["init"][v] # Unmapped THEN obj.map["init"][v]
                       ELSE IF known = {} THEN Unmapped
                       ELSE LET a == CHOOSE x \in known : TRUE IN a.phys + v - a.at
          IN Call("vmalloc",
                  IF from = Unmapped THEN obj ELSE MapVmallocPage(obj, v, from, "none").vm,
                  ref)

VmSwitch ==
    \E r \in VmRoots \ {obj.cur} :
       Call("vmalloc", [obj EXCEPT !.cur = r, !.map[r] = obj.map["init"]], ref)

VmNext ==
    /\ kind = "vmalloc"
    /\ \/ VmAlloc
       \/ VmAllocUnmapped
       \/ VmIoremap
       \/ VmFree
       \/ VmHeal
       \/ VmSwitch

-----------------------------------------------------------------------------
(* Areas never meet, guard pages included, and stay inside the region *)
VmDisjoint ==
    /\ obj.areas = ref
    /\ \A a \in ref : AreaRange(a) \subseteq VmPages
    /\ \A a, b \in ref : a # b => AreaRange(a) \cap AreaRange(b) = {}

(* init_mm's and the current root's tables map exactly the areas; a frame  *)
(* is free or mapped by one page.                                          *)
VmExact ==
    LET used == UNION {AreaPages(a) : a \in ref}
    IN /\ \A r \in {"init", obj.cur} :
             {v \in VmPages : obj.map[r][v] # Unmapped} = used
       /\ \A a \in ref, v \in VmPages :
             v \in AreaPages(a) =>
                IF a.io THEN obj.map["init"][v] = a.phys + v - a.at
                ELSE obj.map["init"][v] \in VmFrames \ obj.free
       /\ Cardinality(obj.free) +
             Cardinality({v \in used : obj.map["init"][v] \in VmFrames}) = Cardinality(VmFrames)
       /\ \A v, w \in used : v # w /\ obj.map["init"][v] \in VmFrames =>
             obj.map["init"][v] # obj.map["init"][w]
=============================================================================
