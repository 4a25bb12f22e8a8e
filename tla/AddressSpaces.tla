---------------------------- MODULE AddressSpaces ----------------------------
(***************************************************************************)
(* The user address spaces of kernel/src/mm: the VMA tree, page faults and *)
(* copy-on-write, mmap, munmap, mprotect and brk, the copy made by fork,   *)
(* the image that execve loads, and the release at exit and reaping.       *)
(*                                                                         *)
(* Addresses are page numbers and a frame has one value.  A user page has  *)
(* one reference per page-table entry; Page.mapcount moves with refcount   *)
(* on every path of user pages, so one counter stands for both.  Only the  *)
(* boot CPU runs user code and nothing preempts the kernel, so a system    *)
(* call is one step.  A fault that cannot be resolved panics the kernel    *)
(* (page_fault_handler), so it has no successor state.                     *)
(***************************************************************************)
EXTENDS Integers, FiniteSets, FiniteSetsExt

CONSTANTS
    Mms,         \* address spaces, each named by its process
    NoMm,        \* the parent of a process that the kernel started
    Root,        \* the process the kernel started
    Frames,      \* physical page frames
    NoFrame,     \* the frame of a page-table entry that is not present
    NPages,      \* bound on the virtual pages
    ImageStart,  \* first page of the PT_LOAD segments of a program
    ImageEnd,    \* end of the segments, where the heap starts
    StackMin,    \* lowest page the stack may grow to
    StackStart,  \* first page of the stack that execve maps
    StackTop,    \* end of the stack
    FilePages,   \* pages of the file that programs map
    NBackings,   \* bound on the mappings of the file
    Mappings,    \* the protection and kind, "anon", "shared" or "file", of what is mapped
    Prots,       \* protections asked of mprotect
    Budgets      \* bounds on the calls of each kind, one of which a behaviour uses

Pages    == 0 .. NPages - 1
Backings == 1 .. NBackings
Targets  == (ImageStart .. ImageEnd - 1) \cup (StackStart .. StackTop - 1)      \* pages execve maps
Values   == {"zero", "file", "image"} \cup Mms      \* a store writes the name of the process
Kinds    == {"map", "heap", "stack", "image"}

ASSUME LayoutAssumption ==
    /\ NPages \in Nat /\ NBackings \in Nat
    /\ {ImageStart, ImageEnd, StackMin, StackStart, StackTop} \subseteq 0 .. NPages
    /\ ImageStart < ImageEnd /\ ImageEnd <= StackStart /\ StackStart < StackTop
    /\ Root \in Mms /\ NoMm \notin Mms /\ NoFrame \notin Frames

ASSUME ProtectionAssumption ==
    /\ Prots \subseteq SUBSET {"r", "w"}
    /\ \A new \in Mappings : new.prot \subseteq {"r", "w"}

ASSUME BudgetAssumption ==
    /\ IsFiniteSet(Mms)
    /\ Budgets \subseteq [fork : Nat, mmap : Nat, fixed : Nat, unmap : Nat, protect : Nat, brk : Nat,
                          exec : Nat, kill : Nat, recorded : BOOLEAN]

VARIABLES
    phase,     \* "none" before fork, "live", "zombie", "reaped"
    parent,    \* the process that reaps it
    vmas,      \* Mm.vma_tree
    pte,       \* the leaf page-table entries
    ref,       \* Page.refcount; 0 when the frame is free
    val,       \* contents of a frame
    brk,       \* Mm.brk; Mm.start_brk is ImageEnd
    backing,   \* MmapBacking.refs; 0 when there is none
    next_id,   \* next_mmap_backing_id
    image,     \* Process.exec_mappings
    budget     \* calls left

vars == <<phase, parent, vmas, pte, ref, val, brk, backing, next_id, image, budget>>

Vma == [start : Pages, end : 1 .. NPages, prot : SUBSET {"r", "w"}, may_write : BOOLEAN, shared : BOOLEAN,
        file : {0} \cup Backings, pgoff : Nat, kind : Kinds]

NoEntry == [frame |-> NoFrame, w |-> FALSE]
Empty   == [p \in Pages |-> NoEntry]
Entry   == [frame : Frames \cup {NoFrame}, w : BOOLEAN]

\* The type of the VMA tree and of what gives it its bounds.
TreeTypeOK ==
    /\ vmas \in [Mms -> SUBSET Vma]
    /\ brk \in [Mms -> 0 .. NPages]
    /\ next_id \in 1 .. NBackings + 1

\* Type invariant.
MemTypeOK ==
    /\ TreeTypeOK
    /\ phase \in [Mms -> {"none", "live", "zombie", "reaped"}]
    /\ parent \in [Mms -> Mms \cup {NoMm}]
    /\ pte \in [Mms -> [Pages -> Entry]]
    /\ ref \in [Frames -> Nat]
    /\ val \in [Frames -> Values]
    /\ backing \in [Backings -> Nat]
    /\ \A m \in Mms : image[m] \subseteq [page : Pages, frame : Frames, w : BOOLEAN]

-----------------------------------------------------------------------------
(* The VMA tree. *)

Span(v) == v.start .. v.end - 1

Find(m, p) == {v \in vmas[m] : p \in Span(v)}

Covered(m) == UNION {Span(v) : v \in vmas[m]}

\* The VMAs that intersect pages a .. b - 1.
Hit(m, a, b) == {v \in vmas[m] : v.start < b /\ a < v.end}

\* Mutant of Slice: the offset moves the wrong way.
SliceBackwards(v, a, b) == [v EXCEPT !.start = a, !.end = b, !.pgoff = @ - (a - v.start)]

\* clone_vma_slice: a piece of a VMA, with the file offset of its new start.
Slice(v, a, b) == [v EXCEPT !.start = a, !.end = b, !.pgoff = @ + (a - v.start)]

Left(v, a)  == IF v.start < a THEN {Slice(v, v.start, a)} ELSE {}
Right(v, b) == IF b < v.end THEN {Slice(v, b, v.end)} ELSE {}

\* What a munmap of a .. b - 1 keeps of v.
Kept(v, a, b) == Left(v, a) \cup Right(v, b)

\* Mm.stack_vm: every change of the tree adds or subtracts the pages of the stack VMAs.
StackVm(m) == MapThenSumSet(LAMBDA v : v.end - v.start, {v \in vmas[m] : v.kind = "stack"})

\* backing_adjust_for_segments: a VMA v replaced by n[v] of its pieces keeps n[v] references.
Adjusted(n) ==
    [b \in Backings |-> Max({0, backing[b] + MapThenSumSet(LAMBDA v : n[v] - 1, {v \in DOMAIN n : v.file = b})})]

-----------------------------------------------------------------------------
(* Frames and page-table entries. *)

Free == {f \in Frames : ref[f] = 0}

Present(m, p) == pte[m][p].frame # NoFrame

\* free_page, once for every element of the function frame that is f; a free frame stays free.
Put(frame) ==
    [f \in Frames |-> Max({0, ref[f] - Cardinality({c \in DOMAIN frame : frame[c] = f})})]

\* The references become refs; whoever gets a free frame next overwrites its contents.
Release(refs) ==
    /\ ref' = refs
    /\ val' = [f \in Frames |-> IF refs[f] = 0 THEN "zero" ELSE val[f]]

\* The entries of m without those of the pages ps, and their references dropped.
UnmapAndRelease(m, ps) ==
    /\ pte' = [pte EXCEPT ![m] = [p \in Pages |-> IF p \in ps THEN NoEntry ELSE @[p]]]
    /\ Release(Put([p \in ps |-> pte[m][p].frame]))

-----------------------------------------------------------------------------
(* Init: one process, either as execve left it, or as a fork of such a     *)
(* process that has not written to its pages since its parent went.        *)

ImageVma == [start |-> ImageStart, end |-> ImageEnd, prot |-> {"r", "w"}, may_write |-> TRUE,
             shared |-> FALSE, file |-> 0, pgoff |-> 0, kind |-> "image"]
StackVma == [start |-> StackStart, end |-> StackTop, prot |-> {"r", "w"}, may_write |-> TRUE,
             shared |-> FALSE, file |-> 0, pgoff |-> 0, kind |-> "stack"]

Init ==
    /\ budget \in Budgets
    /\ phase = [m \in Mms |-> IF m = Root THEN "live" ELSE "none"]
    /\ parent = [m \in Mms |-> NoMm]
    /\ vmas = [m \in Mms |-> IF m = Root THEN {ImageVma, StackVma} ELSE {}]
    /\ \E load \in [Targets -> Frames] :
         /\ \A p, q \in Targets : load[p] = load[q] => p = q
         /\ pte = [m \in Mms |-> [p \in Pages |-> IF m = Root /\ p \in Targets
                                                    THEN [frame |-> load[p], w |-> budget.recorded]
                                                    ELSE NoEntry]]
         /\ ref = [f \in Frames |-> IF \E p \in Targets : load[p] = f THEN 1 ELSE 0]
         /\ val = [f \in Frames |-> IF \E p \in Targets : load[p] = f THEN "image" ELSE "zero"]
         /\ image = [m \in Mms |-> IF m = Root /\ budget.recorded
                                     THEN {[page |-> p, frame |-> load[p], w |-> TRUE] : p \in Targets}
                                     ELSE {}]
    /\ brk = [m \in Mms |-> IF m = Root THEN ImageEnd ELSE 0]
    /\ backing = [b \in Backings |-> 0]
    /\ next_id = 1

\* One call of the given kind, of which the behaviour has some left.
Spend(kind) == budget[kind] > 0 /\ budget' = [budget EXCEPT ![kind] = @ - 1]

-----------------------------------------------------------------------------
(* Page faults. *)

\* expand_stack_for_fault: page p, in no VMA, becomes part of the stack VMA above it.
Growing(m, p) ==
    {v \in vmas[m] : /\ Find(m, p) = {}
                     /\ StackMin <= p /\ p < StackTop - StackVm(m)
                     /\ v.kind = "stack" /\ v.start > p
                     /\ \A u \in vmas[m] : u.start >= p => v.start <= u.start}

\* The tree after the fault handler has looked for, or made, a VMA for p.
FaultTree(m, p) ==
    (vmas[m] \ Growing(m, p)) \cup {[v EXCEPT !.start = p] : v \in Growing(m, p)}

\* map_zero_page, and handle_file_fault for a VMA with a backing; past the end of
\* the file there is nothing to copy.
NotPresent(m, p, v) ==
    \E f \in Free :
        /\ v.file # 0 => v.pgoff + (p - v.start) \in FilePages
        /\ pte' = [pte EXCEPT ![m][p] = [frame |-> f, w |-> "w" \in v.prot]]
        /\ ref' = [ref EXCEPT ![f] = 1]
        /\ val' = [val EXCEPT ![f] = IF v.file = 0 THEN "zero" ELSE "file"]

\* Mutant of WriteProtected: remapping does not drop the reference to the old frame.
WriteProtectedKeepsOld(m, p, v) ==
    /\ v.may_write
    /\ \E g \in Free :
         /\ pte' = [pte EXCEPT ![m][p] = [frame |-> g, w |-> "w" \in v.prot]]
         /\ ref' = [ref EXCEPT ![g] = 1]
         /\ val' = [val EXCEPT ![g] = val[pte[m][p].frame]]

\* handle_write_protection: the only user of the frame gets it back for writing,
\* any other gets a copy (do_cow_fault) and map_page drops its reference.
WriteProtected(m, p, v) ==
    LET f == pte[m][p].frame
    IN  /\ v.may_write
        /\ \/ /\ ref[f] = 1
              /\ pte' = [pte EXCEPT ![m][p].w = "w" \in v.prot]
              /\ UNCHANGED <<ref, val>>
           \/ /\ ref[f] # 1
              /\ \E g \in Free :
                   /\ pte' = [pte EXCEPT ![m][p] = [frame |-> g, w |-> "w" \in v.prot]]
                   /\ ref' = [ref EXCEPT ![g] = 1, ![f] = Max({0, @ - 1})]
                   /\ val' = [val EXCEPT ![g] = val[f]]

\* handle_page_fault, when it ends in a retry.
PageFault(m, p, write) ==
    /\ phase[m] = "live"
    /\ ~ Present(m, p) \/ (write /\ ~ pte[m][p].w)
    /\ vmas' = [vmas EXCEPT ![m] = FaultTree(m, p)]
    /\ \E v \in FaultTree(m, p) :
         /\ p \in Span(v)
         /\ (IF write THEN "w" ELSE "r") \in v.prot
         /\ IF Present(m, p) THEN WriteProtected(m, p, v) ELSE NotPresent(m, p, v)
    /\ UNCHANGED <<phase, parent, brk, backing, next_id, image, budget>>

\* A user store, or a store of the kernel through a user pointer, that does not fault.
Store(m, p) ==
    /\ phase[m] = "live" /\ pte[m][p].w
    /\ val' = [val EXCEPT ![pte[m][p].frame] = m]
    /\ UNCHANGED <<phase, parent, vmas, pte, ref, brk, backing, next_id, image, budget>>

-----------------------------------------------------------------------------
(* mmap, munmap, mprotect, brk. *)

\* plan_unmap_changes: the VMAs of m with a .. b - 1 cut out of them.
CutTree(m, a, b) ==
    (vmas[m] \ Hit(m, a, b)) \cup UNION {Kept(v, a, b) : v \in Hit(m, a, b)}

\* Mutant of CutBackings: nothing is released.
CutBackingsNever(m, a, b) == Adjusted([v \in Hit(m, a, b) |-> Max({1, Cardinality(Kept(v, a, b))})])

\* The references that cutting leaves.
CutBackings(m, a, b) == Adjusted([v \in Hit(m, a, b) |-> Cardinality(Kept(v, a, b))])

\* sys_munmap: the pages that were in a VMA are unmapped too.
Munmap(m, a, b) ==
    /\ phase[m] = "live" /\ Spend("unmap")
    /\ vmas' = [vmas EXCEPT ![m] = CutTree(m, a, b)]
    /\ backing' = CutBackings(m, a, b)
    /\ UnmapAndRelease(m, (a .. b - 1) \cap Covered(m))
    /\ UNCHANGED <<phase, parent, brk, next_id, image>>

\* mmap_select_addr: a range with neither VMAs nor present entries.
Unused(m, a, b) == \A p \in a .. b - 1 : p \notin Covered(m) /\ ~ Present(m, p)

\* mmap_flags_to_vm_flags and the VMA of a mapping.
NewVma(a, b, prot, kind, id) ==
    [start |-> a, end |-> b, prot |-> prot, may_write |-> "w" \in prot,
     shared |-> kind = "shared", file |-> id, pgoff |-> 0, kind |-> "map"]

\* sys_mmap with a usable address: MAP_FIXED unmaps what is in the way, otherwise
\* an unused range is taken.  A file mapping creates a backing.
Mmap(m, a, b, prot, kind, fixed) ==
    LET id == IF kind = "file" THEN next_id ELSE 0
    IN  /\ phase[m] = "live" /\ Spend(IF fixed THEN "fixed" ELSE "mmap")
        /\ fixed \/ Unused(m, a, b)
        /\ id \in {0} \cup Backings
        /\ vmas' = [vmas EXCEPT ![m] = CutTree(m, a, b) \cup {NewVma(a, b, prot, kind, id)}]
        /\ backing' = [c \in Backings |-> IF c = id THEN 1 ELSE CutBackings(m, a, b)[c]]
        /\ next_id' = IF id = 0 THEN next_id ELSE next_id + 1
        /\ UnmapAndRelease(m, (a .. b - 1) \cap Covered(m))
        /\ UNCHANGED <<phase, parent, brk, image>>

\* sys_mmap with MAP_FIXED and a bad descriptor, which is looked up last.
MmapBadFd(m, a, b) ==
    /\ phase[m] = "live" /\ Spend("fixed")
    /\ vmas' = [vmas EXCEPT ![m] = CutTree(m, a, b)]
    /\ backing' = CutBackings(m, a, b)
    /\ UnmapAndRelease(m, (a .. b - 1) \cap Covered(m))
    /\ UNCHANGED <<phase, parent, brk, next_id, image>>

\* plan_mprotect_updates: what becomes of a VMA of which a .. b - 1 gets protection prot.
Protected(v, a, b, prot) ==
    LET mid == Slice(v, IF v.start < a THEN a ELSE v.start, IF b < v.end THEN b ELSE v.end)
    IN  Left(v, a) \cup Right(v, b)
        \cup {[mid EXCEPT !.prot = prot, !.may_write = @ \/ "w" \in prot]}

\* mprotect_range_for_mm: the VMAs of m, of which a .. b - 1 gets protection prot.
ProtectedVmas(m, a, b, prot) ==
    (vmas[m] \ Hit(m, a, b)) \cup UNION {Protected(v, a, b, prot) : v \in Hit(m, a, b)}

\* apply_pte_flags_range: present entries get the new flags whatever shares their frame.
ApplyPteFlags(m, a, b, prot) ==
    [p \in Pages |-> IF p \in a .. b - 1 /\ Present(m, p) THEN [pte[m][p] EXCEPT !.w = "w" \in prot]
                                                          ELSE pte[m][p]]

\* sys_mprotect: every page of the range must be in a VMA.
Mprotect(m, a, b, prot) ==
    /\ phase[m] = "live" /\ Spend("protect")
    /\ a .. b - 1 \subseteq Covered(m)
    /\ vmas' = [vmas EXCEPT ![m] = ProtectedVmas(m, a, b, prot)]
    /\ backing' = Adjusted([v \in Hit(m, a, b) |-> Cardinality(Protected(v, a, b, prot))])
    /\ pte' = [pte EXCEPT ![m] = ApplyPteFlags(m, a, b, prot)]
    /\ UNCHANGED <<phase, parent, ref, val, brk, next_id, image>>

HeapVma(a, b) == [start |-> a, end |-> b, prot |-> {"r", "w"}, may_write |-> TRUE, shared |-> FALSE,
                  file |-> 0, pgoff |-> 0, kind |-> "heap"]

\* Mutant of BrkGrow: no test for VMAs in the way.
BrkGrowBlindly(m, b) ==
    LET heap == {v \in Find(m, brk[m] - 1) : v.kind = "heap"}
    IN  /\ b > brk[m]
        /\ vmas' = [vmas EXCEPT ![m] = (@ \ heap) \cup (IF heap = {} THEN {HeapVma(brk[m], b)}
                                                         ELSE {[v EXCEPT !.end = b] : v \in heap})]

\* do_brk upwards: the heap VMA below the break is extended, or a new one made.
BrkGrow(m, b) ==
    LET heap == {v \in Find(m, brk[m] - 1) : v.kind = "heap"}
    IN  /\ b > brk[m]
        /\ Hit(m, brk[m], b) = {}
        /\ vmas' = [vmas EXCEPT ![m] = (@ \ heap) \cup (IF heap = {} THEN {HeapVma(brk[m], b)}
                                                         ELSE {[v EXCEPT !.end = b] : v \in heap})]

\* do_brk downwards: a heap VMA around the new break ends there, and its pages stay
\* mapped; one that would become empty makes the call fail.
BrkShrink(m, b) ==
    LET heap == {v \in Find(m, b) : v.kind = "heap"}
    IN  /\ ImageEnd <= b /\ b < brk[m]
        /\ \A v \in heap : v.start < b
        /\ vmas' = [vmas EXCEPT ![m] = (@ \ heap) \cup {[v EXCEPT !.end = b] : v \in heap}]

Brk(m, b) ==
    /\ phase[m] = "live" /\ Spend("brk")
    /\ BrkGrow(m, b) \/ BrkShrink(m, b)
    /\ brk' = [brk EXCEPT ![m] = b]
    /\ UNCHANGED <<phase, parent, pte, ref, val, backing, next_id, image>>

-----------------------------------------------------------------------------
(* fork, execve, exit. *)

\* to_user_pte_flags of the VMA of page p, and the flags clone_user_present_pages
\* gives to both entries of a private page.
PteW(v) == "w" \in v.prot
CowW(v) == PteW(v) /\ (v.shared \/ ~ v.may_write)

VmaOf(m, p) == CHOOSE v \in vmas[m] : p \in Span(v)

\* Mutant of CowEntries: the parent goes on writing to the pages it shares.
CowEntriesUntouched(m, ps) == pte[m]

\* The parent's entries after the pages ps have been cloned.
CowEntries(m, ps) ==
    [p \in Pages |-> IF p \in ps /\ CowW(VmaOf(m, p)) # PteW(VmaOf(m, p))
                       THEN [pte[m][p] EXCEPT !.w = FALSE]
                       ELSE pte[m][p]]

Cloneable(m) == {p \in Covered(m) : Present(m, p)}

\* mm_clone: VMAs, backings and present pages; pages outside the VMAs are not copied.
Fork(m, c) ==
    /\ phase[m] = "live" /\ phase[c] = "none" /\ Spend("fork")
    /\ phase' = [phase EXCEPT ![c] = "live"]
    /\ parent' = [parent EXCEPT ![c] = m]
    /\ vmas' = [vmas EXCEPT ![c] = vmas[m]]
    /\ backing' = [b \in Backings |-> backing[b] + Cardinality({v \in vmas[m] : v.file = b})]
    /\ pte' = [pte EXCEPT ![m] = CowEntries(m, Cloneable(m)),
                          ![c] = [p \in Pages |-> IF p \in Cloneable(m)
                                                    THEN [frame |-> pte[m][p].frame, w |-> CowW(VmaOf(m, p))]
                                                    ELSE NoEntry]]
    /\ ref' = [f \in Frames |-> ref[f] + Cardinality({p \in Cloneable(m) : pte[m][p].frame = f})]
    /\ brk' = [brk EXCEPT ![c] = brk[m]]
    /\ UNCHANGED <<val, next_id, image>>

\* mm_clone that cannot get a page-table page for page q: the references of the
\* copy are given back, but the entries of the parent stay write-protected.
ForkFails(m, q) ==
    /\ phase[m] = "live" /\ q \in Cloneable(m) /\ Spend("fork")
    /\ pte' = [pte EXCEPT ![m] = CowEntries(m, {p \in Cloneable(m) : p < q})]
    /\ UNCHANGED <<phase, parent, vmas, ref, val, brk, backing, next_id, image>>

\* unmap_exec_mappings: the entries of m without the pages the last execve recorded.
Unloaded(m) == [p \in Pages |-> IF \E r \in image[m] : r.page = p THEN NoEntry ELSE pte[m][p]]

\* remap_exec_mappings: the recorded pages are mapped again.
Remapped(m) ==
    [p \in Pages |->
       IF \E r \in image[m] : r.page = p
         THEN LET r == CHOOSE r \in image[m] : r.page = p IN [frame |-> r.frame, w |-> r.w]
         ELSE pte[m][p]]

\* validate_target_unmapped.
CanStage(m) == \A p \in Targets : Unloaded(m)[p] = NoEntry

\* stage_pt_load_mappings: a free frame of its own for each of the pages.
Stagings == {load \in [Targets -> Free] : \A p, q \in Targets : load[p] = load[q] => p = q}

\* copy_segment_page_data and setup_initial_user_stack: what the frames hold.
CopySegments(load) == [f \in Frames |-> IF \E p \in Targets : load[p] = f THEN "image" ELSE val[f]]

\* set_current_exec_mappings: the record of an image.
ExecMappings(load) == {[page |-> p, frame |-> load[p], w |-> TRUE] : p \in Targets}

\* install_current_exec_vmas: the VMAs of the image replace the others, and the
\* heap starts at its end.
InstallExecVmas(m) ==
    /\ vmas' = [vmas EXCEPT ![m] = {ImageVma, StackVma}]
    /\ brk' = [brk EXCEPT ![m] = ImageEnd]

\* sys_execve that succeeds: the new image is mapped and recorded, the VMAs are
\* replaced.  The frames of the old image, and the entries and backings of the
\* mappings that are not part of it, are not released.
Exec(m) ==
    /\ phase[m] = "live" /\ Spend("exec") /\ CanStage(m)
    /\ \E load \in Stagings :
         /\ pte' = [pte EXCEPT ![m] = [p \in Pages |-> IF p \in Targets THEN [frame |-> load[p], w |-> TRUE]
                                                        ELSE Unloaded(m)[p]]]
         /\ ref' = [f \in Frames |-> IF \E p \in Targets : load[p] = f THEN 1 ELSE ref[f]]
         /\ val' = CopySegments(load)
         /\ image' = [image EXCEPT ![m] = ExecMappings(load)]
    /\ InstallExecVmas(m)
    /\ UNCHANGED <<phase, parent, backing, next_id>>

\* sys_execve that fails: while staging, or after it with arguments that do not fit
\* on the stack.  What was staged is released and the recorded pages mapped again.
ExecFails(m) ==
    /\ phase[m] = "live" /\ Spend("exec")
    /\ pte' = [pte EXCEPT ![m] = Remapped(m)]
    /\ UNCHANGED <<phase, parent, vmas, ref, val, brk, backing, next_id, image>>

\* exit_current_process: rollback_exec_mappings in the address space of the process.
Exit(m) ==
    /\ phase[m] = "live"
    /\ phase' = [phase EXCEPT ![m] = "zombie"]
    /\ pte' = [pte EXCEPT ![m] = Unloaded(m)]
    /\ Release(Put([r \in image[m] |-> r.frame]))
    /\ image' = [image EXCEPT ![m] = {}]
    /\ UNCHANGED <<parent, vmas, brk, backing, next_id, budget>>

\* SIGKILL or SIGTERM: the recorded mappings stay with the zombie.
Kill(m) ==
    /\ phase[m] = "live" /\ Spend("kill")
    /\ phase' = [phase EXCEPT ![m] = "zombie"]
    /\ UNCHANGED <<parent, vmas, pte, ref, val, brk, backing, next_id, image>>

\* reap_observed_child, by the parent or by the supervisor that started Root:
\* mm_release tears the address space down; records that are left are then rolled
\* back in the address space of the process that reaps.
Reap(m) ==
    LET r == parent[m]
    IN  /\ phase[m] = "zombie"
        /\ r # NoMm => phase[r] = "live"
        /\ phase' = [phase EXCEPT ![m] = "reaped"]
        /\ vmas' = [vmas EXCEPT ![m] = {}]
        /\ backing' = [b \in Backings |-> Max({0, backing[b] - Cardinality({v \in vmas[m] : v.file = b})})]
        /\ pte' = [n \in Mms |-> IF n = m THEN Empty
                                 ELSE IF n = r
                                   THEN [p \in Pages |-> IF \E i \in image[m] : i.page = p THEN NoEntry ELSE pte[n][p]]
                                   ELSE pte[n]]
        /\ Release([f \in Frames |->
                     Max({0, Put([p \in Pages |-> pte[m][p].frame])[f] - Cardinality({i \in image[m] : i.frame = f})})])
        /\ image' = [image EXCEPT ![m] = {}]
        /\ UNCHANGED <<parent, brk, next_id, budget>>

-----------------------------------------------------------------------------
Ranges == {r \in Pages \X (1 .. NPages) : r[1] < r[2]}

Next ==
    \E m \in Mms :
        \/ \E p \in Pages, write \in BOOLEAN : PageFault(m, p, write)
        \/ \E p \in Pages : Store(m, p)
        \/ \E r \in Ranges : Munmap(m, r[1], r[2])
        \/ \E r \in Ranges, new \in Mappings, fixed \in BOOLEAN : Mmap(m, r[1], r[2], new.prot, new.kind, fixed)
        \/ \E r \in Ranges : MmapBadFd(m, r[1], r[2])
        \/ \E r \in Ranges, prot \in Prots : Mprotect(m, r[1], r[2], prot)
        \/ \E b \in 1 .. NPages : Brk(m, b)
        \/ \E c \in Mms : Fork(m, c)
        \/ \E q \in Pages : ForkFails(m, q)
        \/ Exec(m)
        \/ ExecFails(m)
        \/ Exit(m)
        \/ Kill(m)
        \/ Reap(m)

Spec == Init /\ [][Next]_vars

-----------------------------------------------------------------------------
(* Properties. *)

\* No two VMAs of an address space overlap, and none is empty, however munmap,
\* mprotect, brk, stack growth and execve cut and extend them.
VmasDisjoint ==
    \A m \in Mms : \A u, v \in vmas[m] :
        u.start < u.end /\ (u # v => u.end <= v.start \/ v.end <= u.start)

Mappers(f) == {c \in Mms \X Pages : pte[c[1]][c[2]].frame = f}

\* Nobody maps a frame without a reference to it, so no frame is free or reused
\* while an address space still maps it.
MappedIsReferenced == \A f \in Frames : ref[f] >= Cardinality(Mappers(f))

\* Where no execve image is recorded, a frame has exactly the references of the
\* entries that map it: nothing leaks through fork, copy-on-write or munmap.
FrameRefsExact ==
    /\ MappedIsReferenced
    /\ ~ budget.recorded => \A f \in Frames : ref[f] = Cardinality(Mappers(f))

\* A file mapping has one reference for each VMA that shows part of it, however the
\* VMAs were split, copied by fork or cut; execve does not release those it drops.
BackingRefsExact ==
    \A b \in Backings :
        LET n == Cardinality({c \in Mms \X UNION {vmas[m] : m \in Mms} : c[2] \in vmas[c[1]] /\ c[2].file = b})
        IN  IF budget.recorded THEN backing[b] >= n ELSE backing[b] = n

\* A page of a private mapping that another entry maps too is not writable.
CowSharedReadOnly ==
    \A m, n \in Mms, p, q \in Pages :
        (Present(m, p) /\ pte[m][p].frame = pte[n][q].frame /\ <<m, p>> # <<n, q>>)
        => \A v \in Find(m, p) : ~ v.shared => ~ pte[m][p].w

-----------------------------------------------------------------------------
(* What a program sees, and the memory it is promised. *)

\* The value a read of page p would return; a page in no VMA may still be mapped.
Seen(m, p) ==
    IF Present(m, p) THEN val[pte[m][p].frame]
    ELSE IF Find(m, p) = {} THEN "none"
    ELSE LET v == VmaOf(m, p)
         IN  IF v.file = 0 THEN "zero" ELSE IF v.pgoff + (p - v.start) \in FilePages THEN "file" ELSE "none"

Promised == INSTANCE Memory WITH
    space  <- [m \in Mms |-> [p \in Pages |->
                 IF phase[m] = "live" THEN [v |-> Seen(m, p), mapped |-> Find(m, p) # {}]
                                      ELSE [v |-> "none", mapped |-> FALSE]]],
    shared <- {c \in Mms \X Pages : \E v \in Find(c[1], c[2]) : v.shared}

\* Every process has a memory of its own, which only it changes: fork copies what is
\* mapped of it, a store changes one page of it, and other processes see that only in
\* pages mapped MAP_SHARED; new pages are zero, show the file, or keep what the process
\* itself left in a page that stayed present outside every VMA (do_brk, execve).
PrivateMemory == Promised!Spec
=============================================================================
