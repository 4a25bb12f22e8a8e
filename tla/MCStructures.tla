---------------------------- MODULE MCStructures ----------------------------
(***************************************************************************)
(* One run over every sequential structure: the first step of a behaviour  *)
(* is the choice of the structure, and the rest are calls on it.           *)
(***************************************************************************)
EXTENDS RedBlackTree, RadixTree, MapleTree, Lists, Buffers, Memblock, Slabs,
        VirtAlloc, Dma, PageTables, Terminal, WaitQueues, Mounts, Shell, Volumes, TLC

NoEntries == <<>>

\* Two memory maps, one with a hole; two zones with a gap between them; two
\* slab caches; two runs of words the early heap can grow by.
Maps == {<< <<0, 4>> >>, << <<2, 2>>, <<0, 1>> >>}
TwoZones == << <<0, 2>>, <<4, 4>> >>
TwoSizes == <<2, 4>>
TwoSegments == {<<8, 15>>, <<24, 31>>}

\* A terminal as it is set up, one without line editing, and one that turns
\* newlines round.
FlagSets == {{"ICRNL", "ICANON", "OPOST", "ONLCR"}, {"IGNCR", "ISTRIP", "OPOST", "OCRNL"}, {"INLCR", "ICANON"}}

\* Texts with every kind of sequence, whole and cut into several writes: a
\* position off the screen, a number that saturates, a colour left incomplete,
\* one attribute more than a sequence can carry.
Csi(s) == <<"esc", "[">> \o s
SomeTexts ==
    {<<"a">>, <<"nl">>, <<"cr">>, <<"tab">>, <<"bs">>, <<"esc", "E">>, <<"esc", "M">>, <<"esc", "]", "A">>, <<"bel">>,
     Csi(<<"A">>), Csi(<<"9", "9", "9", "9", "9", "B">>), Csi(<<"9", "C">>), Csi(<<"D">>), Csi(<<"F">>), Csi(<<"2", "G">>),
     Csi(<<"2", "J">>), Csi(<<"2", ";", "2", "H">>), Csi(<<"9", ";", "9", "H">>), Csi(<<"?", "2", "5", "h">>)}
SomeColours ==
    {<<"a">>, <<"esc", "P">>, <<"\\">>, <<"esc", "c">>, Csi(<<"m">>), Csi(<<"1", "m">>),
     Csi(<<"3", "3", ";", "1", "0", "4", "m">>), Csi(<<"3", "9", ";", "4", "9", "m">>),
     Csi(<<"3", "8", ";", "5", ";", "2", "0", "0", "m">>), Csi(<<"4", "8", ";", "2", ";", "1", ";", "2", ";", "3", "m">>),
     Csi(<<"3", "8">>), <<";", "9", "4">>, <<"m">>, Csi(<<"4", "8", ";", "4", "4", ";", "5", "m">>),
     Csi(<<"3", "8", ";", "5", ";", "9", ";", "4", "8", ";", "5", ";", "9", "m">>)}
\* Two commands, one the beginning of the other; a command that prints nothing
\* and one that prints a line.
TwoCommands == << <<"a", "a">>, <<"a", "a", "a">> >>
Outputs == {<<>>, <<"x", "nl">>}

Init ==
    \/ kind = "rbtree" /\ obj = RbEmpty /\ ref = NoEntries
    \/ RdInit
    \/ kind = "btree" /\ obj = BtEmpty /\ ref = NoEntries
    \/ kind = "maple" /\ obj = BtEmpty /\ ref = NoEntries
    \/ kind = "list" /\ obj = ListInit /\ ref = [h \in Heads |-> <<>>]
    \/ kind = "hlist" /\ obj = HListInit /\ ref = [h \in Heads |-> <<>>]
    \/ kind = "lru" /\ obj = LruInit /\ ref = [order |-> <<>>, capacity |-> Capacity]
    \/ kind = "ring" /\ obj = RingInit /\ ref = <<>>
    \/ kind = "ids" /\ obj = BitmapInit /\ ref = {}
    \/ \E m \in MemoryMaps : MbInit(m)
    \/ kind = "frames" /\ obj = FmInit /\ ref = <<>>
    \/ kind = "slub" /\ obj = SlInit /\ ref = <<>>
    \/ kind = "heap" /\ obj = HpInit /\ ref = <<>>
    \/ kind = "vmalloc" /\ obj = VmInit /\ ref = {}
    \/ kind = "swiotlb" /\ obj = SwInit /\ ref = {}
    \/ kind = "coherent" /\ obj = CoInit /\ ref = {}
    \/ kind = "ptables" /\ obj = PtBoot /\ ref = PtRef
    \/ \E flags \in PtyFlags :
         kind \in {"ptyin", "ptyout"} /\ obj = PtyAllocate(flags) /\ ref = [input |-> <<>>, line |-> <<>>]
    \/ kind = "waitq" /\ obj = <<>> /\ ref = NoWaiters
    \/ kind = "mounts" /\ obj = MountRoot(NoEntries, "rootfs") /\ ref = {<<Root, "rootfs", NoSource>>}
    \/ kind = "screen" /\ obj = ConsoleInit(3, 2) /\ ref = PlainScreen(3, 2)
    \/ kind = "colours" /\ obj = ConsoleInit(1, 1) /\ ref = PlainScreen(1, 1)
    \/ kind = "shell" /\ obj = ShellNew /\ ref = PlainShell
    \/ VolumesInit
Next ==
    \/ RbNext \/ RdNext \/ BtNext \/ MpNext
    \/ ListNext \/ HListNext \/ LruNext \/ RingNext \/ IdsNext
    \/ MbNext \/ FmNext \/ SlNext \/ HpNext \/ VmNext
    \/ SwNext \/ CoNext \/ PtNext
    \/ PtyInNext \/ PtyOutNext \/ WaitQueueNext \/ MountNext
    \/ ConsoleNext \/ ShellNext \/ ArchiveNext
Spec == Init /\ [][Next]_structure

\* Whatever sequence of calls a structure has gone through, it holds what the
\* plain definition of those calls gives: no entry is lost, duplicated or
\* misplaced by a rotation, a split, a merge, a splice or a wrapped index
\* (libs/rbtree, rdtree, btree, mptree, list, hlist, lru, ring_buffer, bitmap,
\* id_allocator), by the line editing of a terminal (tty/pty/mod.rs:447), by the
\* order of a wait queue (wait_queue/mod.rs:108), by the escape sequences of the
\* console (tty/console/vt.rs:109, fbcon.rs:313) or by the shell's history and
\* redraws (shell/sh.rs:86, 138).  Three things break it, and nothing else does:
\* a radix tree's call that iterates leaves the indices its iterator passed over
\* as they were (rdtree/tree.rs:786), a B-tree's removal panics on a drained node
\* (btree/tree.rs:414), and a terminal's reader panics over a newline that comes
\* to a full line (pty/mod.rs:458).
ContainersAgree ==
    CASE kind = "rbtree" -> RbContents(obj) = ref
      [] kind = "rdtree" -> RdAgrees
      [] kind \in {"btree", "maple"} -> BtAgrees(obj, ref)
      [] kind = "list" -> ListContents(obj) = ref
      [] kind = "hlist" -> HListContents(obj) = ref
      [] kind = "lru" -> LruContents(obj) = ref
      [] kind = "ring" -> AsSlices(obj) = ref
      [] kind = "ids" -> IdsContents(obj) = ref
      [] kind \in {"ptyin", "ptyout"} -> PtyAgrees
      [] kind = "waitq" -> WaitersAgree
      [] kind \in {"screen", "colours"} -> ConsoleAgrees
      [] kind = "shell" -> ShellAgrees
      [] OTHER -> TRUE

\* The layout that the next call relies on: red-black colours and parents
\* (rbtree/tree.rs:180, 225), the entry counts of a radix node
\* (rdtree/tree.rs:154, 274), search order and equal depth of a B-tree
\* (btree/tree.rs:122, 350), disjoint ranges (mptree/tree.rs:56), the back links
\* of both lists (list_impl.rs:206, hlist/mod.rs:114) and of the LRU chain
\* (lru/cache.rs:340), and freed ring slots (ring_buffer/mod.rs:87).
ContainerShape ==
    CASE kind = "rbtree" -> RbBalanced(obj)
      [] kind = "rdtree" -> obj.height > 0 => obj.len = obj.root.count /\ Counted(obj.root, obj.height - 1)
      [] kind = "btree" -> obj.panicked \/ BtOrdered(obj)
      [] kind = "maple" -> obj.panicked \/ (BtOrdered(obj) /\ MpDisjoint(obj))
      [] kind = "list" -> ListLinked(obj)
      [] kind = "hlist" -> HListLinked(obj)
      [] kind = "lru" -> LruLinked(obj)
      [] kind = "ring" -> RingTidy(obj)
      [] OTHER -> TRUE

\* A structure answers a question (the nearest keys, the ends of a range, the
\* first gap, the overlaps, the next free bit, the mount that a path lies in,
\* fs/vfs/mount.rs:73, the bytes of a file and the names of a directory,
\* fs/backing/fat/mod.rs:220, 258, fs/backing/initramfs.rs:249) as a definition
\* over its contents answers it, in every state the calls can reach that is not a
\* panic.  What is asked has these limits, each one a fault of the code: a radix
\* tree's bounds are asked for indices that its height covers (rdtree/tree.rs:387,
\* 436) and its iterators and ranges are complete while it has one level and
\* ordered always (tree.rs:786, 666); first and last of a B-tree with a drained
\* leaf may be nothing (btree/tree.rs:414); find_gap for a size that exceeds the
\* window may answer its lower end (mptree/tree.rs:116).
QueriesAgree ==
    CASE kind = "rbtree" -> RbAnswers(obj, ref)
      [] kind = "rdtree" -> RdAnswers(obj, RdHeld)
      [] kind = "btree" -> BtAnswers(obj, ref)
      [] kind = "maple" -> obj.panicked \/ MpAnswers(obj, ref)
      [] kind = "ids" -> IdsAnswers(obj, ref)
      [] kind = "mounts" -> MountsAgree
      [] kind = "fat" -> FatAnswers(obj)
      [] kind = "fatdir" -> DirAnswers(obj)
      [] kind = "initramfs" -> ArchiveAnswers(obj)
      [] OTHER -> TRUE

\* Every frame is in one place, once: on one zone's free list at its order, on
\* one CPU's list, in one block that was handed out, in one slab or under one
\* coherent buffer, through every split, merge, refill, drain and fallback
\* (phys/buddy.rs:152, 217, phys/pcp.rs:142, 317, alloc/slub.rs:228, 336,
\* dma/mod.rs:659); the counters and the frames' descriptors say the same.
FramesOnce ==
    CASE kind = "frames" -> FmOnce(obj, FmHeld) /\ FmCounted
      [] kind = "slub" -> SlCounted
      [] kind = "coherent" -> CoOnce
      [] OTHER -> TRUE

\* What one caller was given overlaps nothing that another was given, that is
\* still free or that is reserved: early reservations (phys/memblock.rs:250),
\* slab objects with their alignment header (alloc/slub.rs:178,
\* alloc/heap.rs:284), bytes of the early heap (alloc/heap.rs:222), vmalloc
\* areas with their guard page (alloc/vmalloc.rs:372) and bounce slots
\* (dma/swiotlb.rs:207).
AllocationsDisjoint ==
    CASE kind = "memblock" -> MbDisjoint
      [] kind = "slub" -> SlDisjoint
      [] kind = "heap" -> HpDisjoint
      [] kind = "vmalloc" -> VmDisjoint
      [] kind = "swiotlb" -> SwDisjoint
      [] OTHER -> TRUE

\* The tables that stand for memory say exactly what was asked of them: the
\* early map hands over the pages that are entirely free (phys/memblock.rs:345,
\* boot/setup.rs:340); the page tables of init_mm map every area's page and
\* nothing else, a call that fails half-way included (alloc/vmalloc.rs:498,
\* 541); user code sees the pages its own address space mapped, through the
\* shadow copies of kernel tables and their return (paging.rs:1298, 1470), and
\* no table page goes while an entry refers to it.
TablesExact ==
    CASE kind = "memblock" -> MbExact
      [] kind = "vmalloc" -> VmExact
      [] kind = "ptables" -> PtHeld(obj) /\ PtExact
      [] OTHER -> TRUE
=============================================================================
