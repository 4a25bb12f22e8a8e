------------------------------- MODULE Slabs -------------------------------
(***************************************************************************)
(* The kernel heaps (mm/alloc): slub.rs over the page allocator, the       *)
(* header that heap.rs puts in front of an aligned object, and the bump    *)
(* allocator of heap.rs that serves until slub.rs is ready.  An address is *)
(* counted in words from frame 0.                                          *)
(***************************************************************************)
EXTENDS Frames

CONSTANTS PageWords, SlabSizes,     \* the object sizes of the caches, ascending
          MinObjects,               \* objects a slab must have
          HeaderWords, Requests, ObjAligns, MaxLive,
          Segments, MaxSegments     \* chunks <<first word, last word>> that a growing heap may get

Caches == DOMAIN SlabSizes
RoundUp(addr, align) == ((addr + align - 1) \div align) * align
Largest == SlabSizes[Len(SlabSizes)]
SlabOrder(c)   == Min({o \in Orders : (PageWords * Pages(o)) \div SlabSizes[c] >= MinObjects})
SlabObjects(c) == (PageWords * Pages(SlabOrder(c))) \div SlabSizes[c]
FindKmallocCache(size) == Min({c \in Caches : SlabSizes[c] >= size})
GetOrder(pages) == Min({o \in 0 .. MaxOrder : Pages(o) >= pages})
PfnOf(addr) == addr \div PageWords
HeadOf(addr, c) == (PfnOf(addr) \div Pages(SlabOrder(c))) * Pages(SlabOrder(c))

\* sl: the frames, cache[c].partial the slabs of a cache (full ones too) from
\* the head, list[pfn] the free objects of the slab at pfn, slab[pfn] the cache
\* a frame belongs to (PageFlags::SLAB, the owner and private)
SlInit == [fm |-> [FmInit EXCEPT !.ready = TRUE], cache |-> [c \in Caches |-> [partial |-> <<>>, allocated |-> 0, slabs |-> 0]],
           list |-> [p \in Pfns |-> <<>>], slab |-> [p \in Pfns |-> Nil], large |-> 0]

NoObject == -1
\* alloc_from_partial takes the first free object of the first slab that has one
AllocFromPartial(sl, c) ==
    LET some == SelectSeq(sl.cache[c].partial, LAMBDA p : sl.list[p] # <<>>)
        pfn  == Head(some)
    IN  IF some = <<>> THEN [sl |-> sl, addr |-> NoObject]
        ELSE [sl |-> [sl EXCEPT !.list[pfn] = Tail(@), !.cache[c].allocated = @ + 1], addr |-> Head(sl.list[pfn])]
AllocNewSlab(sl, c) ==
    LET a    == AllocPages(sl.fm, SlabOrder(c), Len(Zones), FALSE)
        objs == [i \in 1 .. SlabObjects(c) |-> a.pfn * PageWords + (i - 1) * SlabSizes[c]]
    IN  IF a.pfn = NoPage THEN [sl |-> sl, addr |-> NoObject]
        ELSE [sl |-> [sl EXCEPT !.fm = a.fm, !.list[a.pfn] = Tail(objs), !.cache[c].partial = <<a.pfn>> \o @,
                                !.slab = [p \in Pfns |-> IF p \in Block(a.pfn, SlabOrder(c)) THEN c ELSE @[p]],
                                !.cache[c].slabs = @ + 1, !.cache[c].allocated = @ + 1], addr |-> objs[1]]
CacheAlloc(sl, c) == IF AllocFromPartial(sl, c).addr # NoObject THEN AllocFromPartial(sl, c) ELSE AllocNewSlab(sl, c)
\* KmemCache::free: the object goes on its slab's list; a slab that is free
\* throughout is taken off the cache and given back
CacheFree(sl, cpu, c, addr) ==
    LET pfn == HeadOf(addr, c)
        sl1 == [sl EXCEPT !.list[pfn] = <<addr>> \o @, !.cache[c].allocated = @ - 1]
        sl2 == [sl1 EXCEPT !.cache[c].partial = SelectSeq(@, LAMBDA p : p # pfn), !.list[pfn] = <<>>,
                           !.slab = [p \in Pfns |-> IF p \in Block(pfn, SlabOrder(c)) THEN Nil ELSE @[p]],
                           !.cache[c].slabs = IF @ = 0 THEN 0 ELSE @ - 1]
    IN  IF Len(sl1.list[pfn]) = SlabObjects(c) /\ pfn \in ToSet(sl.cache[c].partial)
        THEN [sl2 EXCEPT !.fm = FreePages(sl2.fm, cpu, pfn, SlabOrder(c))] ELSE sl1

Kmalloc(sl, size) ==
    LET a == AllocPages(sl.fm, GetOrder((size + PageWords - 1) \div PageWords), Len(Zones), FALSE)
    IN  IF size > Largest
        THEN IF a.pfn = NoPage THEN [sl |-> sl, addr |-> NoObject]
             ELSE [sl |-> [sl EXCEPT !.fm = a.fm, !.large = @ + 1], addr |-> a.pfn * PageWords]
        ELSE CacheAlloc(sl, FindKmallocCache(size))
\* a frame that is no slab's is a large object, of the order its descriptor says
Kfree(sl, cpu, addr) ==
    LET pfn == PfnOf(addr)
    IN  IF sl.slab[pfn] # Nil THEN CacheFree(sl, cpu, sl.slab[pfn], addr)
        ELSE IF addr % PageWords # 0 THEN sl
        ELSE [sl EXCEPT !.large = IF @ = 0 THEN 0 ELSE @ - 1, !.fm = FreePages(@, cpu, pfn, sl.fm.page[pfn].order)]

\* Mutant of AlignedRequest: no room is asked for the header.
AlignedRequestBare(size, align) == size + (align - 1)

\* kmalloc_aligned and kfree_aligned: the header names the block
AlignedRequest(size, align) == size + (align - 1) + HeaderWords
UserAddr(raw, align)        == RoundUp(raw + HeaderWords, align)

----------------------------------------------------------------------------
(* ref: the live objects: block |-> [user, size, align]                    *)

SlAlloc(size, align) ==
    LET a == Kmalloc(obj, AlignedRequest(size, align))
    IN  /\ Cardinality(DOMAIN ref) < MaxLive
        /\ Call("slub", a.sl, IF a.addr = NoObject THEN ref
                              ELSE Updated(ref, a.addr, [user |-> UserAddr(a.addr, align), size |-> size, align |-> align]))
SlFree(cpu, raw) ==
    LET o == ref[raw]
    IN  UserAddr(raw, o.align) = o.user /\ Call("slub", Kfree(obj, cpu, raw), Without(ref, {raw}))
SlNext == /\ kind = "slub"
          /\ \/ \E size \in Requests, align \in ObjAligns : SlAlloc(size, align)
             \/ \E cpu \in Cpus, raw \in DOMAIN ref : SlFree(cpu, raw)

BlockWords(raw) ==    \* the words a block may use
    LET c == obj.slab[PfnOf(raw)]
    IN  raw .. raw + (IF c # Nil THEN SlabSizes[c] ELSE PageWords * Pages(obj.fm.page[PfnOf(raw)].order)) - 1
\* Blocks are apart, and none is a free object; the header and the object of a
\* request lie inside its block; an object is aligned.
SlDisjoint ==
    /\ \A a, b \in DOMAIN ref : a # b => BlockWords(a) \cap BlockWords(b) = {}
    /\ \A a \in DOMAIN ref : /\ ref[a].user % ref[a].align = 0
                             /\ ref[a].user - HeaderWords .. ref[a].user + ref[a].size - 1 \subseteq BlockWords(a)
                             /\ \A p \in Pfns : a \notin ToSet(obj.list[p])
SlBlocks == [p \in {q \in Pfns : \/ \E c \in Caches : q \in ToSet(obj.cache[c].partial)
                                 \/ obj.slab[q] = Nil /\ q * PageWords \in DOMAIN ref} |-> obj.fm.page[p].order]
\* Every frame of a slab knows its cache, a slab's objects are free or live,
\* and the counters say how many.
SlCounted ==
    /\ FmOnce(obj.fm, SlBlocks)
    /\ \A c \in Caches :
          LET slabs == ToSet(obj.cache[c].partial)
              live  == {a \in DOMAIN ref : obj.slab[PfnOf(a)] = c}
          IN  /\ {p \in Pfns : obj.slab[p] = c} = UNION {Block(p, SlabOrder(c)) : p \in slabs}
              /\ Len(obj.cache[c].partial) = Cardinality(slabs) /\ obj.cache[c].slabs = Cardinality(slabs)
              /\ obj.cache[c].allocated = Cardinality(live)
              /\ \A p \in slabs : Len(obj.list[p]) + Cardinality({a \in live : HeadOf(a, c) = p}) = SlabObjects(c)
    /\ obj.large = Cardinality({a \in DOMAIN ref : obj.slab[PfnOf(a)] = Nil})

----------------------------------------------------------------------------
(* SimpleHeap: segments that only grow, until nothing is live              *)

HpInit == [segs |-> <<>>, live |-> 0]
SegAlloc(seg, size, align) == LET start == RoundUp(seg.next, align)
                              IN  IF start + size > seg.end THEN NoObject ELSE start
Segment(s) == [start |-> s[1], end |-> s[2] + 1, next |-> s[1]]
\* grow_heap_once: a segment is appended unless pages or the table run out
GrowHeap(hp, s, need) == IF s[2] + 1 - s[1] < need \/ Len(hp.segs) >= MaxSegments THEN hp
                         ELSE [hp EXCEPT !.segs = Append(@, Segment(s))]
HpTake(hp, size, align) ==
    LET fits == {i \in DOMAIN hp.segs : SegAlloc(hp.segs[i], size, align) # NoObject}
        i    == Min(fits)
        addr == SegAlloc(hp.segs[i], size, align)
    IN  IF fits = {} THEN [hp |-> hp, addr |-> NoObject]
        ELSE [hp |-> [hp EXCEPT !.segs[i].next = addr + size, !.live = @ + 1], addr |-> addr]
Had(hp) == {hp.segs[i].start : i \in DOMAIN hp.segs}
\* alloc retries after it has grown the heap by a segment that is large enough
HpAlloc(size, align, s) ==
    LET first == HpTake(obj, size, align)
        a     == IF first.addr # NoObject THEN first ELSE HpTake(GrowHeap(obj, s, size + align - 1), size, align)
    IN  /\ s[1] \notin Had(obj)
        /\ Call("heap", a.hp, IF a.addr = NoObject THEN ref ELSE Updated(ref, a.addr, a.addr .. a.addr + size - 1))
HpFree(addr) ==
    Call("heap", IF obj.live = 1 THEN [segs |-> [i \in DOMAIN obj.segs |-> [obj.segs[i] EXCEPT !.next = obj.segs[i].start]], live |-> 0]
                 ELSE [obj EXCEPT !.live = @ - 1], Without(ref, {addr}))
HpNext == /\ kind = "heap"
          /\ \/ \E size \in Requests, align \in ObjAligns, s \in Segments : HpAlloc(size, align, s)
             \/ \E addr \in DOMAIN ref : HpFree(addr)
HpDisjoint == /\ \A a, b \in DOMAIN ref : a # b => ref[a] \cap ref[b] = {}
              /\ \A a \in DOMAIN ref : \E i \in DOMAIN obj.segs : ref[a] \subseteq obj.segs[i].start .. obj.segs[i].next - 1
              /\ obj.live = Cardinality(DOMAIN ref)
=============================================================================
