------------------------------ MODULE Memblock ------------------------------
(***************************************************************************)
(* The boot-time memory map (mm/phys/memblock.rs) and what mm/boot/setup.rs*)
(* hands on to the page allocator.  Addresses count from 0 in units, a     *)
(* page being PageUnits of them, so that reservations can begin and end    *)
(* inside a page.  As init_memblock leaves it, page 0 is reserved, which   *)
(* is what makes the answer 0 of an allocation mean failure.               *)
(***************************************************************************)
EXTENDS Structures, SequencesExt

CONSTANTS PageUnits, MemoryMaps,     \* the usable ranges <<first page, pages>> the firmware may report
          MaxRegions,                \* MEMBLOCK_REGIONS_MAX
          MbSizes, MbAligns, MbLimit

Units(base, size) == base .. base + size - 1
REnd(r)    == r.base + r.size
NoAddr     == -1
Less(a, b) == IF a < b THEN a ELSE b
More(a, b) == IF a > b THEN a ELSE b
AlignDown(addr, align) == (addr \div align) * align
AlignUp(addr, align)   == AlignDown(addr + align - 1, align)

----------------------------------------------------------------------------
(* A list of regions in ascending order, with its total size.              *)

NoRegions == [regions |-> <<>>, total |-> 0]

RECURSIVE MergeRegions(_, _)
MergeRegions(t, i) ==
    IF i >= Len(t.regions) THEN t
    ELSE LET cur == t.regions[i]  next == t.regions[i + 1]
             both == [base |-> cur.base, size |-> More(REnd(cur), REnd(next)) - cur.base]
         IN  IF REnd(cur) < next.base THEN MergeRegions(t, i + 1)
             ELSE MergeRegions([regions |-> ReplaceAt(RemoveAt(t.regions, i + 1), i, both),
                                 total |-> t.total - cur.size - next.size + both.size], i)

Meeting(r, base, end) == r.base <= end /\ base <= REnd(r)

\* memblock_add_range and memblock_merge_regions: ok is FALSE when the table is full
AddRange(t, base, size) ==
    LET end  == base + size
        stop == {i \in DOMAIN t.regions : Meeting(t.regions[i], base, end) \/ base < t.regions[i].base}
        i    == IF stop = {} THEN Len(t.regions) + 1 ELSE Min(stop)
        r    == t.regions[i]
        grown == [base |-> Less(r.base, base), size |-> More(REnd(r), end) - Less(r.base, base)]
    IN  IF size = 0 THEN [t |-> t, ok |-> TRUE]
        ELSE IF stop # {} /\ Meeting(r, base, end)
             THEN [t |-> MergeRegions([regions |-> ReplaceAt(t.regions, i, grown),
                                        total |-> t.total - r.size + grown.size], i), ok |-> TRUE]
        ELSE IF Len(t.regions) >= MaxRegions THEN [t |-> t, ok |-> FALSE]
        ELSE [t |-> [regions |-> InsertAt(t.regions, i, [base |-> base, size |-> size]), total |-> t.total + size],
              ok |-> TRUE]

\* memblock_remove_range from the i-th region on: it is dropped, split, or cut at one end
RECURSIVE RemoveFromRegion(_, _, _, _)
RemoveFromRegion(t, i, base, end) ==
    IF i > Len(t.regions) THEN [t |-> t, ok |-> TRUE]
    ELSE LET r == t.regions[i]
             Cut(rs, gone, j) == RemoveFromRegion([regions |-> rs, total |-> t.total - gone], j, base, end)
             kept(b, e) == [base |-> b, size |-> e - b]
         IN  IF r.base >= end \/ REnd(r) <= base THEN RemoveFromRegion(t, i + 1, base, end)
             ELSE IF base <= r.base /\ end >= REnd(r) THEN Cut(RemoveAt(t.regions, i), r.size, i)
             ELSE IF base > r.base /\ end < REnd(r)
                  THEN IF Len(t.regions) >= MaxRegions THEN [t |-> t, ok |-> FALSE]
                       ELSE Cut(InsertAt(ReplaceAt(t.regions, i, kept(r.base, base)), i + 1, kept(end, REnd(r))),
                                end - base, i + 2)
             ELSE IF base <= r.base THEN Cut(ReplaceAt(t.regions, i, kept(end, REnd(r))), end - r.base, i + 1)
             ELSE Cut(ReplaceAt(t.regions, i, kept(r.base, base)), REnd(r) - base, i + 1)
RemoveRegion(t, base, size) == IF size = 0 THEN [t |-> t, ok |-> TRUE] ELSE RemoveFromRegion(t, 1, base, base + size)

----------------------------------------------------------------------------
Saturating(a, b) == IF a < b THEN 0 ELSE a - b
Hits(rs, base, size) == {i \in DOMAIN rs : base < REnd(rs[i]) /\ base + size > rs[i].base}

\* The candidate moves below, or above, the first reserved region it meets.
RECURSIVE FreeTopDown(_, _, _, _, _)
FreeTopDown(rs, size, align, start, candidate) ==
    LET hit  == rs[Min(Hits(rs, candidate, size))]
        next == AlignDown(Saturating(hit.base, size), align)
    IN  IF candidate < start THEN NoAddr
        ELSE IF Hits(rs, candidate, size) = {} THEN candidate
        ELSE IF hit.base = 0 \/ next = 0 THEN NoAddr ELSE FreeTopDown(rs, size, align, start, next)

RECURSIVE FreeBottomUp(_, _, _, _, _)
FreeBottomUp(rs, size, align, end, candidate) ==
    IF candidate + size > end THEN NoAddr
    ELSE IF Hits(rs, candidate, size) = {} THEN candidate
    ELSE FreeBottomUp(rs, size, align, end, AlignUp(REnd(rs[Min(Hits(rs, candidate, size))]), align))

\* memblock_alloc: the regions are tried from the top, or from the bottom
MbAlloc(mb, size, align) ==
    LET Found(r) == LET start == r.base  end == Less(REnd(r), mb.limit)
                    IN  IF start >= end THEN NoAddr
                        ELSE IF mb.bottomUp THEN FreeBottomUp(mb.reserved.regions, size, align, end, AlignUp(start, align))
                        ELSE FreeTopDown(mb.reserved.regions, size, align, start, AlignDown(Saturating(end, size), align))
        fits == {i \in DOMAIN mb.memory.regions :
                    /\ Found(mb.memory.regions[i]) # NoAddr
                    /\ AddRange(mb.reserved, Found(mb.memory.regions[i]), size).ok}
        addr == Found(mb.memory.regions[IF mb.bottomUp THEN Min(fits) ELSE Max(fits)])
    IN  IF size = 0 \/ fits = {} THEN [mb |-> mb, addr |-> 0]
        ELSE [mb |-> [mb EXCEPT !.reserved = AddRange(@, addr, size).t], addr |-> addr]

\* memblock_for_each_free_region: what the reserved regions leave of each region of memory
RECURSIVE FreeWithin(_, _, _)
FreeWithin(rs, current, end) ==
    IF rs = <<>> \/ Head(rs).base >= end THEN IF current < end THEN << <<current, end>> >> ELSE <<>>
    ELSE IF REnd(Head(rs)) <= current THEN FreeWithin(Tail(rs), current, end)
    ELSE (IF current < Head(rs).base THEN << <<current, Less(Head(rs).base, end)>> >> ELSE <<>>)
            \o FreeWithin(Tail(rs), More(current, REnd(Head(rs))), end)
FreeRegions(mb) == FlattenSeq([i \in DOMAIN mb.memory.regions |->
                        FreeWithin(mb.reserved.regions, mb.memory.regions[i].base, REnd(mb.memory.regions[i]))])

\* init_buddy_system: the pages handed to the page allocator, run by run
PfnOverlapsReserved(mb, pfn) == Hits(mb.reserved.regions, pfn * PageUnits, PageUnits) # {}
HandedOver(mb) == UNION {{pfn \in r[1] \div PageUnits .. r[2] \div PageUnits - 1 : ~PfnOverlapsReserved(mb, pfn)}
                            : r \in ToSet(FreeRegions(mb))}

----------------------------------------------------------------------------
(* ref: the units that are memory, those set aside by memblock_reserve,    *)
(* and those of each allocation.                                           *)

MbMap(map) == FoldLeft(LAMBDA t, r : AddRange(t, r[1] * PageUnits, r[2] * PageUnits).t, NoRegions, map)
MbInit(map) ==
    /\ kind = "memblock"
    /\ obj = [memory |-> MbMap(map), reserved |-> AddRange(NoRegions, 0, PageUnits).t, bottomUp |-> FALSE, limit |-> MbLimit]
    /\ ref = [memory |-> UNION {Units(map[i][1] * PageUnits, map[i][2] * PageUnits) : i \in DOMAIN map},
              fixed |-> Units(0, PageUnits), held |-> <<>>]

Held == UNION {ref.held[a] : a \in DOMAIN ref.held}
MbReserve(base, size) ==
    LET a == AddRange(obj.reserved, base, size)
    IN  Call("memblock", [obj EXCEPT !.reserved = a.t],
             IF a.ok THEN [ref EXCEPT !.fixed = @ \cup (Units(base, size) \ Held)] ELSE ref)
MbAllocate(size, align) ==
    LET a == MbAlloc(obj, size, align)
    IN  Call("memblock", a.mb, IF a.addr = 0 THEN ref
                               ELSE [ref EXCEPT !.held = Updated(@, a.addr, Units(a.addr, size))])
MbFree(addr) ==
    LET a == RemoveRegion(obj.reserved, addr, Cardinality(ref.held[addr]))
    IN  Call("memblock", [obj EXCEPT !.reserved = a.t],
             IF a.ok THEN [ref EXCEPT !.held = Without(@, {addr})] ELSE ref)
MbBottomUp(up)  == Call("memblock", [obj EXCEPT !.bottomUp = up], ref)
MbSetLimit(lim) == Call("memblock", [obj EXCEPT !.limit = lim], ref)

MbNext ==
    /\ kind = "memblock"
    /\ \/ \E base \in 0 .. MbLimit - 1, size \in MbSizes : base + size <= MbLimit /\ MbReserve(base, size)
       \/ \E size \in MbSizes, align \in MbAligns : MbAllocate(size, align)
       \/ \E addr \in DOMAIN ref.held : MbFree(addr)
       \/ \E up \in BOOLEAN : MbBottomUp(up)
       \/ \E lim \in {MbLimit \div 2, MbLimit} : MbSetLimit(lim)

----------------------------------------------------------------------------
RegionUnits(t) == UNION {Units(t.regions[i].base, t.regions[i].size) : i \in DOMAIN t.regions}
RegionsTidy(t) ==    \* ascending, apart, not empty, and counted
    /\ \A i \in DOMAIN t.regions : t.regions[i].size > 0
    /\ \A i \in 1 .. Len(t.regions) - 1 : REnd(t.regions[i]) < t.regions[i + 1].base
    /\ t.total = Cardinality(RegionUnits(t)) /\ Len(t.regions) <= MaxRegions

\* Allocations lie in memory, apart from each other and from what is reserved.
MbDisjoint ==
    /\ Held \subseteq ref.memory /\ Held \cap ref.fixed = {}
    /\ \A a, b \in DOMAIN ref.held : a # b => ref.held[a] \cap ref.held[b] = {}
\* The map holds those units and no others, and the page allocator gets the
\* pages that are entirely free, each once.
MbExact ==
    /\ RegionsTidy(obj.memory) /\ RegionUnits(obj.memory) = ref.memory
    /\ RegionsTidy(obj.reserved) /\ RegionUnits(obj.reserved) = ref.fixed \cup Held
    /\ UNION {r[1] .. r[2] - 1 : r \in ToSet(FreeRegions(obj))} = ref.memory \ (ref.fixed \cup Held)
    /\ HandedOver(obj) = {pfn \in 0 .. MbLimit \div PageUnits :
                             Units(pfn * PageUnits, PageUnits) \subseteq ref.memory \ (ref.fixed \cup Held)}
=============================================================================
