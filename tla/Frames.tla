------------------------------- MODULE Frames -------------------------------
(***************************************************************************)
(* The page allocator (mm/phys): the buddy lists of each zone (buddy.rs,   *)
(* zone.rs), the per-CPU page lists in front of them (pcp.rs) and the page *)
(* descriptors (page.rs).  A call runs under the zone's lock and is one    *)
(* step.  Zones are numbered as the lists are: a request for zone z is     *)
(* served from z, then from the zones below it.                            *)
(***************************************************************************)
EXTENDS Structures, SequencesExt

CONSTANTS Zones,        \* a sequence of <<first frame, frames>>
          Holes,        \* frames that are reserved at boot
          MaxOrder, Cpus, PcpHigh, PcpBatch, MaxRefs

Pfns      == UNION {Zones[z][1] .. Zones[z][1] + Zones[z][2] - 1 : z \in DOMAIN Zones}
Orders    == 0 .. MaxOrder - 1
Pages(order) == 2 ^ order
Block(pfn, order) == pfn .. pfn + Pages(order) - 1
ContainsPfn(z, pfn) == pfn >= Zones[z][1] /\ pfn < Zones[z][1] + Zones[z][2]
ZoneOf(pfn) == CHOOSE z \in DOMAIN Zones : ContainsPfn(z, pfn)
\* pfn xor 2^order
BuddyPfn(pfn, order) == IF (pfn \div Pages(order)) % 2 = 0 THEN pfn + Pages(order) ELSE pfn - Pages(order)

----------------------------------------------------------------------------
(* fm: page[pfn], free[z][order] and pcp[cpu][z] from the head of each     *)
(* list, count[z] the zone's free_pages, strays the pages that the checks  *)
(* of the per-CPU lists have turned away.                                  *)

AddToBuddy(fm, z, pfn, order) ==
    [fm EXCEPT !.page[pfn].buddy = TRUE, !.page[pfn].order = order, !.page[pfn].owner = "buddy",
               !.free[z][order] = <<pfn>> \o @, !.count[z] = @ + Pages(order)]
RemoveFromBuddy(fm, z, pfn, order) ==
    [fm EXCEPT !.page[pfn].buddy = FALSE, !.free[z][order] = SelectSeq(@, LAMBDA p : p # pfn),
               !.count[z] = IF @ < Pages(order) THEN 0 ELSE @ - Pages(order)]
SanitizePage(fm, pfn, order) == [fm EXCEPT !.page[pfn].owner = "allocated", !.page[pfn].order = order]

\* init_zone_buddy: the largest aligned blocks from start on
RECURSIVE InitZoneBuddy(_, _, _, _)
InitZoneBuddy(fm, z, pfn, end) ==
    LET order == Max({0} \cup {o \in Orders : pfn % Pages(o) = 0 /\ pfn + Pages(o) <= end})
    IN  IF pfn >= end THEN fm ELSE InitZoneBuddy(AddToBuddy(fm, z, pfn, order), z, pfn + Pages(order), end)
\* init_zone_buddy_filtered: run by run between the reserved frames
RECURSIVE InitZoneFiltered(_, _, _, _)
InitZoneFiltered(fm, z, start, end) ==
    LET stop == Min({end} \cup {h \in Holes : h >= start})
    IN  IF start >= end THEN fm
        ELSE InitZoneFiltered(InitZoneBuddy(fm, z, start, stop), z, stop + 1, end)

PageInit(pfn) == [refs |-> IF pfn \in Holes THEN 1 ELSE 0, buddy |-> FALSE, order |-> 0, compound |-> FALSE,
                  owner |-> IF pfn \in Holes THEN "reserved" ELSE "unknown"]
NoLists == [z \in DOMAIN Zones |-> <<>>]
FmInit ==
    FoldLeftDomain(LAMBDA fm, z : InitZoneFiltered(fm, z, Zones[z][1], Zones[z][1] + Zones[z][2]),
        [page |-> [pfn \in Pfns |-> PageInit(pfn)], free |-> [z \in DOMAIN Zones |-> [o \in Orders |-> <<>>]],
         count |-> [z \in DOMAIN Zones |-> 0], pcp |-> [c \in Cpus |-> NoLists], ready |-> FALSE, strays |-> 0],
        Zones)

----------------------------------------------------------------------------
\* expand_and_alloc: the head of a larger block's list, its upper halves put back
RECURSIVE Expand(_, _, _, _, _)
Expand(fm, z, pfn, high, low) ==
    IF high = low THEN fm
    ELSE Expand(AddToBuddy(fm, z, pfn + Pages(high - 1), high - 1), z, pfn, high - 1, low)

NoPage == -1
Prepare(fm, pfn, order, comp) ==
    [SanitizePage(fm, pfn, order) EXCEPT
        !.page = [p \in Pfns |-> [@[p] EXCEPT !.refs = IF p = pfn THEN 1 ELSE @, !.buddy = @ /\ p # pfn,
                                              !.compound = @ \/ (comp /\ order > 0 /\ p \in Block(pfn, order))]]]
ZoneAllocPages(fm, z, order, comp) ==
    LET full == {o \in order .. MaxOrder - 1 : fm.free[z][o] # <<>>}
        high == Min(full)
        pfn  == Head(fm.free[z][high])
    IN  IF full = {} THEN [fm |-> fm, pfn |-> NoPage]
        ELSE [fm |-> Prepare(Expand(RemoveFromBuddy(fm, z, pfn, high), z, pfn, high, order), pfn, order, comp), pfn |-> pfn]

\* alloc_pages walks the zone list of the request downwards
AllocPages(fm, order, zone, comp) ==
    LET has == {z \in 1 .. zone : \E o \in order .. MaxOrder - 1 : fm.free[z][o] # <<>>}
    IN  IF order >= MaxOrder \/ has = {} THEN [fm |-> fm, pfn |-> NoPage]
        ELSE ZoneAllocPages(fm, Max(has), order, comp)

\* free_pages below the reference count: merge with the buddy while it is free
RECURSIVE Coalesce(_, _, _, _)
Coalesce(fm, z, pfn, order) ==
    LET buddy == BuddyPfn(pfn, order)
    IN  IF order < MaxOrder - 1 /\ ContainsPfn(z, buddy) /\ fm.page[buddy].buddy /\ fm.page[buddy].order = order
        THEN Coalesce(RemoveFromBuddy(fm, z, buddy, order), z, IF pfn < buddy THEN pfn ELSE buddy, order + 1)
        ELSE AddToBuddy(fm, z, pfn, order)

----------------------------------------------------------------------------
(* The per-CPU lists                                                       *)

RECURSIVE RefillFromBuddy(_, _, _, _)
RefillFromBuddy(fm, cpu, z, batch) ==
    LET pfn == Head(fm.free[z][0])
        out == RemoveFromBuddy(fm, z, pfn, 0)
    IN  IF batch = 0 \/ fm.free[z][0] = <<>> THEN fm
        ELSE RefillFromBuddy([out EXCEPT !.page[pfn].owner = "pcp", !.pcp[cpu][z] = <<pfn>> \o @], cpu, z, batch - 1)
RECURSIVE DrainToBuddy(_, _, _, _)
DrainToBuddy(fm, cpu, z, batch) ==
    IF batch = 0 \/ fm.pcp[cpu][z] = <<>> THEN fm
    ELSE DrainToBuddy(AddToBuddy([fm EXCEPT !.pcp[cpu][z] = Tail(@)], z, Head(fm.pcp[cpu][z]), 0), cpu, z, batch - 1)
FallbackToBuddy(fm, pfn) ==
    AddToBuddy([fm EXCEPT !.page[pfn].buddy = FALSE, !.strays = @ + 1], ZoneOf(pfn), pfn, 0)

\* pcp_alloc_page: the list of each zone from the wanted one down, refilled
\* once from the single pages of the zone; a page that is not marked as
\* belonging to the lists goes back to the zone
RECURSIVE PcpAllocPage(_, _, _)
PcpAllocPage(fm, cpu, z) ==
    LET fm1 == IF z > 0 /\ fm.pcp[cpu][z] = <<>> /\ fm.count[z] > 0 THEN RefillFromBuddy(fm, cpu, z, PcpBatch) ELSE fm
        pfn == Head(fm1.pcp[cpu][z])
        out == [fm1 EXCEPT !.pcp[cpu][z] = Tail(@)]
    IN  IF z = 0 THEN [fm |-> fm, pfn |-> NoPage]
        ELSE IF fm1.pcp[cpu][z] = <<>> THEN PcpAllocPage(fm1, cpu, z - 1)
        ELSE IF ZoneOf(pfn) # z \/ fm1.page[pfn].owner # "pcp" THEN PcpAllocPage(FallbackToBuddy(out, pfn), cpu, z - 1)
        ELSE [fm |-> [out EXCEPT !.page[pfn].owner = "allocated"], pfn |-> pfn]
PcpFreePage(fm, cpu, pfn) ==
    LET z   == ZoneOf(pfn)
        fm1 == [fm EXCEPT !.page[pfn].owner = "pcp", !.pcp[cpu][z] = <<pfn>> \o @]
    IN  IF fm.page[pfn].owner \notin {"allocated", "unknown"} THEN FallbackToBuddy(fm, pfn)
        ELSE IF Len(fm1.pcp[cpu][z]) > PcpHigh THEN DrainToBuddy(fm1, cpu, z, PcpBatch) ELSE fm1
DrainAll(fm) ==
    FoldSet(LAMBDA c, f : FoldLeftDomain(LAMBDA g, z : DrainToBuddy(g, c, z, Cardinality(Pfns)), f, Zones), fm, Cpus)

AllocPage(fm, cpu, zone) ==
    LET a == IF fm.ready THEN PcpAllocPage(fm, cpu, zone) ELSE [fm |-> fm, pfn |-> NoPage]
    IN  IF a.pfn = NoPage THEN AllocPages(a.fm, 0, zone, FALSE)
        ELSE [fm |-> Prepare(a.fm, a.pfn, 0, FALSE), pfn |-> a.pfn]

\* Mutant of FreePages: the block goes although another holder has a reference.
FreePagesAtOnce(fm, cpu, pfn, order) ==
    LET fm1 == SanitizePage([fm EXCEPT !.page[pfn].refs = IF @ = 0 THEN 0 ELSE @ - 1], pfn, order)
    IN  IF order >= MaxOrder \/ fm.page[pfn].refs = 0 THEN fm
        ELSE IF order = 0 /\ fm.ready THEN PcpFreePage(fm1, cpu, pfn)
        ELSE Coalesce(fm1, ZoneOf(pfn), pfn, order)

\* free_pages: a count of zero is reported and nothing is done
FreePages(fm, cpu, pfn, order) ==
    LET fm1 == [fm EXCEPT !.page[pfn].refs = @ - 1]
        fm2 == IF fm1.page[pfn].compound
               THEN [fm1 EXCEPT !.page = [p \in Pfns |-> [@[p] EXCEPT !.compound = @ /\ p \notin Block(pfn, order)]]] ELSE fm1
        fm3 == SanitizePage(fm2, pfn, order)
    IN  IF order >= MaxOrder \/ fm.page[pfn].refs = 0 THEN fm
        ELSE IF fm1.page[pfn].refs > 0 THEN fm1
        ELSE IF order = 0 /\ fm.ready THEN PcpFreePage(fm3, cpu, pfn)
        ELSE Coalesce(fm3, ZoneOf(pfn), pfn, order)

----------------------------------------------------------------------------
(* ref: the blocks that are held, by first frame, with their references    *)

Given(a, order) == IF a.pfn = NoPage THEN ref ELSE Updated(ref, a.pfn, [order |-> order, refs |-> 1])
FmAllocPages(order, zone, comp) == LET a == AllocPages(obj, order, zone, comp) IN Call("frames", a.fm, Given(a, order))
FmAllocPage(cpu, zone) == LET a == AllocPage(obj, cpu, zone) IN Call("frames", a.fm, Given(a, 0))
FmGet(pfn) == /\ ref[pfn].refs < MaxRefs
              /\ Call("frames", [obj EXCEPT !.page[pfn].refs = @ + 1], [ref EXCEPT ![pfn].refs = @ + 1])
FmFree(cpu, pfn) ==
    Call("frames", FreePages(obj, cpu, pfn, ref[pfn].order),
         IF ref[pfn].refs > 1 THEN [ref EXCEPT ![pfn].refs = @ - 1] ELSE Without(ref, {pfn}))
\* a free of a frame that nobody holds: the count, not the caller, decides
FmFreeAgain(cpu, pfn) == pfn \notin UNION {Block(p, ref[p].order) : p \in DOMAIN ref}
                         /\ obj.page[pfn].refs = 0 /\ Call("frames", FreePages(obj, cpu, pfn, 0), ref)
FmReady == ~obj.ready /\ Call("frames", [obj EXCEPT !.ready = TRUE, !.pcp = [c \in Cpus |-> NoLists]], ref)
FmDrain == obj.ready /\ Call("frames", DrainAll(obj), ref)

FmNext ==
    /\ kind = "frames"
    /\ \/ \E order \in 1 .. MaxOrder, zone \in DOMAIN Zones, comp \in BOOLEAN : FmAllocPages(order, zone, comp)
       \/ \E cpu \in Cpus, zone \in DOMAIN Zones : FmAllocPage(cpu, zone)
       \/ \E cpu \in Cpus, pfn \in DOMAIN ref : FmFree(cpu, pfn)
       \/ \E cpu \in Cpus, pfn \in Pfns : FmFreeAgain(cpu, pfn)
       \/ \E pfn \in DOMAIN ref : FmGet(pfn)
       \/ FmReady \/ FmDrain

----------------------------------------------------------------------------
\* Where the frames are: on a zone's list, on a CPU's list, or in a held block.
FmPlaces(fm, held) ==
    {<<Block(f[1], f[2]), "free">> : f \in UNION {{<<p, o>> : p \in ToSet(fm.free[z][o])} : z \in DOMAIN Zones, o \in Orders}}
      \cup {<<{p}, "pcp">> : p \in UNION {ToSet(fm.pcp[c][z]) : c \in Cpus, z \in DOMAIN Zones}}
      \cup {<<Block(p, held[p]), "held">> : p \in DOMAIN held}
FmListed(fm) ==
    MapThenSumSet(LAMBDA z : FoldFunction(LAMBDA s, n : Len(s) + n, 0, fm.free[z]), DOMAIN Zones)
      + MapThenSumSet(LAMBDA c : FoldFunction(LAMBDA s, n : Len(s) + n, 0, fm.pcp[c]), Cpus)

\* Every usable frame is in exactly one place, once; a list holds blocks of its
\* zone and order, aligned; counters and descriptors say the same.
FmOnce(fm, held) ==
    LET places == FmPlaces(fm, held)
    IN  /\ UNION {f[1] : f \in places} = Pfns \ Holes
        /\ Cardinality(places) = FmListed(fm) + Cardinality(DOMAIN held)
        /\ MapThenSumSet(LAMBDA f : Cardinality(f[1]), places) = Cardinality(Pfns \ Holes)
        /\ \A z \in DOMAIN Zones, o \in Orders : \A p \in ToSet(fm.free[z][o]) :
              /\ p % Pages(o) = 0 /\ \A q \in Block(p, o) : ContainsPfn(z, q)
              /\ fm.page[p].buddy /\ fm.page[p].order = o /\ fm.page[p].refs = 0
        /\ \A z \in DOMAIN Zones : fm.count[z] = MapThenSumSet(LAMBDA o : Pages(o) * Len(fm.free[z][o]), Orders)
        /\ \A p \in Pfns : fm.page[p].buddy => \E z \in DOMAIN Zones, o \in Orders : p \in ToSet(fm.free[z][o])
        /\ \A p \in Pfns : fm.page[p].compound => \E q \in DOMAIN held : held[q] > 0 /\ p \in Block(q, held[q])
        /\ fm.strays = 0
FmHeld == [p \in DOMAIN ref |-> ref[p].order]
\* A held block has the references its holders count, and is marked allocated.
FmCounted == \A p \in DOMAIN ref : obj.page[p].refs = ref[p].refs /\ obj.page[p].owner = "allocated"
=============================================================================
