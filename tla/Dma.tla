-------------------------------- MODULE Dma --------------------------------
(* DMA buffers: the bounce slots of mm/dma/swiotlb.rs, and the coherent    *)
(* buffers of mm/dma/mod.rs with their tracker.                            *)
(*                                                                         *)
(* A size is counted in units, SlotUnits to a slot (a page). A buffer of   *)
(* physical memory is low, where the device reaches it, or high. Coherent  *)
(* buffers are of one page; two of their frees, or a free and an           *)
(* allocation, interleave at the locks the code takes.                     *)
EXTENDS Structures, FiniteSets

CONSTANTS
    NrSlots,    \* the slots of the bounce buffer
    SlotUnits,  \* units in a slot
    DmaSizes,   \* the sizes mapped, in units
    MaxMapped,  \* how many mappings are held at once
    DmaCallers, \* the callers of the coherent interface
    DmaFrames,  \* the frames alloc_pages gives them
    TrackCap    \* DMA_COHERENT_TRACK_CAP

Slots == 0 .. NrSlots - 1

NoMeta == [size |-> 0, slots |-> 0, copyBack |-> FALSE, valid |-> FALSE]

SwInit ==
    [used |-> {}, meta |-> [s \in Slots |-> NoMeta], count |-> 0, next |-> 0]

(* find_contiguous_slots *)
ContiguousFrom(sw, start, n) ==
    {b \in start .. NrSlots - n : \A s \in b .. b + n - 1 : s \notin sw.used}

(* alloc_slots: from the hint, then from 0 *)
SlotRun(sw, n) ==
    LET start == sw.next % NrSlots
        after == ContiguousFrom(sw, start, n)
        any   == ContiguousFrom(sw, 0, n)
    IN IF n = 0 \/ n > NrSlots THEN {}
       ELSE IF after # {} THEN {Least(after)}
       ELSE IF any # {} THEN {Least(any)}
       ELSE {}

AllocSlots(sw, slot, n) ==
    [sw EXCEPT !.used  = @ \cup (slot .. slot + n - 1),
               !.count = @ + n,
               !.next  = (slot + n) % NrSlots]

(* free_slots *)
FreeSlots(sw, slot, n) ==
    LET last == IF slot + n < NrSlots THEN slot + n - 1 ELSE NrSlots - 1
    IN [sw EXCEPT !.used = @ \ (slot .. last), !.count = @ - (last - slot + 1)]

SlotsFor(size) == (size + SlotUnits - 1) \div SlotUnits

(* Swiotlb::map of a high buffer, to the slot alloc_slots found *)
SwMapTo(sw, slot, size, back) ==
    LET n == SlotsFor(size)
    IN [AllocSlots(sw, slot, n) EXCEPT
            !.meta[slot] = [size |-> size, slots |-> n, copyBack |-> back, valid |-> TRUE]]

(* Swiotlb::unmap: what the slot's record says, or the caller's size when  *)
(* there is none.                                                          *)
SwUnmapAt(sw, slot, size) ==
    LET m == sw.meta[slot]
    IN IF ~m.valid THEN FreeSlots(sw, slot, SlotsFor(size))
       ELSE [FreeSlots(sw, slot, m.slots) EXCEPT
                !.meta = [s \in Slots |->
                             IF s \in slot .. slot + m.slots - 1 THEN NoMeta ELSE sw.meta[s]]]

(* dma_map_single: a low buffer is given to the device as it is; a high    *)
(* one is copied when the device reads it. ref holds the live mappings.    *)
SwMap ==
    \E size \in DmaSizes, back \in BOOLEAN :
       /\ Cardinality(ref) < MaxMapped
       /\ SlotRun(obj, SlotsFor(size)) # {}
       /\ \E slot \in SlotRun(obj, SlotsFor(size)) :
             Call("swiotlb", SwMapTo(obj, slot, size, back),
                  ref \cup {[slot |-> slot, size |-> size, back |-> back]})

(* dma_unmap_single with the size of the mapping *)
SwUnmap ==
    \E b \in ref : Call("swiotlb", SwUnmapAt(obj, b.slot, b.size), ref \ {b})

SwNext ==
    /\ kind = "swiotlb"
    /\ SwMap \/ SwUnmap

(* Live mappings share no slot, the bitmap and the counter are theirs, and *)
(* every one finds the record it was mapped with.                          *)
SwSlots(b) == b.slot .. b.slot + SlotsFor(b.size) - 1

SwDisjoint ==
    /\ \A b, c \in ref : b # c => SwSlots(b) \cap SwSlots(c) = {}
    /\ obj.used = UNION {SwSlots(b) : b \in ref}
    /\ obj.count = Cardinality(obj.used)
    /\ \A b \in ref : obj.meta[b.slot] =
          [size |-> b.size, slots |-> SlotsFor(b.size), copyBack |-> b.back, valid |-> TRUE]

-----------------------------------------------------------------------------
(* Coherent buffers. obj.track is the tracker's array; a caller is idle,   *)
(* between two locks of an allocation or a free, or holds a buffer.        *)
TrackSlots == 1 .. TrackCap

Empty0 == [state |-> "Empty", frame |-> 0]

CoInit ==
    [free  |-> DmaFrames,
     track |-> [i \in TrackSlots |-> Empty0],
     pc    |-> [c \in DmaCallers |-> [at |-> "idle", frame |-> 0]]]

(* DmaCoherentTracker::find_by_virt: the first slot with this address *)
FindByVirt(track, frame) ==
    {i \in TrackSlots :
        /\ track[i].state # "Empty" /\ track[i].frame = frame
        /\ \A j \in 1 .. i - 1 : track[j].state = "Empty" \/ track[j].frame # frame}

At(c, where) == obj.pc[c].at = where

(* dma_alloc_coherent up to the tracker's lock: the page *)
CoTakePage ==
    \E c \in DmaCallers, f \in obj.free :
       /\ At(c, "idle")
       /\ Call("coherent", [obj EXCEPT !.free = @ \ {f},
                                       !.pc[c] = [at |-> "insert", frame |-> f]],
               ref)

(* DmaCoherentTracker::insert, and the way out when the tracker is full *)
CoInsert ==
    \E c \in DmaCallers :
       /\ At(c, "insert")
       /\ LET f    == obj.pc[c].frame
              room == {i \in TrackSlots : obj.track[i].state = "Empty"}
          IN IF room = {}
             THEN Call("coherent", [obj EXCEPT !.free = @ \cup {f},
                                               !.pc[c] = [at |-> "idle", frame |-> 0]],
                       ref)
             ELSE Call("coherent",
                       [obj EXCEPT !.track[Least(room)] = [state |-> "Live", frame |-> f],
                                   !.pc[c] = [at |-> "holds", frame |-> f]],
                       ref \cup {f})

(* dma_free_coherent under the tracker's lock: refused without a record,   *)
(* or while one for the address is being freed. A refused caller has lost  *)
(* its buffer.                                                             *)
CoBeginFree ==
    \E c \in DmaCallers :
       /\ At(c, "holds")
       /\ LET f     == obj.pc[c].frame
              found == FindByVirt(obj.track, f)
          IN IF \A i \in found : obj.track[i].state = "Freeing"
             THEN Call("coherent", [obj EXCEPT !.pc[c] = [at |-> "idle", frame |-> 0]], ref)
             ELSE \E i \in found :
                     Call("coherent", [obj EXCEPT !.track[i].state = "Freeing",
                                                  !.pc[c] = [at |-> "release", frame |-> f]],
                          ref)

(* unmap and free_pages *)
CoRelease ==
    \E c \in DmaCallers :
       /\ At(c, "release")
       /\ Call("coherent", [obj EXCEPT !.free = @ \cup {obj.pc[c].frame},
                                       !.pc[c].at = "commit"],
               ref \ {obj.pc[c].frame})

(* commit_coherent_free *)
CoCommit ==
    \E c \in DmaCallers :
       /\ At(c, "commit")
       /\ LET found == FindByVirt(obj.track, obj.pc[c].frame)
              done  == {i \in found : obj.track[i].state = "Freeing"}
          IN Call("coherent",
                  [obj EXCEPT !.track = [i \in TrackSlots |->
                                            IF i \in done THEN Empty0 ELSE obj.track[i]],
                              !.pc[c] = [at |-> "idle", frame |-> 0]],
                  ref)

CoNext ==
    /\ kind = "coherent"
    /\ \/ CoTakePage
       \/ CoInsert
       \/ CoBeginFree
       \/ CoRelease
       \/ CoCommit

(* A page that a caller was given is not free, is given to no one else and *)
(* is on record; a page is released by the free that found it Live.        *)
CoOnce ==
    /\ ref \cap obj.free = {}
    /\ \A c \in DmaCallers : At(c, "holds") =>
          /\ obj.pc[c].frame \in ref
          /\ \E i \in TrackSlots :
                obj.track[i] = [state |-> "Live", frame |-> obj.pc[c].frame]
    /\ \A c, d \in DmaCallers :
          c # d /\ {obj.pc[c].at, obj.pc[d].at} \subseteq {"insert", "holds", "release"} =>
             obj.pc[c].frame # obj.pc[d].frame
    /\ \A c \in DmaCallers : At(c, "release") => obj.pc[c].frame \notin obj.free
=============================================================================
