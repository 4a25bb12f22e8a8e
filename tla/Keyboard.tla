------------------------------ MODULE Keyboard ------------------------------
(***************************************************************************)
(* The USB keyboard, drivers/input/hid/keyboard.rs: reports become key     *)
(* events and characters, each in a ring of its own between the driver,    *)
(* whose calls the locks of xhci and of the keyboard keep apart, and the   *)
(* readers, which nothing keeps apart.  A step is one atomic load or       *)
(* store.  "queue" is what was put in and not yet taken out.               *)
(***************************************************************************)
EXTENDS Threads, SequencesExt

CONSTANTS KeyReaders,
          Keys,          \* key codes; Arrow is one whose press is an escape sequence
          Arrow,
          RingSlots,     \* ring |-> its size, 64 events and 256 characters
          MaxReports     \* bound on reports

KeySource == "keys"
NoItem == <<>>
KeyRings == {"event", "char"}

KeysInit ==
    /\ kind = "keys"
    /\ shared = [last |-> {}, reports |-> 0,
                 ring |-> [r \in KeyRings |-> [buf |-> [i \in 0 .. RingSlots[r] - 1 |-> NoItem],
                                               head |-> 0, tail |-> 0, queue |-> <<>>, clash |-> FALSE]]]
    /\ local = [t \in KeyReaders \cup {KeySource} |->
                  [pc |-> "idle", todo |-> <<>>, ring |-> "char", at |-> 0, got |-> NoItem, calls |-> MaxCalls["keys"]]]

KeyStep(t, s, l) == Step("keys", t, s, l)
Returned(l) == [l EXCEPT !.pc = "idle", !.ring = "char", !.at = 0, !.got = NoItem]
RingOf(t) == shared.ring[local[t].ring]

\* push_key_event: the event, then its characters even if the event was dropped.
KeyPushes(key, type) ==
    << <<"event", <<key, type>> >> >>
    \o (IF type = "release" THEN <<>>
        ELSE IF key = Arrow THEN << <<"char", <<"esc">> >>, <<"char", <<"[">> >> >> ELSE << <<"char", <<key>> >> >>)

\* process_report: the keys that are new, then those that are gone.
ProcessReport(t, keys) ==
    LET pressed == SetToSeq(keys \ shared.last)
        released == SetToSeq(shared.last \ keys)
        todo == FlattenSeq([i \in DOMAIN pressed |-> KeyPushes(pressed[i], "press")])
                \o FlattenSeq([i \in DOMAIN released |-> KeyPushes(released[i], "release")])
    IN  /\ At("keys", t, "idle") /\ shared.reports < MaxReports
        /\ KeyStep(t, [shared EXCEPT !.last = keys, !.reports = @ + 1],
                   [local[t] EXCEPT !.pc = "push", !.todo = todo])

ReportDone(t) == At("keys", t, "push") /\ local[t].todo = <<>> /\ KeyStep(t, shared, Goto(local[t], "idle"))


\* Both heads move in the same way: a full ring drops the item.
PushCheck(t) ==
    /\ At("keys", t, "push") /\ local[t].todo # <<>>
    /\ LET ring == local[t].todo[1][1]
           r == shared.ring[ring]
       IN  KeyStep(t, shared,
                   IF (r.head + 1) % RingSlots[ring] = r.tail THEN [local[t] EXCEPT !.todo = Tail(@)]
                   ELSE [local[t] EXCEPT !.pc = "store", !.ring = ring, !.at = r.head])

PushStore(t) ==
    /\ At("keys", t, "store")
    /\ KeyStep(t, [shared EXCEPT !.ring[local[t].ring].buf[local[t].at] = local[t].todo[1][2]], Goto(local[t], "publish"))

PushPublish(t) ==
    LET ring == local[t].ring
    IN  /\ At("keys", t, "publish")
        /\ KeyStep(t, [shared EXCEPT !.ring[ring].head = (local[t].at + 1) % RingSlots[ring],
                                     !.ring[ring].queue = Append(@, local[t].todo[1][2])],
                   [Returned(local[t]) EXCEPT !.pc = "push", !.todo = Tail(@)])

\* read_event and read_char.
ReadTail(t, ring) ==
    /\ At("keys", t, "idle") /\ local[t].calls > 0
    /\ KeyStep(t, [shared EXCEPT !.ring[ring].clash =
                     @ \/ \E u \in KeyReaders \ {t} : local[u].pc # "idle" /\ local[u].ring = ring],
               [local[t] EXCEPT !.pc = "head", !.ring = ring, !.at = shared.ring[ring].tail, !.calls = @ - 1])
ReadHead(t) ==
    /\ At("keys", t, "head")
    /\ KeyStep(t, shared, IF local[t].at = RingOf(t).head THEN Returned(local[t]) ELSE Goto(local[t], "take"))
ReadTake(t) ==
    /\ At("keys", t, "take")
    /\ KeyStep(t, shared, [local[t] EXCEPT !.pc = "advance", !.got = RingOf(t).buf[local[t].at]])
ReadAdvance(t) ==
    LET ring == local[t].ring
    IN  /\ At("keys", t, "advance")
        /\ KeyStep(t, [shared EXCEPT !.ring[ring].tail = (local[t].at + 1) % RingSlots[ring],
                                     !.ring[ring].queue = IF @ = <<>> THEN @ ELSE Tail(@)],
                   Returned(local[t]))

KeysEnter ==
    \/ \E keys \in SUBSET Keys : ProcessReport(KeySource, keys)
    \/ \E t \in KeyReaders, ring \in KeyRings : ReadTail(t, ring)
KeysDriverStep == PushCheck(KeySource) \/ PushStore(KeySource) \/ PushPublish(KeySource) \/ ReportDone(KeySource)
KeysReaderStep(t) == ReadHead(t) \/ ReadTake(t) \/ ReadAdvance(t)

\* While one reader at a time is at a ring, it gets what was put in, once and
\* in order; two of them may get one item twice, but never one that nobody typed.
Occupied(ring) ==
    LET r == shared.ring[ring]
        n == (r.head + RingSlots[ring] - r.tail) % RingSlots[ring]
    IN  [i \in 1 .. n |-> r.buf[(r.tail + i - 1) % RingSlots[ring]]]
KeysExact ==
    /\ \A ring \in KeyRings : ~shared.ring[ring].clash => Occupied(ring) = shared.ring[ring].queue
    /\ \A t \in KeyReaders : local[t].pc = "advance" =>
         /\ local[t].got # NoItem
         /\ ~RingOf(t).clash => local[t].got = Head(RingOf(t).queue)
=============================================================================
