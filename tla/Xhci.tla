-------------------------------- MODULE Xhci --------------------------------
(***************************************************************************)
(* The USB host controller driver, drivers/usb/xhci.rs, in two parts.      *)
(*   "trb"   one ring between the driver and the controller, with its      *)
(*           cycle bits and link entry, and the ring of events that comes  *)
(*           back;                                                         *)
(*   "xhci"  start-up, enumeration of the ports and the input transfers,   *)
(*           over rings that are queues, which is what "trb" shows of them.*)
(* The controller and the devices behind it are external.                  *)
(***************************************************************************)
EXTENDS Threads, Sequences

CONSTANTS RingLen,       \* 256, the entries of a ring
          TrbItems,      \* what an entry can carry
          Ports,         \* 1..max_ports
          UsbConfigs,    \* port |-> what the configuration descriptor of a device there can list:
                         \* [boots, eps], boot interfaces and interrupt-IN endpoints (DCIs)
          EpLimit,       \* 16, the length of endpoints_to_config
          MaxTimeouts    \* bound on waits that time out

Driver == "driver"
Link == "link"

(***************************************************************************)
(* One ring.  "enq" and "pcs" are the producer's place and cycle state,    *)
(* "deq" and "ccs" the consumer's.  "queue" is what was put in and not yet *)
(* taken out.                                                              *)
(***************************************************************************)
LastTrb == RingLen - 1
EmptyRing ==
    [trb |-> [i \in 0..LastTrb |-> [cycle |-> 0, item |-> "none"]],
     enq |-> 0, pcs |-> 1, deq |-> 0, ccs |-> 1, queue |-> <<>>]

\* Mutant of Enqueue: the cycle state is not toggled at the link.
EnqueueNoToggle(r, item) ==
    LET wraps == r.enq = LastTrb
        idx == IF wraps THEN 0 ELSE r.enq
        linked == IF wraps THEN [r.trb EXCEPT ![LastTrb] = [cycle |-> r.pcs, item |-> Link]] ELSE r.trb
    IN  [r EXCEPT !.trb = [linked EXCEPT ![idx] = [cycle |-> r.pcs, item |-> item]],
                  !.enq = idx + 1, !.queue = Append(@, item)]

\* enqueue_command, enqueue_transfer, and the same lines again in
\* handle_transfer_event.
Enqueue(r, item) ==
    LET wraps == r.enq = LastTrb
        idx == IF wraps THEN 0 ELSE r.enq
        cycle == IF wraps THEN 1 - r.pcs ELSE r.pcs
        linked == IF wraps THEN [r.trb EXCEPT ![LastTrb] = [cycle |-> r.pcs, item |-> Link]] ELSE r.trb
    IN  [r EXCEPT !.trb = [linked EXCEPT ![idx] = [cycle |-> cycle, item |-> item]],
                  !.enq = idx + 1, !.pcs = cycle, !.queue = Append(@, item)]

\* The controller follows a link whose cycle bit is its own, and toggles.
FollowLink(r) ==
    IF r.trb[r.deq].item = Link /\ r.trb[r.deq].cycle = r.ccs
    THEN [r EXCEPT !.deq = 0, !.ccs = 1 - @] ELSE r
TrbReady(r) == LET f == FollowLink(r) IN f.trb[f.deq].item # Link /\ f.trb[f.deq].cycle = f.ccs
TrbTaken(r) == LET f == FollowLink(r) IN [f EXCEPT !.deq = @ + 1, !.queue = Tail(@)]
TrbNext(r)  == LET f == FollowLink(r) IN f.trb[f.deq].item

\* The ring of events has no link; the controller keeps one entry free.
PostEvent(r, item) ==
    [r EXCEPT !.trb[r.enq] = [cycle |-> r.pcs, item |-> item], !.enq = (r.enq + 1) % RingLen,
              !.pcs = IF r.enq = LastTrb THEN 1 - @ ELSE @, !.queue = Append(@, item)]
EventRoom(r)  == (r.enq + 1) % RingLen # r.deq
EventReady(r) == r.trb[r.deq].cycle = r.ccs
EventTaken(r) ==
    [r EXCEPT !.deq = (r.deq + 1) % RingLen, !.ccs = IF r.deq = LastTrb THEN 1 - @ ELSE @, !.queue = Tail(@)]

TrbInit == kind = "trb" /\ shared = [out |-> EmptyRing, back |-> EmptyRing] /\ local = [t \in {Driver} |-> [pc |-> "idle"]]

Rings(s) == kind = "trb" /\ shared' = s /\ UNCHANGED <<kind, local>>

\* The driver never has more requests under way than the ring has entries
\* besides the link.
TrbPut == kind = "trb" /\ Len(shared.out.queue) < LastTrb /\ \E item \in TrbItems :
              Rings([shared EXCEPT !.out = Enqueue(@, item)])
TrbServe ==
    /\ kind = "trb" /\ TrbReady(shared.out) /\ EventRoom(shared.back)
    /\ Rings([out |-> TrbTaken(shared.out), back |-> PostEvent(shared.back, TrbNext(shared.out))])
PollEvent == kind = "trb" /\ EventReady(shared.back) /\ Rings([shared EXCEPT !.back = EventTaken(@)])

\* An entry is seen when it was put there, once, in order, across every wrap.
RingsExact ==
    LET out == shared.out
        back == shared.back
    IN  /\ TrbReady(out) <=> out.queue # <<>>
        /\ TrbReady(out) => TrbNext(out) = Head(out.queue)
        /\ EventReady(back) <=> back.queue # <<>>
        /\ EventReady(back) => back.trb[back.deq].item = Head(back.queue)

(***************************************************************************)
(* Bring-up.  A register bit that does not change in time is left as it is *)
(* and start-up goes on.                                                   *)
(***************************************************************************)
Slots == Ports
Dcis == UNION {{c.eps[i] : i \in DOMAIN c.eps} : c \in UNION {UsbConfigs[p] : p \in Ports}}
\* An endpoint has no ring, a ring, or a ring and the buffer its reports go to.
NoSlot == [d \in Dcis |-> "none"]
Stopped == [run |-> FALSE, owner |-> "bios", stuck |-> {}]
XhciInit ==
    /\ kind = "xhci"
    /\ shared = [regs |-> Stopped, cmd |-> <<>>, ev |-> <<>>,
                 ep0 |-> [s \in Slots |-> <<>>], intr |-> [s \in Slots |-> [d \in Dcis |-> <<>>]],
                 slots |-> [s \in Slots |-> NoSlot], published |-> FALSE,
                 enabled |-> 0, addressed |-> {}, configured |-> {},
                 timeouts |-> 0, owed |-> {}, foreign |-> FALSE, ports |-> [s \in Slots |-> {}],
                 lost |-> {}, failed |-> {}]
    /\ local = [t \in {Driver} |-> [pc |-> "map", port |-> 1, slot |-> 0, stage |-> "none",
                                    boots |-> 0, eps |-> <<>>, at |-> 0]]

Me == local[Driver]
XStep(s, l) == Step("xhci", Driver, s, l)

\* Registers that do not fit into the mapped window end it.
MapRegisters ==
    /\ At("xhci", Driver, "map")
    /\ XStep(shared, Goto(Me, "handoff")) \/ XStep(shared, Goto(Me, "given_up"))

\* xhci_legacy_handoff: no such capability, handed over, or taken by force.
LegacyHandoff ==
    /\ At("xhci", Driver, "handoff")
    /\ \E owner \in {"bios", "os"} : XStep([shared EXCEPT !.regs.owner = owner], Goto(Me, "reset"))

\* reset_controller: stop, reset, the light reset only if the first did not
\* end.  "stuck" are the bits whose wait timed out.
ResetController ==
    /\ At("xhci", Driver, "reset")
    /\ \E stuck \in SUBSET {"HCH", "RESET", "LHCRST", "CNR"} :
         /\ "LHCRST" \in stuck => "RESET" \in stuck
         /\ XStep([shared EXCEPT !.regs.run = FALSE, !.regs.stuck = stuck], Goto(Me, "memory"))

\* init_memory_structures, then start_controller.  No register of the reset
\* is looked at again.
InitMemoryStructures ==
    /\ At("xhci", Driver, "memory")
    /\ XStep(shared, Goto(Me, "given_up")) \/ XStep([shared EXCEPT !.regs = [Stopped EXCEPT !.run = TRUE]], Goto(Me, "port"))

(***************************************************************************)
(* Enumeration.  A request is <<stage, port, endpoint>>; a wait takes the  *)
(* first event of the type it is for, whatever request it answers, and     *)
(* drops those before it.  "owed" are the requests that the driver has     *)
(* gone on from and whose answers are still to come, "ports" the ports a   *)
(* slot was given to.                                                      *)
(***************************************************************************)
Commands == {"enable", "address", "endpoint"}
NextPort ==
    [Me EXCEPT !.pc = "port", !.port = @ + 1, !.slot = 0, !.stage = "none", !.boots = 0, !.eps = <<>>, !.at = 0]
Issued(stage) == [Me EXCEPT !.pc = "issue", !.stage = stage]
OwnRequest == <<Me.stage, Me.port, Me.at>>

\* check_ports: a port that is empty, or enabled already, is passed over.
CheckPort ==
    /\ At("xhci", Driver, "port") /\ Me.port \in Ports
    /\ XStep(shared, NextPort) \/ XStep(shared, Goto(Me, "port_reset"))

\* The reset completes, and enable_slot, address_device and configure_device
\* follow, or it does not.
PortReset ==
    /\ At("xhci", Driver, "port_reset")
    /\ \/ XStep(shared, NextPort)
       \/ XStep([shared EXCEPT !.ev = Append(@, [type |-> "port"])], Issued("enable"))

\* From here on nothing waits, so that "owed" and "timeouts" are of no use.
PublishController ==
    /\ At("xhci", Driver, "port") /\ Me.port \notin Ports
    /\ XStep([shared EXCEPT !.published = TRUE, !.owed = {}, !.timeouts = 0], Goto(Me, "idle"))

\* parse_configuration after the stage that has ended: protocol and idle time of
\* each boot interface, then the endpoints it has found (the results of all these
\* are not looked at), then SET_CONFIGURATION, then a transfer for each endpoint.
ConfigureNext(l) ==
    CASE l.boots > 0 -> [l EXCEPT !.pc = "issue", !.stage = "protocol", !.boots = @ - 1]
      [] l.boots = 0 /\ l.at < Len(l.eps) -> [l EXCEPT !.pc = "issue", !.stage = "endpoint", !.at = @ + 1]
      [] OTHER -> [l EXCEPT !.pc = "issue", !.stage = "set_config", !.at = 0]
Found(eps) == IF Len(eps) > EpLimit THEN SubSeq(eps, 1, EpLimit) ELSE eps
ParseConfiguration(stage) ==
    CASE stage = "config" ->
           {ConfigureNext([Me EXCEPT !.boots = c.boots, !.eps = Found(c.eps)]) : c \in UsbConfigs[Me.port]}
      [] stage = "protocol" -> {Issued("idle")}
      [] stage \in {"idle", "endpoint"} -> {ConfigureNext(Me)}
      [] stage = "set_config" -> {IF Me.eps = <<>> THEN NextPort ELSE [Me EXCEPT !.pc = "queue", !.at = 1]}

\* configure_device: the descriptors it reads before; a configuration may be
\* too short to be read on.
NextStages(stage) ==
    CASE stage = "enable"   -> {Issued("address")}
      [] stage = "address"  -> {Issued("device8")}
      [] stage = "device8"  -> {Issued("device18")}
      [] stage = "device18" -> {Issued("config9")}
      [] stage = "config9"  -> {Issued("config"), NextPort}
      [] OTHER -> ParseConfiguration(stage)

\* Any failure but those that are not looked at ends the port.
FailedStages(stage) == IF stage \in {"protocol", "idle", "endpoint"} THEN NextStages(stage) ELSE {NextPort}

Command(s) == [s EXCEPT !.cmd = Append(@, [req |-> OwnRequest, slot |-> Me.slot])]
EnableSlot == At("xhci", Driver, "issue") /\ Me.stage = "enable" /\ XStep(Command(shared), Goto(Me, "wait"))

\* address_device: no memory for a context or the ring of endpoint 0, or the slot
\* is set up anew and the command sent.
AddressDevice ==
    /\ At("xhci", Driver, "issue") /\ Me.stage = "address"
    /\ \/ XStep(shared, NextPort)
       \/ XStep(Command([shared EXCEPT !.slots[Me.slot] = NoSlot]), Goto(Me, "wait"))

\* configure_endpoint_xhci: no memory for the ring; for the ring but not for the
\* input context; or the command is sent.
ConfigureEndpoint ==
    LET ringed == [shared EXCEPT !.slots[Me.slot][Me.eps[Me.at]] = "ring"]
    IN  /\ At("xhci", Driver, "issue") /\ Me.stage = "endpoint"
        /\ \/ \E s \in {shared, ringed} : XStep(s, ConfigureNext(Me))
           \/ XStep(Command(ringed), Goto(Me, "wait"))

\* send_control_transfer; configure_device has no buffer for the first one, or it has.
ControlTransfer ==
    /\ At("xhci", Driver, "issue") /\ Me.stage \notin Commands
    /\ \/ XStep([shared EXCEPT !.ep0[Me.slot] = Append(@, OwnRequest)], Goto(Me, "wait"))
       \/ Me.stage = "device8" /\ XStep(shared, NextPort)

\* A report that a wait takes or drops is gone, and its endpoint with it.
Swallowed(e) == IF e.type = "transfer" /\ e.dci # 1 THEN {<<e.slot, e.dci>>} ELSE {}
Dropped(e) == [shared EXCEPT !.ev = Tail(@), !.lost = @ \cup Swallowed(e),
                             !.owed = IF e.type = "port" THEN @ ELSE @ \ {e.req}]

WaitForEvent ==
    /\ At("xhci", Driver, "wait") /\ shared.ev # <<>>
    /\ LET e == Head(shared.ev)
           rest == Dropped(e)
           own == e.req = OwnRequest
           taken == [rest EXCEPT !.foreign = @ \/ ~(own \/ e.req \in shared.owed \/ Swallowed(e) # {}),
                                 !.owed = IF own THEN @ ELSE @ \cup {OwnRequest}]
       IN  IF e.type # (IF Me.stage \in Commands THEN "command" ELSE "transfer") THEN XStep(rest, Me)
           ELSE \E l \in IF e.ok THEN NextStages(Me.stage) ELSE FailedStages(Me.stage) :
                  IF e.ok /\ Me.stage = "enable"
                  THEN XStep([taken EXCEPT !.ports[e.slot] = @ \cup {Me.port}], [l EXCEPT !.slot = e.slot])
                  ELSE XStep(taken, l)

\* A wait may time out at any moment.  The bound is on those that an answer may
\* still follow, not on those of a controller that has nothing to answer.
Silent == shared.ev = <<>> /\ shared.cmd = <<>> /\ \A s \in shared.addressed : shared.ep0[s] = <<>>
WaitTimeout ==
    /\ At("xhci", Driver, "wait") /\ (Silent \/ shared.timeouts < MaxTimeouts)
    /\ \E l \in FailedStages(Me.stage) :
         XStep([shared EXCEPT !.timeouts = IF Silent THEN @ ELSE @ + 1, !.owed = @ \cup {OwnRequest}], l)

\* queue_interrupt_transfer for the next endpoint, unless there is no page for its
\* buffer or no ring.
Submitted(s, slot, d) == [s EXCEPT !.intr[slot][d] = Append(@, "normal")]
QueueInterruptTransfer ==
    LET d == Me.eps[Me.at]
        next == IF Me.at = Len(Me.eps) THEN NextPort ELSE [Me EXCEPT !.at = @ + 1]
    IN  /\ At("xhci", Driver, "queue")
        /\ \/ XStep(shared, next)
           \/ shared.slots[Me.slot][d] # "none"
              /\ XStep(Submitted([shared EXCEPT !.slots[Me.slot][d] = "buffer"], Me.slot, d), next)

(***************************************************************************)
(* Input.  poll and handle_interrupt take the events one by one, with the  *)
(* lock on the controller held.                                            *)
(***************************************************************************)
Buffered(s, e) == e.dci \in Dcis /\ s.slots[e.slot][e.dci] = "buffer"

\* Mutant of HandleTransferEvent: a transfer that failed is queued twice.
HandleTransferEventTwice(s, e) ==
    IF ~Buffered(s, e) THEN s
    ELSE IF e.ok THEN Submitted(s, e.slot, e.dci) ELSE Submitted(Submitted(s, e.slot, e.dci), e.slot, e.dci)

\* handle_transfer_event: the report is handed on, and the transfer of any endpoint
\* that has a buffer is queued again, unless it failed.
HandleTransferEvent(s, e) ==
    IF ~e.ok THEN [s EXCEPT !.failed = @ \cup Swallowed(e)]
    ELSE IF Buffered(s, e) THEN Submitted(s, e.slot, e.dci) ELSE s

HandleInterrupt ==
    /\ At("xhci", Driver, "idle") /\ shared.published /\ shared.ev # <<>>
    /\ LET e == Head(shared.ev)
           rest == [shared EXCEPT !.ev = Tail(@)]
       IN  XStep(IF e.type = "transfer" THEN HandleTransferEvent(rest, e) ELSE rest, Me)

(***************************************************************************)
(* The controller and the devices.                                         *)
(***************************************************************************)
Controller(s) == kind = "xhci" /\ shared' = s /\ UNCHANGED <<kind, local>>
Posted(s, e) == [s EXCEPT !.ev = Append(@, e)]

ServeCommand ==
    /\ kind = "xhci" /\ shared.cmd # <<>>
    /\ \E ok \in BOOLEAN :
         LET c == Head(shared.cmd)
             stage == c.req[1]
             slot == IF stage = "enable" THEN shared.enabled + 1 ELSE c.slot
             rest == [shared EXCEPT !.cmd = Tail(@)]
         IN  /\ Controller(Posted(
                  IF ~ok THEN rest
                  ELSE CASE stage = "enable"  -> [rest EXCEPT !.enabled = slot]
                         [] stage = "address" -> [rest EXCEPT !.addressed = @ \cup {slot}]
                         [] OTHER -> [rest EXCEPT !.configured = @ \cup {slot}],
                  [type |-> "command", req |-> c.req, ok |-> ok, slot |-> slot]))

ServeControl ==
    /\ kind = "xhci"
    /\ \E s \in shared.addressed, ok \in BOOLEAN :
         /\ shared.ep0[s] # <<>>
         /\ Controller(Posted([shared EXCEPT !.ep0[s] = Tail(@)],
              [type |-> "transfer", req |-> Head(shared.ep0[s]), ok |-> ok, slot |-> s, dci |-> 1]))

SendReport ==
    /\ kind = "xhci"
    /\ \E s \in shared.configured, d \in Dcis, ok \in BOOLEAN :
         /\ shared.intr[s][d] # <<>>
         /\ Controller(Posted([shared EXCEPT !.intr[s][d] = Tail(@)],
              [type |-> "transfer", req |-> <<"report", s, d>>, ok |-> ok, slot |-> s, dci |-> d]))

ControllerStep == ServeCommand \/ ServeControl \/ SendReport
DriverStep ==
    \/ MapRegisters \/ LegacyHandoff \/ ResetController \/ InitMemoryStructures
    \/ CheckPort \/ PortReset \/ PublishController
    \/ EnableSlot \/ AddressDevice \/ ConfigureEndpoint \/ ControlTransfer
    \/ WaitForEvent \/ WaitTimeout \/ QueueInterruptTransfer \/ HandleInterrupt

\* A wait is answered by the answer to its own request, to one that the driver
\* went on from before it was answered (it timed out, or took such an answer
\* itself), or by the report of an input device that is already at work.
OwnAnswers == ~shared.foreign

\* An endpoint whose buffer the driver reads has one transfer under way, in the
\* ring or reported and not yet handled: a second one would overwrite the
\* buffer, and none at all means that the endpoint is never heard again, which
\* happens to those whose report a wait took and those whose transfer failed.
\* Of a slot that a late answer gave to two ports nothing is said.
Transfers(s, d) ==
    Len(shared.intr[s][d]) + Cardinality({i \in DOMAIN shared.ev : Swallowed(shared.ev[i]) = {<<s, d>>}})
InputOnce ==
    \A s \in Slots, d \in Dcis : Cardinality(shared.ports[s]) <= 1 =>
        /\ Transfers(s, d) <= 1
        /\ shared.slots[s][d] = "buffer" /\ <<s, d>> \notin shared.failed \cup shared.lost => Transfers(s, d) = 1
=============================================================================
