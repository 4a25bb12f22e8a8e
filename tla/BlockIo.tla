------------------------------- MODULE BlockIo -------------------------------
(***************************************************************************)
(* The two virtio disk drivers (drivers/block/virtio_blk.rs and            *)
(* virtio_scsi.rs): the handshake with the device and the queue with one   *)
(* request at a time, whose header, data and status buffers serve every    *)
(* request.  submit_cmd of virtio-scsi holds io_lock; do_io of virtio-blk  *)
(* takes no lock, and "mixed" records that two of its calls have overlapped*)
(* in the buffers, "owing" that the device still had a request that timed  *)
(* out when the last one was made.  "doubt" are the sectors whose last     *)
(* request did not succeed or was made then.                               *)
(* The device is external: it answers the entries of the queue in order.   *)
(***************************************************************************)
EXTENDS Threads, Sequences

CONSTANTS IoCallers,    \* the threads that use the disk
          Prober,       \* the one that probes it before the others start
          Capacity,     \* sectors of the disk
          Payloads,     \* what can be written to one
          Wrap,         \* 2^16, the modulus of the ring indices
          CapLimit,     \* how many PCI capabilities find_capability looks at
          CapChains     \* capability lists of the devices that are probed

Sectors == 0..Capacity - 1
FreshDisk == [s \in Sectors |-> s]
NoResult == "none"

VirtioInit ==
    /\ kind = "virtio"
    /\ \E driver \in {"blk", "scsi"}, eager \in BOOLEAN :
         /\ eager => driver = "scsi"
         /\ shared = [driver |-> driver, eager |-> eager, status |-> "reset", ready |-> FALSE,
                      read_only |-> driver = "scsi", locked |-> FALSE,
                      op |-> "read", sector |-> 0, data |-> 0, resp |-> "ok",
                      avail |-> 0, next |-> 0, used |-> 0, disk |-> FreshDisk,
                      want |-> FreshDisk, wrong |-> FALSE, doubt |-> {}, owing |-> FALSE, mixed |-> FALSE,
                      device |-> [pc |-> "idle", op |-> "read", sector |-> 0, last |-> 0]]
    /\ local = [t \in IoCallers |->
                  [pc |-> IF t = Prober THEN "probe" ELSE "idle", call |-> "none", lba |-> 0, val |-> 0,
                   target |-> 0, result |-> NoResult, calls |-> MaxCalls["virtio"]]]

Return(t, result) ==
    [local[t] EXCEPT !.pc = "idle", !.call = "none", !.lba = 0, !.val = 0, !.target = 0, !.result = result]
TurnedDown(t, error) == [Return(t, error) EXCEPT !.calls = @ - 1]
Unlocked(s) == [s EXCEPT !.locked = FALSE]

(***************************************************************************)
(* Handshake.  A device that fails a step keeps the status it reached.     *)
(***************************************************************************)
FindCapability(chain, id) == \E i \in DOMAIN chain : i <= CapLimit /\ chain[i] = id
ReadBarPhys(bar) == IF bar = "memory" THEN "ok" ELSE IF bar = "absent" THEN "io_error" ELSE "unsupported"

InitModern(t) ==
    /\ At("virtio", t, "probe")
    /\ \E chain \in CapChains, bar \in {"memory", "absent", "port"} :
         LET found == \A id \in {"common", "notify", "device"} : FindCapability(chain, id)
             error == IF ~found THEN "unsupported" ELSE ReadBarPhys(bar)
         IN  IF error # "ok" THEN Step("virtio", t, shared, Return(t, error))
             ELSE Step("virtio", t, [shared EXCEPT !.status = "driver"], Goto(local[t], "features"))

NegotiateFeatures(t) ==
    /\ At("virtio", t, "features")
    /\ \E version1, accepted, ro \in BOOLEAN :
         IF ~version1 THEN Step("virtio", t, shared, Return(t, "unsupported"))
         ELSE Step("virtio", t,
                   [shared EXCEPT !.status = IF accepted THEN "features_ok" ELSE "driver",
                                  !.read_only = @ \/ ro],
                   IF accepted THEN Goto(local[t], "queue") ELSE Return(t, "unsupported"))

\* No queue, no memory or a bad doorbell ends it.  virtio-scsi sends its first
\* two commands before DRIVER_OK.
SetupVirtqueue(t) ==
    /\ At("virtio", t, "queue")
    /\ \/ Step("virtio", t, shared, Return(t, "io_error"))
       \/ Step("virtio", t, shared,
               IF shared.driver = "blk" THEN Goto(local[t], "driver_ok")
               ELSE [local[t] EXCEPT !.pc = "lock", !.call = "inquiry"])

DriverOk(t) ==
    /\ At("virtio", t, "driver_ok")
    /\ Step("virtio", t, [shared EXCEPT !.status = "driver_ok", !.ready = TRUE], Return(t, "ok"))

(***************************************************************************)
(* Requests.  get_device hands the device out once it is ready.            *)
(***************************************************************************)
Called(t, call, l, v) ==
    [local[t] EXCEPT !.call = call, !.lba = l, !.val = v, !.calls = @ - 1, !.result = NoResult]
Request(t, d) ==
    IF shared.driver = "scsi" THEN Step("virtio", t, shared, Goto(d, "lock"))
    ELSE Step("virtio", t, [shared EXCEPT !.mixed = @ \/ \E u \in IoCallers : local[u].pc # "idle"], Goto(d, "op"))

ReadBlock(t, l) ==
    /\ At("virtio", t, "idle") /\ local[t].calls > 0 /\ shared.ready
    /\ IF l >= Capacity THEN Step("virtio", t, shared, TurnedDown(t, "invalid_address"))
       ELSE Request(t, Called(t, "read", l, 0))

WriteBlock(t, l, v) ==
    /\ At("virtio", t, "idle") /\ local[t].calls > 0 /\ shared.ready
    /\ IF shared.read_only THEN Step("virtio", t, shared, TurnedDown(t, "write_protected"))
       ELSE IF l >= Capacity THEN Step("virtio", t, shared, TurnedDown(t, "invalid_address"))
       ELSE Request(t, Called(t, "write", l, v))

IoLock(t) ==
    /\ At("virtio", t, "lock") /\ ~shared.locked
    /\ Step("virtio", t, [shared EXCEPT !.locked = TRUE], Goto(local[t], "op"))

\* The header, field by field, then the data, then the index of the ring: the
\* device may still be at work on a request that timed out.
FillOp(t) ==
    /\ At("virtio", t, "op")
    /\ Step("virtio", t, [shared EXCEPT !.op = local[t].call, !.owing = shared.device.last # shared.avail],
            Goto(local[t], "sector"))

FillSector(t) ==
    /\ At("virtio", t, "sector")
    /\ Step("virtio", t,
            [shared EXCEPT !.sector = local[t].lba, !.resp = IF shared.driver = "scsi" THEN "ok" ELSE @],
            Goto(local[t], IF local[t].call = "write" THEN "data" ELSE "index"))

FillData(t) ==
    /\ At("virtio", t, "data")
    /\ Step("virtio", t, [shared EXCEPT !.data = local[t].val], Goto(local[t], "index"))

\* avail_idx.fetch_add, then the index the device sees.
TakeIndex(t) ==
    LET next == (shared.next + 1) % Wrap IN
    /\ At("virtio", t, "index")
    /\ Step("virtio", t, [shared EXCEPT !.next = next], [local[t] EXCEPT !.pc = "publish", !.target = next])

Publish(t) ==
    /\ At("virtio", t, "publish")
    /\ Step("virtio", t, [shared EXCEPT !.avail = local[t].target], Goto(local[t], "await"))

\* Mutant of AwaitUsed: it waits for the index before this request.
AwaitUsedEarly(t) ==
    /\ At("virtio", t, "await") /\ (shared.used + 1) % Wrap = local[t].target
    /\ Step("virtio", t, shared, Goto(local[t], "status"))

AwaitUsed(t) ==
    /\ At("virtio", t, "await") /\ shared.used = local[t].target
    /\ Step("virtio", t, shared, Goto(local[t], "status"))

RequestTimeout(t) ==
    /\ At("virtio", t, "await") /\ shared.used # local[t].target
    /\ Step("virtio", t, [Unlocked(shared) EXCEPT !.doubt = @ \cup {local[t].lba}], Return(t, "timeout"))

\* probe_lun0 sends INQUIRY and READ CAPACITY: a short or odd answer ends the
\* probe, a good one leads to the next command and to DRIVER_OK.
Finished(t) ==
    CASE local[t].call = "inquiry"  -> {[local[t] EXCEPT !.pc = "lock", !.call = "capacity"], Return(t, "unsupported")}
      [] local[t].call = "capacity" -> {Goto(local[t], "driver_ok"), Return(t, "io_error"), Return(t, "unsupported")}
      [] OTHER -> {Return(t, "ok")}

TakeStatus(t) ==
    LET l == local[t]
        s == Unlocked(shared)
    IN  /\ At("virtio", t, "status")
        /\ IF shared.resp # "ok" THEN Step("virtio", t, [s EXCEPT !.doubt = @ \cup {l.lba}], Return(t, "io_error"))
           ELSE \E done \in Finished(t) :
                  Step("virtio", t,
                       CASE l.call = "write" -> [s EXCEPT !.want[l.lba] = l.val,
                                                        !.doubt = IF s.owing THEN @ \cup {l.lba} ELSE @ \ {l.lba}]
                         [] l.call = "read"  -> [s EXCEPT !.wrong = @ \/ shared.data # shared.disk[l.lba]]
                         [] OTHER -> s,
                       done)

VirtioEnter(t) ==
    kind = "virtio" /\ \E l \in 0..Capacity : ReadBlock(t, l) \/ \E v \in Payloads : WriteBlock(t, l, v)
VirtioStep(t) ==
    \/ InitModern(t) \/ NegotiateFeatures(t) \/ SetupVirtqueue(t) \/ DriverOk(t)
    \/ IoLock(t) \/ FillOp(t) \/ FillSector(t) \/ FillData(t) \/ TakeIndex(t) \/ Publish(t)
    \/ AwaitUsed(t) \/ RequestTimeout(t) \/ TakeStatus(t)

(***************************************************************************)
(* The device, which may serve the queue before DRIVER_OK ("eager").       *)
(***************************************************************************)
Device(s) == kind = "virtio" /\ shared' = s /\ UNCHANGED <<kind, local>>
DeviceAt(pc) == kind = "virtio" /\ shared.device.pc = pc

DeviceFetch ==
    /\ DeviceAt("idle") /\ shared.device.last # shared.avail
    /\ shared.status = "driver_ok" \/ shared.eager
    /\ Device([shared EXCEPT !.device.pc = "transfer", !.device.op = shared.op, !.device.sector = shared.sector])

DeviceTransfer ==
    LET d == shared.device
        served == [shared EXCEPT !.device.pc = "complete", !.resp = "ok"]
    IN  /\ DeviceAt("transfer")
        /\ \/ Device(CASE d.op = "read"  -> [served EXCEPT !.data = shared.disk[d.sector]]
                       [] d.op = "write" -> [served EXCEPT !.disk[d.sector] = shared.data]
                       [] OTHER -> served)
           \/ Device([served EXCEPT !.resp = "error"])

DeviceComplete ==
    LET next == (shared.device.last + 1) % Wrap IN
    /\ DeviceAt("complete")
    /\ Device([shared EXCEPT !.used = next, !.device.pc = "idle", !.device.last = next])

DeviceStep == kind = "virtio" /\ (DeviceFetch \/ DeviceTransfer \/ DeviceComplete)

\* As long as no two calls of do_io have overlapped, a read that succeeds returns
\* the sector that was asked for, whatever timed out before it, and between the
\* requests the disk holds what the writes that succeeded put there, except in
\* a sector whose last request timed out or failed, or was made while the device
\* still had the buffers for a request that timed out.  A read-only disk is never
\* changed, and the device is handed out in DRIVER_OK only, overlap or not.
RequestsServed ==
    /\ ~shared.mixed => ~shared.wrong
    /\ ~shared.mixed /\ (\A t \in IoCallers : local[t].pc = "idle") =>
         \A s \in Sectors \ shared.doubt : shared.disk[s] = shared.want[s]
    /\ shared.read_only => shared.disk = FreshDisk
    /\ shared.ready => shared.status = "driver_ok"
=============================================================================
