------------------------------ MODULE CpuStart ------------------------------
(***************************************************************************)
(* Two protocols between CPUs: how the boot CPU starts the others (smp and *)
(* its x86-64 part), and how a CPU that changed a page-table entry has the *)
(* others drop it from their TLBs (mm/arch/x86_64/paging.rs).              *)
(***************************************************************************)
EXTENDS Threads, TLC

CONSTANTS NrAps,         \* the application processors, 1..NrAps in MADT order
          TlbCpus,       \* the CPUs that take part in shootdowns
          Remaps         \* how often the page they share is mapped again

Bsp == 0
Aps == 1..NrAps

(***************************************************************************)
(* Start-up.  "rsp" is the stack the trampoline or the mailbox entry code  *)
(* will load, "started" is AP_STARTED, "online" the count of CPUs, "ids"   *)
(* the last CPU number given out, "targets" the CPUs registered for        *)
(* shootdowns.  "mailbox" tells whether the firmware's wake-up mailbox is  *)
(* used, "restarted" that a processor which had already reported itself    *)
(* through it was started over by the fallback.                            *)
(***************************************************************************)
ApOff == [pc |-> "off", stack |-> 0, id |-> 0]

SmpInit ==
    /\ kind = "smp"
    /\ \E mailbox \in BOOLEAN :
         shared = [rsp |-> 0, started |-> FALSE, online |-> 1, ids |-> 0, targets |-> {Bsp},
                   mailbox |-> mailbox, restarted |-> FALSE, wanted |-> 1]
    /\ local = [t \in Aps \cup {Bsp} |->
                  IF t = Bsp THEN [pc |-> "next", ap |-> 1, seen |-> 0] ELSE ApOff]

\* boot_ap takes a fresh stack, which is named by the processor it is for.
BootPrepare ==
    LET b == local[Bsp] IN
    /\ At("smp", Bsp, "next") /\ b.ap <= NrAps
    /\ Step("smp", Bsp, [shared EXCEPT !.rsp = b.ap, !.started = FALSE],
            [b EXCEPT !.seen = shared.online, !.pc = IF shared.mailbox THEN "wake" ELSE "sipi"])

\* The mailbox command, and INIT-SIPI-SIPI, which starts the processor over.
BootWake ==
    LET b == local[Bsp]
        begun == [ApOff EXCEPT !.pc = "woken"]
    IN  /\ kind = "smp" /\ b.pc \in {"wake", "sipi"}
        /\ shared' = [shared EXCEPT !.restarted =
                        @ \/ (b.pc = "sipi" /\ local[b.ap].pc \notin {"off", "woken", "entry"})]
        /\ local' = [local EXCEPT ![Bsp].pc = IF b.pc = "wake" THEN "wake_wait" ELSE "sipi_wait",
                                  ![b.ap] = IF b.pc = "wake" /\ @.pc # "off" THEN @ ELSE begun]
        /\ UNCHANGED kind

BootSeesStart ==
    /\ At("smp", Bsp, "wake_wait") \/ At("smp", Bsp, "sipi_wait")
    /\ shared.started
    /\ Step("smp", Bsp, [shared EXCEPT !.started = FALSE], Goto(local[Bsp], "online_wait"))

\* A time-out strikes whatever the processor does, between the last look at
\* AP_STARTED and the store that clears it included.
BootWakeTimeout ==
    /\ At("smp", Bsp, "wake_wait")
    /\ Step("smp", Bsp, [shared EXCEPT !.started = FALSE], Goto(local[Bsp], "sipi"))

\* Mutant of BootSipiTimeout: the remaining processors are started all the same.
BootSipiTimeoutGoesOn ==
    /\ At("smp", Bsp, "sipi_wait")
    /\ Step("smp", Bsp, [shared EXCEPT !.started = FALSE],
            [local[Bsp] EXCEPT !.pc = "next", !.ap = @ + 1])

BootSipiTimeout ==
    /\ At("smp", Bsp, "sipi_wait")
    /\ Step("smp", Bsp, [shared EXCEPT !.started = FALSE], Goto(local[Bsp], "settle"))

BootSeesOnline ==
    /\ At("smp", Bsp, "online_wait") /\ shared.online > local[Bsp].seen
    /\ Step("smp", Bsp, [shared EXCEPT !.wanted = @ + 1],
            [local[Bsp] EXCEPT !.pc = "next", !.ap = @ + 1])

BootOnlineTimeout ==
    /\ At("smp", Bsp, "online_wait") /\ shared.online <= local[Bsp].seen
    /\ Step("smp", Bsp, shared, Goto(local[Bsp], "settle"))

BootLast ==
    /\ At("smp", Bsp, "next") /\ local[Bsp].ap > NrAps
    /\ Step("smp", Bsp, shared, Goto(local[Bsp], "settle"))

\* The last wait of boot_aps ends when enough CPUs are online, or times out.
BootDone ==
    /\ At("smp", Bsp, "settle")
    /\ Step("smp", Bsp, shared, Goto(local[Bsp], "idle"))

\* The trampoline or the mailbox entry code loads the stack pointer.
ApLoadStack(a) ==
    /\ At("smp", a, "woken")
    /\ Step("smp", a, shared, [local[a] EXCEPT !.pc = "entry", !.stack = shared.rsp])

ApEntry(a) ==
    /\ At("smp", a, "entry")
    /\ Step("smp", a, [shared EXCEPT !.started = TRUE], Goto(local[a], "id"))

AllocCpuId(a) ==
    /\ At("smp", a, "id")
    /\ Step("smp", a, [shared EXCEPT !.ids = @ + 1],
            [local[a] EXCEPT !.pc = "register", !.id = shared.ids + 1])

ApRegisterShootdown(a) ==
    /\ At("smp", a, "register")
    /\ Step("smp", a, [shared EXCEPT !.targets = @ \cup {a}], Goto(local[a], "mark"))

MarkCpuOnline(a) ==
    /\ At("smp", a, "mark")
    /\ Step("smp", a, [shared EXCEPT !.online = @ + 1], Goto(local[a], "idle"))

BootStep ==
    \/ BootPrepare \/ BootWake \/ BootSeesStart \/ BootWakeTimeout \/ BootSipiTimeout
    \/ BootSeesOnline \/ BootOnlineTimeout \/ BootLast \/ BootDone
ApStep(a) ==
    \/ ApLoadStack(a) \/ ApEntry(a) \/ AllocCpuId(a) \/ ApRegisterShootdown(a) \/ MarkCpuOnline(a)

\* No two CPUs run under one number, and as many are online as boot_ap reports.
\* No two run on one stack, and a processor that boot_ap reports is online and
\* registered for shootdowns, through the mailbox, through the trampoline and
\* through the fallback, unless the fallback restarts a processor that has set
\* AP_STARTED after the wait for it ended.
CpusApart ==
    /\ \A a, b \in Aps : a # b /\ local[a].id # 0 => local[a].id # local[b].id
    /\ shared.online >= shared.wanted
    /\ ~shared.restarted =>
         /\ \A a, b \in Aps : a # b /\ local[a].stack # 0 => local[a].stack # local[b].stack
         /\ \A a \in Aps : a < local[Bsp].ap => local[a].pc = "idle" /\ a \in shared.targets

(***************************************************************************)
(* Shootdown.  "mapped" is the frame the shared page maps to, counted up   *)
(* with every change; "tlb" what each CPU has cached; "irq" the vector     *)
(* pending at a CPU, where two requests that meet are one; "acked" the     *)
(* common counter.  "mixed" tells that the shootdowns under way have met   *)
(* one another, or an acknowledgement that an earlier one did not wait for:*)
(* one may be counted for the wrong shootdown.                             *)
(***************************************************************************)
TlbInit ==
    /\ kind = "shootdown"
    /\ shared = [mapped |-> 0, tlb |-> [c \in TlbCpus |-> 0], irq |-> {}, acked |-> 0, mixed |-> FALSE]
    /\ local = [c \in TlbCpus |-> [Idle("shootdown") EXCEPT !.seen = 0] @@ [todo |-> {}, handling |-> FALSE, late |-> FALSE]]

\* A CPU caches what the page tables say whenever it uses the page.
TlbFill(c) ==
    /\ kind = "shootdown" /\ shared.tlb[c] # shared.mapped /\ shared.tlb[c] = -1
    /\ Step("shootdown", c, [shared EXCEPT !.tlb[c] = shared.mapped], local[c])

\* The page is mapped elsewhere, the local entry dropped, the counter reset.
ShootdownStart(c) ==
    /\ At("shootdown", c, "idle") /\ local[c].calls > 0 /\ shared.mapped < Remaps
    /\ Step("shootdown", c,
            [shared EXCEPT !.mapped = @ + 1, !.tlb[c] = -1,
                           !.mixed = \E d \in TlbCpus : local[d].pc # "idle"],
            [local[c] EXCEPT !.pc = "reset", !.calls = @ - 1, !.todo = TlbCpus \ {c}, !.late = FALSE])

ShootdownReset(c) ==
    /\ At("shootdown", c, "reset")
    /\ Step("shootdown", c,
            [shared EXCEPT !.acked = 0,
                           !.mixed = @ \/ \E d \in TlbCpus : d \in shared.irq \/ local[d].handling],
            Goto(local[c], "send"))

SendVector(c) ==
    /\ At("shootdown", c, "send")
    /\ \E d \in local[c].todo :
         Step("shootdown", c, [shared EXCEPT !.irq = @ \cup {d}],
              [local[c] EXCEPT !.todo = @ \ {d}, !.pc = IF local[c].todo = {d} THEN "await" ELSE "send"])

ShootdownDone(c) ==
    /\ At("shootdown", c, "await") /\ shared.acked >= Cardinality(TlbCpus) - 1
    /\ Step("shootdown", c, shared, Goto(local[c], "done"))

ShootdownTimeout(c) ==
    /\ At("shootdown", c, "await") /\ shared.acked < Cardinality(TlbCpus) - 1
    /\ Step("shootdown", c, shared, [local[c] EXCEPT !.pc = "done", !.late = TRUE])

\* The caller frees or reuses what the page mapped before.
ShootdownReturn(c) == At("shootdown", c, "done") /\ Step("shootdown", c, shared, Goto(local[c], "idle"))

\* handle_tlb_shootdown_ipi: flush, then acknowledge.
HandleFlush(c) ==
    /\ kind = "shootdown" /\ c \in shared.irq /\ ~local[c].handling
    /\ Step("shootdown", c, [shared EXCEPT !.irq = @ \ {c}, !.tlb[c] = -1], [local[c] EXCEPT !.handling = TRUE])

HandleAck(c) ==
    /\ kind = "shootdown" /\ local[c].handling
    /\ Step("shootdown", c, [shared EXCEPT !.acked = @ + 1], [local[c] EXCEPT !.handling = FALSE])

TlbStep(c) ==
    \/ ShootdownReset(c) \/ SendVector(c) \/ ShootdownDone(c) \/ ShootdownTimeout(c) \/ ShootdownReturn(c)
    \/ HandleFlush(c) \/ HandleAck(c)

\* A shootdown that returns without its time-out leaves no CPU with the entry it
\* was for, also after others have timed out, if it met no other and no
\* acknowledgement of an earlier one was outstanding when it reset the counter.
NoStaleEntry ==
    ~shared.mixed => \A c, d \in TlbCpus :
        local[c].pc = "done" /\ ~local[c].late => shared.tlb[d] \in {-1, shared.mapped}
=============================================================================
