------------------------------- MODULE StartUp -------------------------------
(***************************************************************************)
(* The order of start-up: init_kernel in init.rs runs the components one   *)
(* after the other, and component.rs rejects one, with a panic, whose      *)
(* dependencies are not ready or whose stage is behind.                    *)
(***************************************************************************)
EXTENDS Threads, Sequences

Starter == "boot"
Early == 1
Core  == 2
Late  == 3

Component(id, stage, deps, required) == [id |-> id, stage |-> stage, deps |-> deps, required |-> required]

\* init_kernel, up to the other processors and after them.
FirstComponents == <<
    Component("serial", Early, {}, TRUE),
    Component("mm_layout", Early, {"serial"}, TRUE),
    Component("acpi_probe", Early, {"serial", "mm_layout"}, TRUE),
    Component("memory", Core, {"mm_layout"}, TRUE),
    Component("acpi", Core, {"memory", "acpi_probe"}, TRUE),
    Component("pcp", Core, {"memory", "acpi"}, TRUE),
    Component("interrupt", Core, {"memory", "acpi"}, TRUE),
    Component("smp", Core, {"interrupt", "acpi", "memory"}, TRUE) >>
LateComponents == <<
    Component("iommu", Late, {"memory", "acpi"}, TRUE),
    Component("virt", Late, {"acpi"}, FALSE),
    Component("drivers", Late, {"interrupt", "iommu"}, TRUE),
    Component("timer", Late, {"interrupt", "smp"}, TRUE),
    Component("fs", Late, {"memory", "timer"}, TRUE),
    Component("task", Late, {"fs", "timer", "memory"}, TRUE),
    Component("net", Late, {"drivers", "task"}, FALSE),
    Component("security", Late, {"task", "fs"}, FALSE) >>
InitOrder == FirstComponents \o LateComponents

BootInit ==
    /\ kind = "boot"
    /\ shared = [ready |-> {}, highest |-> Early]
    /\ local = [t \in {Starter} |-> [pc |-> "starting", next |-> 1]]

Validates(c) == c.stage >= shared.highest /\ c.deps \subseteq shared.ready
MarkReady(c) == [ready |-> shared.ready \cup {c.id}, highest |-> IF c.stage > shared.highest THEN c.stage ELSE shared.highest]

\* run_component, by way of run_required_component for those that cannot fail.
RunComponent ==
    LET l == local[Starter]
        c == InitOrder[l.next]
        next == [l EXCEPT !.next = @ + 1, !.pc = IF l.next = Len(InitOrder) THEN "idle" ELSE @]
    IN  /\ At("boot", Starter, "starting")
        /\ IF ~Validates(c) THEN Step("boot", Starter, shared, Goto(l, "rejected"))
           ELSE \/ Step("boot", Starter, MarkReady(c), next)
                \/ ~c.required /\ Step("boot", Starter, shared, next)
=============================================================================
