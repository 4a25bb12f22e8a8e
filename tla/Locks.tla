-------------------------------- MODULE Locks --------------------------------
(***************************************************************************)
(* The exclusive locks of kernel/src/sync: Mutex, and SpinLock and Mutex   *)
(* inside the saving of interrupts (IrqSpinLock, IrqMutex).  A thread is a *)
(* pair <<cpu, level>>: a lock knows its owner by CPU, and an interrupt    *)
(* handler runs on the CPU whose task it interrupts.                       *)
(***************************************************************************)
EXTENDS Threads

CONSTANTS LockCpus,    \* the CPUs that contend for the lock
          NoOwner      \* the owner field of a lock nobody holds

IrqKinds  == {"irqlock", "irqmutex"}    \* the handlers take these as well
LockKinds == {"mutex"} \cup IrqKinds

ASSUME NoOwnerAssumption == NoOwner \notin LockCpus
ASSUME LockCallsAssumption == \A k \in LockKinds : MaxCalls[k] \in Nat

Tasks    == LockCpus \X {"task"}
Handlers == LockCpus \X {"irq"}
Cpu(t)   == t[1]
Contenders(k) == IF k \in IrqKinds THEN Tasks \cup Handlers ELSE Tasks

\* Whether the CPU executes t: an interrupted task waits for the handler.
Running(t) == (t \in Tasks /\ kind \in IrqKinds) => local[<<Cpu(t), "irq">>].pc = "idle"

(***************************************************************************)
(* The lock word and the owner, common to the three.  A call is "lock",    *)
(* "try" or "blocking"; "blocking" (Mutex::lock_blocking) repeats the try  *)
(* and lets other tasks run in between.                                    *)
(***************************************************************************)
LockInit ==
    /\ kind \in LockKinds
    /\ shared = [locked |-> FALSE, owner |-> NoOwner, enabled |-> [c \in LockCpus |-> TRUE]]
    /\ local = [t \in Contenders(kind) |-> Idle(kind)]

\* The end of a call: interrupts are restored before it returns.
Leave(l) == IF kind \in IrqKinds THEN Goto(l, "restore") ELSE Done(l)

\* Where a call goes that did not get the lock.
Refused(l) ==
    CASE l.call = "blocking" -> Goto(l, "check")
      [] l.call = "try" -> Leave(l)
      [] OTHER -> Goto(l, IF kind = "irqlock" THEN "cas" ELSE "spin")

LoadLocked(t) ==
    /\ At(kind, t, "check") /\ Running(t)
    /\ Step(kind, t, shared, Goto(local[t], IF shared.locked THEN "owner" ELSE "cas"))

\* A lock that this CPU already holds can never be had: lock panics, and a try
\* fails without trying.
LoadOwner(t) ==
    LET l == local[t] IN
    /\ At(kind, t, "owner") /\ Running(t)
    /\ Step(kind, t, shared,
         IF shared.owner # Cpu(t) THEN Goto(l, "cas")
         ELSE IF l.call = "lock" THEN Goto(l, "panic") ELSE Refused(l))

CompareExchange(t) ==
    LET l == local[t] IN
    /\ At(kind, t, "cas") /\ Running(t)
    /\ \/ ~shared.locked /\ Step(kind, t, [shared EXCEPT !.locked = TRUE], Goto(l, "own"))
       \/ shared.locked /\ Step(kind, t, shared, Refused(l))

\* lock_slow of Mutex looks at the word before it tries again.
SpinOnWord(t) ==
    /\ At(kind, t, "spin") /\ Running(t) /\ ~shared.locked
    /\ Step(kind, t, shared, Goto(local[t], "cas"))

StoreOwner(t) ==
    /\ At(kind, t, "own") /\ Running(t)
    /\ Step(kind, t, [shared EXCEPT !.owner = Cpu(t)], Goto(local[t], "held"))

ClearOwner(t) ==
    /\ At(kind, t, "held") /\ Running(t)
    /\ Step(kind, t, [shared EXCEPT !.owner = NoOwner], Goto(local[t], "release"))

ClearWord(t) ==
    /\ At(kind, t, "release") /\ Running(t)
    /\ Step(kind, t, [shared EXCEPT !.locked = FALSE], Leave(local[t]))

MutexEnter(t) ==
    \E call \in {"lock", "try", "blocking"} : kind = "mutex" /\ Enter(kind, t, call, "check")

(***************************************************************************)
(* IrqSpinLock and IrqMutex: interrupts are off from before the attempt    *)
(* until after the release, and come back only if they were on.  A handler *)
(* starts with interrupts off and turns them on when it returns.           *)
(***************************************************************************)
Enabled(c, on) == [shared EXCEPT !.enabled = [shared.enabled EXCEPT ![c] = on]]

\* Mutant of IrqSave: interrupts stay on.
IrqSaveNothing(t) ==
    /\ At(kind, t, "save") /\ Running(t)
    /\ Step(kind, t, shared, [local[t] EXCEPT !.pc = "check", !.seen = 0])

IrqSave(t) ==
    /\ At(kind, t, "save") /\ Running(t)
    /\ Step(kind, t, Enabled(Cpu(t), FALSE),
            [local[t] EXCEPT !.pc = "check", !.seen = IF shared.enabled[Cpu(t)] THEN 1 ELSE 0])

IrqRestore(t) ==
    /\ At(kind, t, "restore") /\ Running(t)
    /\ Step(kind, t, Enabled(Cpu(t), shared.enabled[Cpu(t)] \/ local[t].seen = 1),
            IF t \in Handlers THEN Goto(local[t], "iret") ELSE Done(local[t]))

Interrupt(t) ==
    /\ t \in Handlers /\ At(kind, t, "idle") /\ local[t].calls > 0 /\ shared.enabled[Cpu(t)]
    /\ Step(kind, t, Enabled(Cpu(t), FALSE),
            [local[t] EXCEPT !.call = "lock", !.pc = "save", !.calls = @ - 1])

InterruptReturn(t) ==
    /\ At(kind, t, "iret")
    /\ Step(kind, t, Enabled(Cpu(t), TRUE), Done(local[t]))

IrqEnter(t) ==
    /\ kind \in IrqKinds /\ t \in Tasks /\ Running(t)
    /\ \E call \in {"lock", "try"} : Enter(kind, t, call, "save")

LockEnter(t) == MutexEnter(t) \/ IrqEnter(t) \/ Interrupt(t)
LockStep(t) ==
    \/ LoadLocked(t) \/ LoadOwner(t) \/ CompareExchange(t) \/ SpinOnWord(t)
    \/ StoreOwner(t) \/ ClearOwner(t) \/ ClearWord(t)
    \/ IrqSave(t) \/ IrqRestore(t) \/ InterruptReturn(t)

LockNext == \E t \in Contenders(kind) : LockEnter(t) \/ LockStep(t)
LockSpec == LockInit /\ [][LockNext]_protocol

Holders == {t \in DOMAIN local : local[t].pc \in {"own", "held", "release"}}

\* One holder; the word says whether there is one; and no call finds that its
\* own CPU is the owner, because its task holds the lock or has just given it
\* back (spinlock.rs:58, mutex.rs:56), so that none takes its attempt for a
\* recursive one and panics.
LockExclusive ==
    /\ \A t, u \in Holders : t = u
    /\ shared.locked <=> Holders # {}
    /\ \A t \in DOMAIN local : local[t].pc # "panic"
=============================================================================
