----------------------------- MODULE LockProofs -----------------------------
(***************************************************************************)
(* Mutual exclusion of the exclusive locks, for any number of CPUs: one    *)
(* holder, and no call that panics because it takes the owner it reads for *)
(* itself.  The second needs the saving of interrupts: a handler must not  *)
(* run on the CPU of a task that is anywhere between disabling and         *)
(* restoring them.                                                         *)
(***************************************************************************)
EXTENDS Locks, RwLocks, FiniteSetTheorems, TLAPS

Word == [locked : BOOLEAN, owner : LockCpus \cup {NoOwner}, enabled : [LockCpus -> BOOLEAN]]
CallNames == {"none", "lock", "try", "blocking"}
Places == {"idle", "check", "owner", "cas", "spin", "own", "held", "release", "panic",
           "save", "restore", "iret"}
Local == [call : CallNames, pc : Places, seen : Int, calls : Int]

LockTypeOK == kind \in LockKinds /\ shared \in Word /\ local \in [Contenders(kind) -> Local]

\* The owner field names the CPU of a thread that has the lock.
OwnerHolds ==
    shared.owner # NoOwner => \E u \in Contenders(kind) : local[u].pc = "held" /\ Cpu(u) = shared.owner

\* On one CPU: from the start of a handler to its return, and while the task is
\* inside, interrupts are off, and one of the two is outside.
Outside == {"idle", "save"}
Apart(c) ==
    /\ local[<<c, "irq">>].pc # "idle" => local[<<c, "task">>].pc \in Outside /\ ~shared.enabled[c]
    /\ local[<<c, "task">>].pc \notin Outside => ~shared.enabled[c]
    /\ local[<<c, "irq">>].pc \notin Outside => local[<<c, "irq">>].seen = 0
    /\ local[<<c, "task">>].pc # "iret"
InterruptsOff == kind \in IrqKinds => \A c \in LockCpus : Apart(c)

LockInv == LockTypeOK /\ LockExclusive /\ OwnerHolds /\ InterruptsOff

(***************************************************************************)
(* What a step of thread t, which leaves it at l, is to the lock and to    *)
(* the interrupts of its CPU.                                              *)
(***************************************************************************)
HolderPlaces == {"own", "held", "release"}

Quiet(t, l) ==
    local[t].pc \notin HolderPlaces /\ l.pc \notin HolderPlaces /\ shared'.locked = shared.locked /\ shared'.owner = shared.owner
Takes(t, l) ==
    local[t].pc \notin HolderPlaces /\ l.pc = "own" /\ shared.locked = FALSE /\ shared'.locked = TRUE /\ shared'.owner = shared.owner
Stores(t, l) == local[t].pc = "own" /\ l.pc = "held" /\ shared'.locked = shared.locked /\ shared'.owner = Cpu(t)
Clears(t, l) == local[t].pc = "held" /\ l.pc = "release" /\ shared'.locked = shared.locked /\ shared'.owner = NoOwner
Frees(t, l) == local[t].pc = "release" /\ l.pc \notin HolderPlaces /\ shared'.locked = FALSE /\ shared'.owner = shared.owner
LockShape(t, l) == Quiet(t, l) \/ Takes(t, l) \/ Stores(t, l) \/ Clears(t, l) \/ Frees(t, l)

Turned(c, on) == shared'.enabled = [shared.enabled EXCEPT ![c] = on]
Inside(t, l) ==
    /\ Running(t) /\ shared'.enabled = shared.enabled /\ l.seen = local[t].seen
    /\ local[t].pc \notin Outside \cup {"iret"} /\ l.pc \notin Outside \cup {"iret"}
Calls(t, l) == t \in Tasks /\ Running(t) /\ local[t].pc = "idle" /\ l.pc = "save" /\ shared'.enabled = shared.enabled
Interrupts(t, l) == t \in Handlers /\ local[t].pc = "idle" /\ l.pc = "save" /\ shared.enabled[Cpu(t)] /\ Turned(Cpu(t), FALSE)
Saves(t, l) ==
    /\ Running(t) /\ local[t].pc = "save" /\ l.pc = "check" /\ Turned(Cpu(t), FALSE)
    /\ l.seen = IF shared.enabled[Cpu(t)] THEN 1 ELSE 0
Restores(t, l) ==
    /\ Running(t) /\ local[t].pc = "restore" /\ Turned(Cpu(t), shared.enabled[Cpu(t)] \/ local[t].seen = 1)
    /\ IF t \in Handlers THEN l.pc = "iret" /\ l.seen = local[t].seen ELSE l.pc = "idle"
Returns(t, l) == local[t].pc = "iret" /\ l.pc = "idle" /\ Turned(Cpu(t), TRUE)
IrqShape(t, l) ==
    kind \in IrqKinds =>
      Inside(t, l) \/ Calls(t, l) \/ Interrupts(t, l) \/ Saves(t, l) \/ Restores(t, l) \/ Returns(t, l)

Moves(t, l) ==
    /\ l \in Local /\ shared' \in Word /\ kind' = kind /\ local' = [local EXCEPT ![t] = l]
    /\ LockShape(t, l) /\ IrqShape(t, l)
    /\ l.pc = "panic" => local[t].pc = "owner" /\ shared.owner = Cpu(t)

\* The record of a thread with one part changed.
LEMMA PcChanged ==
    ASSUME NEW l \in Local, NEW pc \in Places
    PROVE  [l EXCEPT !.pc = pc] \in Local /\ [l EXCEPT !.pc = pc].pc = pc /\ [l EXCEPT !.pc = pc].seen = l.seen
BY Zenon DEF Local
LEMMA CallChanged ==
    ASSUME NEW l \in Local, NEW c \in CallNames
    PROVE  [l EXCEPT !.call = c] \in Local /\ [l EXCEPT !.call = c].pc = l.pc
BY Zenon DEF Local
LEMMA SeenChanged ==
    ASSUME NEW l \in Local, NEW n \in Int
    PROVE  [l EXCEPT !.seen = n] \in Local /\ [l EXCEPT !.seen = n].pc = l.pc /\ [l EXCEPT !.seen = n].seen = n
BY Zenon DEF Local
LEMMA CallsChanged ==
    ASSUME NEW l \in Local, NEW n \in Int
    PROVE  [l EXCEPT !.calls = n] \in Local /\ [l EXCEPT !.calls = n].pc = l.pc
BY Zenon DEF Local

\* The record of a thread that goes on, that returns, that calls, that saves.
LEMMA Went ==
    ASSUME NEW l \in Local, NEW pc \in Places
    PROVE  Goto(l, pc) \in Local /\ Goto(l, pc).pc = pc /\ Goto(l, pc).seen = l.seen
BY Zenon, PcChanged DEF Goto

LEMMA Returned ==
    ASSUME NEW l \in Local
    PROVE  Done(l) \in Local /\ Done(l).pc = "idle"
<1> DEFINE a == [l EXCEPT !.call = "none"]
           b == [a EXCEPT !.pc = "idle"]
           c == [b EXCEPT !.seen = 0]
<1>0. "none" \in CallNames /\ "idle" \in Places
  BY Zenon DEF CallNames, Places
<1>1. a \in Local
  BY Zenon, <1>0, CallChanged
<1>2. c = Done(l)
  BY Zenon DEF Done
<1> HIDE DEF a
<1>3. b \in Local /\ b.pc = "idle"
  BY Zenon, <1>0, <1>1, PcChanged
<1> HIDE DEF b
<1>4. c \in Local /\ c.pc = "idle"
  BY <1>3, SeenChanged
<1>5. QED
  BY Zenon, <1>2, <1>4

\* Where a call takes the record of a thread.
CalledAt(l, call, pc) == [l EXCEPT !.call = call, !.pc = pc, !.calls = @ - 1]
LEMMA Called ==
    ASSUME NEW l \in Local, NEW call \in CallNames, NEW pc \in Places
    PROVE  CalledAt(l, call, pc) \in Local /\ CalledAt(l, call, pc).pc = pc
<1> DEFINE n == l.calls - 1
           a == [l EXCEPT !.call = call]
           b == [a EXCEPT !.pc = pc]
           c == [b EXCEPT !.calls = n]
<1>1. a \in Local /\ n \in Int
  BY CallChanged DEF Local
<1>2. c = CalledAt(l, call, pc)
  BY Zenon DEF Local, CalledAt
<1> HIDE DEF a, n
<1>3. b \in Local /\ b.pc = pc
  BY Zenon, <1>1, PcChanged
<1> HIDE DEF b
<1>4. c \in Local /\ c.pc = pc
  BY Zenon, <1>1, <1>3, CallsChanged
<1>5. QED
  BY Zenon, <1>2, <1>4

LEMMA Saved ==
    ASSUME NEW l \in Local, NEW n \in Int
    PROVE  /\ [l EXCEPT !.pc = "check", !.seen = n] \in Local
           /\ [l EXCEPT !.pc = "check", !.seen = n].pc = "check"
           /\ [l EXCEPT !.pc = "check", !.seen = n].seen = n
<1> DEFINE a == Goto(l, "check")
           b == [a EXCEPT !.seen = n]
<1>0. "check" \in Places
  BY Zenon DEF Places
<1>1. a \in Local /\ a.pc = "check"
  BY Zenon, <1>0, Went
<1>2. b = [l EXCEPT !.pc = "check", !.seen = n]
  BY Zenon DEF Local, Goto
<1> HIDE DEF a
<1>3. b \in Local /\ b.pc = "check" /\ b.seen = n
  BY Zenon, <1>1, SeenChanged
<1>4. QED
  BY Zenon, <1>2, <1>3

\* The word, with one of its parts changed.
LEMMA Words ==
    ASSUME NEW w \in Word
    PROVE  /\ w.locked \in BOOLEAN /\ w.owner \in LockCpus \cup {NoOwner} /\ w.enabled \in [LockCpus -> BOOLEAN]
           /\ \A b \in BOOLEAN :
                /\ [w EXCEPT !.locked = b] \in Word /\ [w EXCEPT !.locked = b].locked = b
                /\ [w EXCEPT !.locked = b].owner = w.owner /\ [w EXCEPT !.locked = b].enabled = w.enabled
           /\ \A o \in LockCpus \cup {NoOwner} :
                /\ [w EXCEPT !.owner = o] \in Word /\ [w EXCEPT !.owner = o].owner = o
                /\ [w EXCEPT !.owner = o].locked = w.locked /\ [w EXCEPT !.owner = o].enabled = w.enabled
           /\ \A e \in [LockCpus -> BOOLEAN] :
                /\ [w EXCEPT !.enabled = e] \in Word /\ [w EXCEPT !.enabled = e].enabled = e
                /\ [w EXCEPT !.enabled = e].locked = w.locked /\ [w EXCEPT !.enabled = e].owner = w.owner
BY Zenon DEF Word

\* A thread is a task or a handler of one of the CPUs.
LEMMA Threaded ==
    ASSUME NEW k, NEW t \in Contenders(k)
    PROVE  /\ Cpu(t) \in LockCpus
           /\ \/ t = <<Cpu(t), "task">> /\ t \in Tasks /\ t \notin Handlers
              \/ k \in IrqKinds /\ t = <<Cpu(t), "irq">> /\ t \in Handlers /\ t \notin Tasks
BY DEF Contenders, Tasks, Handlers, Cpu

LEMMA BothThere ==
    ASSUME NEW c \in LockCpus, kind \in IrqKinds
    PROVE  /\ <<c, "task">> \in Contenders(kind) /\ <<c, "irq">> \in Contenders(kind)
           /\ Cpu(<<c, "task">>) = c /\ Cpu(<<c, "irq">>) = c /\ <<c, "task">> # <<c, "irq">>
BY Zenon DEF Contenders, Tasks, Handlers, Cpu

\* Every action is one of those.
LEMMA Shapes ==
    ASSUME LockTypeOK, NEW t \in Contenders(kind), LockEnter(t) \/ LockStep(t)
    PROVE  \E l \in Local : Moves(t, l)
<1> DEFINE me == local[t]
           c == Cpu(t)
<1>0. me \in Local /\ shared \in Word /\ kind \in LockKinds
  BY Zenon DEF LockTypeOK
<1>1. c \in LockCpus
  BY Zenon, Threaded
<1> HIDE DEF me, c
<1>2. /\ shared.locked \in BOOLEAN /\ shared.enabled \in [LockCpus -> BOOLEAN] /\ me.seen \in Int
      /\ \A b \in BOOLEAN :
           /\ [shared EXCEPT !.locked = b] \in Word /\ [shared EXCEPT !.locked = b].locked = b
           /\ [shared EXCEPT !.locked = b].owner = shared.owner /\ [shared EXCEPT !.locked = b].enabled = shared.enabled
      /\ \A o \in LockCpus \cup {NoOwner} :
           /\ [shared EXCEPT !.owner = o] \in Word /\ [shared EXCEPT !.owner = o].owner = o
           /\ [shared EXCEPT !.owner = o].locked = shared.locked /\ [shared EXCEPT !.owner = o].enabled = shared.enabled
  <2>1. me.seen \in Int
    BY Zenon, <1>0 DEF Local
  <2>2. QED
    BY Zenon, <1>0, <2>1, Words
\* Interrupts turned on or off leave the lock alone.
<1>3. ASSUME NEW on \in BOOLEAN
      PROVE  /\ Enabled(c, on) \in Word /\ Enabled(c, on).locked = shared.locked /\ Enabled(c, on).owner = shared.owner
             /\ Enabled(c, on).enabled = [shared.enabled EXCEPT ![c] = on]
  <2>1. [shared.enabled EXCEPT ![c] = on] \in [LockCpus -> BOOLEAN]
    BY Zenon, <1>2
  <2>2. QED
    BY <1>0, <2>1, Words DEF Enabled
\* Where a step leaves the thread.
<1>4. Done(me) \in Local /\ Done(me).pc = "idle"
  BY Zenon, <1>0, Returned
<1>5. \A pc \in Places : Goto(me, pc) \in Local /\ Goto(me, pc).pc = pc /\ Goto(me, pc).seen = me.seen
  BY Zenon, <1>0, Went
<1>6. /\ Leave(me) \in Local /\ Leave(me).pc \in {"restore", "idle"}
      /\ kind \in IrqKinds => Leave(me).pc = "restore" /\ Leave(me).seen = me.seen
  BY Zenon, <1>4, <1>5 DEF Leave, Places
<1>7. /\ Refused(me) \in Local /\ Refused(me).pc \in {"check", "cas", "spin", "restore", "idle"}
      /\ kind \in IrqKinds => Refused(me).pc # "idle" /\ Refused(me).seen = me.seen
  <2>1. CASE me.call = "blocking"
    BY Zenon, <1>5, <2>1 DEF Refused, Places
  <2>2. CASE me.call = "try"
    <3>1. Refused(me) = Leave(me)
      BY Zenon, <2>2 DEF Refused
    <3>2. QED
      BY Zenon, <1>6, <3>1
  <2>3. CASE me.call # "blocking" /\ me.call # "try"
    <3>1. Refused(me) = Goto(me, IF kind = "irqlock" THEN "cas" ELSE "spin")
      BY Zenon, <2>3 DEF Refused
    <3>2. QED
      BY Zenon, <1>5, <3>1 DEF Places
  <2>4. QED
    BY Zenon, <2>1, <2>2, <2>3
\* A step of an attempt that does not get the lock.
<1>8. ASSUME NEW l \in Local, Step(kind, t, shared, l), Running(t), me.pc \in {"check", "owner", "cas", "spin"},
             l.pc \notin HolderPlaces, l.pc = "panic" => me.pc = "owner" /\ shared.owner = c,
             kind \in IrqKinds => l.pc \notin Outside \cup {"iret"} /\ l.seen = me.seen
      PROVE  Moves(t, l)
  <2>1. shared' = shared /\ kind' = kind /\ local' = [local EXCEPT ![t] = l]
    BY Zenon, <1>8 DEF Step
  <2>2. Quiet(t, l)
    BY Zenon, <1>8, <2>1 DEF Quiet, HolderPlaces, me
  <2>3. kind \in IrqKinds => Inside(t, l)
    BY Zenon, <1>8, <2>1 DEF Inside, Outside, me
  <2>4. QED
    BY Zenon, <1>0, <1>8, <2>1, <2>2, <2>3 DEF Moves, LockShape, IrqShape, me, c
<1>9. CASE MutexEnter(t)
  <2>1. PICK call \in CallNames : kind = "mutex" /\ Enter(kind, t, call, "check")
    BY Zenon, <1>9 DEF MutexEnter, CallNames
  <2> DEFINE l == CalledAt(me, call, "check")
  <2>0. "check" \in Places
    BY Zenon DEF Places
  <2>2. l \in Local /\ l.pc = "check"
    BY Zenon, <1>0, <2>0, Called
  <2>3. Step(kind, t, shared, l) /\ me.pc = "idle"
    BY Zenon, <2>1 DEF Enter, At, me, CalledAt
  <2> HIDE DEF l
  <2>4. Quiet(t, l) /\ kind \notin IrqKinds
    BY Zenon, <2>1, <2>2, <2>3 DEF Quiet, HolderPlaces, Step, me, IrqKinds
  <2>5. Moves(t, l)
    BY Zenon, <1>0, <2>2, <2>3, <2>4 DEF Moves, LockShape, IrqShape, Step
  <2>6. QED
    BY Zenon, <2>2, <2>5
<1>10. CASE IrqEnter(t)
  <2>1. PICK call \in CallNames : Enter(kind, t, call, "save")
    BY Zenon, <1>10 DEF IrqEnter, CallNames
  <2> DEFINE l == CalledAt(me, call, "save")
  <2>0. "save" \in Places
    BY Zenon DEF Places
  <2>2. l \in Local /\ l.pc = "save"
    BY Zenon, <1>0, <2>0, Called
  <2>3. Step(kind, t, shared, l) /\ me.pc = "idle"
    BY Zenon, <2>1 DEF Enter, At, me, CalledAt
  <2>4. t \in Tasks /\ Running(t)
    BY Zenon, <1>10 DEF IrqEnter
  <2> HIDE DEF l
  <2>5. Quiet(t, l) /\ Calls(t, l)
    BY Zenon, <2>2, <2>3, <2>4 DEF Quiet, Calls, HolderPlaces, Step, me
  <2>6. Moves(t, l)
    BY Zenon, <1>0, <2>2, <2>3, <2>5 DEF Moves, LockShape, IrqShape, Step
  <2>7. QED
    BY Zenon, <2>2, <2>6
<1>11. CASE Interrupt(t)
  <2>0. PICK call \in CallNames, pc \in Places : call = "lock" /\ pc = "save"
    BY Zenon DEF CallNames, Places
  <2> DEFINE l == CalledAt(me, call, pc)
  <2>called. l \in Local /\ l.pc = pc
    BY Zenon, <1>0, Called
  <2>1. l \in Local /\ l.pc = "save"
    BY Zenon, <2>0, <2>called
  <2>2. Step(kind, t, Enabled(c, FALSE), l) /\ me.pc = "idle" /\ t \in Handlers /\ shared.enabled[c]
    BY Zenon, <1>11, <2>0 DEF Interrupt, At, me, c, CalledAt
  <2> HIDE DEF l
  <2>3. shared' = Enabled(c, FALSE) /\ kind' = kind /\ local' = [local EXCEPT ![t] = l]
    BY Zenon, <2>2 DEF Step
  <2>4. Quiet(t, l)
    BY Zenon, <1>3, <2>1, <2>2, <2>3 DEF Quiet, HolderPlaces, me
  <2>5. Interrupts(t, l)
    BY Zenon, <1>3, <2>1, <2>2, <2>3 DEF Interrupts, Turned, me, c
  <2>6. Moves(t, l)
    BY Zenon, <1>3, <2>1, <2>3, <2>4, <2>5 DEF Moves, LockShape, IrqShape
  <2>7. QED
    BY Zenon, <2>1, <2>6
<1>12. CASE LoadLocked(t)
  <2> DEFINE l == Goto(me, IF shared.locked THEN "owner" ELSE "cas")
  <2>1. l \in Local /\ l.pc \in {"owner", "cas"} /\ l.seen = me.seen
    BY Zenon, <1>5 DEF Places
  <2>2. Step(kind, t, shared, l) /\ me.pc = "check" /\ Running(t)
    BY Zenon, <1>12 DEF LoadLocked, At, me
  <2> HIDE DEF l
  <2>3. Moves(t, l)
    BY Zenon, <1>8, <2>1, <2>2 DEF HolderPlaces, Outside
  <2>4. QED
    BY Zenon, <2>1, <2>3
<1>13. CASE LoadOwner(t)
  <2>1. me.pc = "owner" /\ Running(t)
    BY Zenon, <1>13 DEF LoadOwner, At, me
  <2>2. \/ Step(kind, t, shared, Goto(me, "cas"))
        \/ shared.owner = c /\ Step(kind, t, shared, Goto(me, "panic"))
        \/ Step(kind, t, shared, Refused(me))
    BY Zenon, <1>13 DEF LoadOwner, me, c
  <2>3. CASE Step(kind, t, shared, Goto(me, "cas"))
    <3> DEFINE l == Goto(me, "cas")
    <3>1. l \in Local /\ l.pc = "cas" /\ l.seen = me.seen
      BY Zenon, <1>5 DEF Places
    <3>2. Step(kind, t, shared, l)
      BY Zenon, <2>3
    <3> HIDE DEF l
    <3>3. Moves(t, l)
      BY Zenon, <1>8, <2>1, <3>1, <3>2 DEF HolderPlaces, Outside
    <3>4. QED
      BY Zenon, <3>1, <3>3
  <2>4. CASE shared.owner = c /\ Step(kind, t, shared, Goto(me, "panic"))
    <3> DEFINE l == Goto(me, "panic")
    <3>1. l \in Local /\ l.pc = "panic" /\ l.seen = me.seen
      BY Zenon, <1>5 DEF Places
    <3>2. Step(kind, t, shared, l)
      BY Zenon, <2>4
    <3> HIDE DEF l
    <3>3. Moves(t, l)
      BY Zenon, <1>8, <2>1, <2>4, <3>1, <3>2 DEF HolderPlaces, Outside
    <3>4. QED
      BY Zenon, <3>1, <3>3
  <2>5. CASE Step(kind, t, shared, Refused(me))
    <3>1. Moves(t, Refused(me))
      BY Zenon, <1>7, <1>8, <2>1, <2>5 DEF HolderPlaces, Outside
    <3>2. QED
      BY Zenon, <1>7, <3>1
  <2>6. QED
    BY Zenon, <2>2, <2>3, <2>4, <2>5
<1>14. CASE CompareExchange(t)
  <2>1. me.pc = "cas" /\ Running(t)
    BY Zenon, <1>14 DEF CompareExchange, At, me
  <2>2. CASE shared.locked = FALSE /\ Step(kind, t, [shared EXCEPT !.locked = TRUE], Goto(me, "own"))
    <3> DEFINE l == Goto(me, "own")
    <3>1. l \in Local /\ l.pc = "own" /\ l.seen = me.seen
      BY Zenon, <1>5 DEF Places
    <3>2. shared' = [shared EXCEPT !.locked = TRUE] /\ kind' = kind /\ local' = [local EXCEPT ![t] = l]
      BY Zenon, <2>2 DEF Step
    <3> HIDE DEF l
    <3>3. shared' \in Word /\ shared'.locked = TRUE /\ shared'.owner = shared.owner /\ shared'.enabled = shared.enabled
      BY Zenon, <1>2, <3>2
    <3>4. Takes(t, l) /\ Inside(t, l)
      BY Zenon, <2>1, <2>2, <3>1, <3>3 DEF Takes, Inside, HolderPlaces, Outside, me
    <3>5. Moves(t, l)
      BY Zenon, <3>1, <3>2, <3>3, <3>4 DEF Moves, LockShape, IrqShape
    <3>6. QED
      BY Zenon, <3>1, <3>5
  <2>3. CASE Step(kind, t, shared, Refused(me))
    <3>1. Moves(t, Refused(me))
      BY Zenon, <1>7, <1>8, <2>1, <2>3 DEF HolderPlaces, Outside
    <3>2. QED
      BY Zenon, <1>7, <3>1
  <2>4. QED
    BY Zenon, <1>2, <1>14, <2>2, <2>3 DEF CompareExchange, me
<1>15. CASE SpinOnWord(t)
  <2> DEFINE l == Goto(me, "cas")
  <2>1. l \in Local /\ l.pc = "cas" /\ l.seen = me.seen
    BY Zenon, <1>5 DEF Places
  <2>2. Step(kind, t, shared, l) /\ me.pc = "spin" /\ Running(t)
    BY Zenon, <1>15 DEF SpinOnWord, At, me
  <2> HIDE DEF l
  <2>3. Moves(t, l)
    BY Zenon, <1>8, <2>1, <2>2 DEF HolderPlaces, Outside
  <2>4. QED
    BY Zenon, <2>1, <2>3
<1>16. CASE StoreOwner(t)
  <2> DEFINE l == Goto(me, "held")
  <2>1. l \in Local /\ l.pc = "held" /\ l.seen = me.seen
    BY Zenon, <1>5 DEF Places
  <2>2. Step(kind, t, [shared EXCEPT !.owner = c], l) /\ me.pc = "own" /\ Running(t)
    BY Zenon, <1>16 DEF StoreOwner, At, me, c
  <2> HIDE DEF l
  <2>3. shared' = [shared EXCEPT !.owner = c] /\ kind' = kind /\ local' = [local EXCEPT ![t] = l]
    BY Zenon, <2>2 DEF Step
  <2>4. shared' \in Word /\ shared'.locked = shared.locked /\ shared'.owner = c /\ shared'.enabled = shared.enabled
    BY Zenon, <1>1, <1>2, <2>3
  <2>5. Stores(t, l) /\ Inside(t, l)
    BY Zenon, <2>1, <2>2, <2>4 DEF Stores, Inside, Outside, me, c
  <2>6. Moves(t, l)
    BY Zenon, <2>1, <2>3, <2>4, <2>5 DEF Moves, LockShape, IrqShape
  <2>7. QED
    BY Zenon, <2>1, <2>6
<1>17. CASE ClearOwner(t)
  <2> DEFINE l == Goto(me, "release")
  <2>1. l \in Local /\ l.pc = "release" /\ l.seen = me.seen
    BY Zenon, <1>5 DEF Places
  <2>2. Step(kind, t, [shared EXCEPT !.owner = NoOwner], l) /\ me.pc = "held" /\ Running(t)
    BY Zenon, <1>17 DEF ClearOwner, At, me
  <2> HIDE DEF l
  <2>3. shared' = [shared EXCEPT !.owner = NoOwner] /\ kind' = kind /\ local' = [local EXCEPT ![t] = l]
    BY Zenon, <2>2 DEF Step
  <2>4. shared' \in Word /\ shared'.locked = shared.locked /\ shared'.owner = NoOwner /\ shared'.enabled = shared.enabled
    BY Zenon, <1>2, <2>3
  <2>5. Clears(t, l) /\ Inside(t, l)
    BY Zenon, <2>1, <2>2, <2>4 DEF Clears, Inside, Outside, me
  <2>6. Moves(t, l)
    BY Zenon, <2>1, <2>3, <2>4, <2>5 DEF Moves, LockShape, IrqShape
  <2>7. QED
    BY Zenon, <2>1, <2>6
<1>18. CASE ClearWord(t)
  <2> DEFINE l == Leave(me)
  <2>1. /\ l \in Local /\ l.pc \in {"restore", "idle"}
        /\ kind \in IrqKinds => l.pc = "restore" /\ l.seen = me.seen
    BY Zenon, <1>6
  <2>2. Step(kind, t, [shared EXCEPT !.locked = FALSE], l) /\ me.pc = "release" /\ Running(t)
    BY Zenon, <1>18 DEF ClearWord, At, me
  <2> HIDE DEF l
  <2>3. shared' = [shared EXCEPT !.locked = FALSE] /\ kind' = kind /\ local' = [local EXCEPT ![t] = l]
    BY Zenon, <2>2 DEF Step
  <2>4. shared' \in Word /\ shared'.locked = FALSE /\ shared'.owner = shared.owner /\ shared'.enabled = shared.enabled
    BY Zenon, <1>2, <2>3
  <2>5. Frees(t, l) /\ (kind \in IrqKinds => Inside(t, l))
    BY Zenon, <2>1, <2>2, <2>4 DEF Frees, Inside, HolderPlaces, Outside, me
  <2>6. Moves(t, l)
    BY Zenon, <2>1, <2>3, <2>4, <2>5 DEF Moves, LockShape, IrqShape
  <2>7. QED
    BY Zenon, <2>1, <2>6
<1>19. CASE IrqSave(t)
  <2> DEFINE n == IF shared.enabled[c] THEN 1 ELSE 0
             l == [me EXCEPT !.pc = "check", !.seen = n]
  <2>1. n \in Int
    OBVIOUS
  <2>2. Step(kind, t, Enabled(c, FALSE), l) /\ me.pc = "save" /\ Running(t)
    BY Zenon, <1>19 DEF IrqSave, At, me, c
  <2> HIDE DEF n
  <2>3. l \in Local /\ l.pc = "check" /\ l.seen = n
    BY Zenon, <1>0, <2>1, Saved
  <2> HIDE DEF l
  <2>4. shared' = Enabled(c, FALSE) /\ kind' = kind /\ local' = [local EXCEPT ![t] = l]
    BY Zenon, <2>2 DEF Step
  <2>5. Quiet(t, l)
    BY Zenon, <1>3, <2>2, <2>3, <2>4 DEF Quiet, HolderPlaces, me
  <2>6. Saves(t, l)
    BY Zenon, <1>3, <2>2, <2>3, <2>4 DEF Saves, Turned, me, c, n
  <2>7. Moves(t, l)
    BY Zenon, <1>3, <2>3, <2>4, <2>5, <2>6 DEF Moves, LockShape, IrqShape
  <2>8. QED
    BY Zenon, <2>3, <2>7
<1>20. CASE IrqRestore(t)
  <2> DEFINE on == shared.enabled[c] \/ me.seen = 1
             l == IF t \in Handlers THEN Goto(me, "iret") ELSE Done(me)
  <2>1. /\ l \in Local /\ l.pc \in {"iret", "idle"}
        /\ IF t \in Handlers THEN l.pc = "iret" /\ l.seen = me.seen ELSE l.pc = "idle"
    BY Zenon, <1>4, <1>5 DEF Places
  <2>2. on \in BOOLEAN
    BY Zenon DEF on
  <2>3. Step(kind, t, Enabled(c, on), l) /\ me.pc = "restore" /\ Running(t)
    BY Zenon, <1>20 DEF IrqRestore, At, me, c
  <2> HIDE DEF on, l
  <2>4. shared' = Enabled(c, on) /\ kind' = kind /\ local' = [local EXCEPT ![t] = l]
    BY Zenon, <2>3 DEF Step
  <2>5. Quiet(t, l)
    BY Zenon, <1>3, <2>1, <2>2, <2>3, <2>4 DEF Quiet, HolderPlaces, me
  <2>6. Turned(c, on)
    BY Zenon, <1>3, <2>2, <2>4 DEF Turned
  <2>7. Restores(t, l)
    BY Zenon, <2>1, <2>3, <2>6 DEF Restores, me, c, on
  <2>8. Moves(t, l)
    BY Zenon, <1>3, <2>1, <2>2, <2>4, <2>5, <2>7 DEF Moves, LockShape, IrqShape
  <2>9. QED
    BY Zenon, <2>1, <2>8
<1>21. CASE InterruptReturn(t)
  <2>1. Step(kind, t, Enabled(c, TRUE), Done(me)) /\ me.pc = "iret"
    BY Zenon, <1>21 DEF InterruptReturn, At, me, c
  <2> DEFINE l == Done(me)
  <2>2. l \in Local /\ l.pc = "idle"
    BY Zenon, <1>4
  <2>3. shared' = Enabled(c, TRUE) /\ kind' = kind /\ local' = [local EXCEPT ![t] = l]
    BY Zenon, <2>1 DEF Step
  <2> HIDE DEF l
  <2>4. Quiet(t, l)
    BY Zenon, <1>3, <2>1, <2>2, <2>3 DEF Quiet, HolderPlaces, me
  <2>5. Returns(t, l)
    BY Zenon, <1>3, <2>1, <2>2, <2>3 DEF Returns, Turned, me, c
  <2>6. Moves(t, l)
    BY Zenon, <1>3, <2>2, <2>3, <2>4, <2>5 DEF Moves, LockShape, IrqShape
  <2>7. QED
    BY Zenon, <2>2, <2>6
<1>22. QED
  BY Zenon, <1>9, <1>10, <1>11, <1>12, <1>13, <1>14, <1>15, <1>16, <1>17, <1>18, <1>19, <1>20, <1>21
  DEF LockEnter, LockStep

\* After a step of t the other threads are where they were.
LEMMA Others ==
    ASSUME LockTypeOK, NEW t \in Contenders(kind), NEW l, Moves(t, l)
    PROVE  /\ LockTypeOK'
           /\ Contenders(kind)' = Contenders(kind) /\ DOMAIN local = Contenders(kind) /\ DOMAIN local' = Contenders(kind)
           /\ local'[t] = l
           /\ \A u \in Contenders(kind) : u # t => local'[u] = local[u]
<1>1. l \in Local /\ shared' \in Word /\ kind' = kind /\ local' = [local EXCEPT ![t] = l]
  BY Zenon DEF Moves
<1>2. Contenders(kind)' = Contenders(kind)
  BY Zenon, <1>1 DEF Contenders
<1>3. local' \in [Contenders(kind) -> Local]
  BY Zenon, <1>1 DEF LockTypeOK
<1>4. QED
  BY Zenon, <1>1, <1>2, <1>3 DEF LockTypeOK

\* A step keeps one holder, the word and the owner together.
LEMMA OneHolder ==
    ASSUME LockInv, NEW t \in Contenders(kind), NEW l, Moves(t, l)
    PROVE  /\ \A u, v \in Holders' : u = v
           /\ shared'.locked <=> Holders' # {}
           /\ OwnerHolds'
<1> DEFINE In(u) == u \in Contenders(kind) /\ local[u].pc \in HolderPlaces
           InAfter(u) == u \in Contenders(kind) /\ local'[u].pc \in HolderPlaces
<1>0. LockTypeOK
  BY Zenon DEF LockInv
<1>1. /\ LockTypeOK' /\ Contenders(kind)' = Contenders(kind)
      /\ DOMAIN local = Contenders(kind) /\ DOMAIN local' = Contenders(kind)
      /\ local'[t] = l /\ \A u \in Contenders(kind) : u # t => local'[u] = local[u]
  BY Zenon, <1>0, Others
<1>2. (\A u : u \in Holders <=> In(u)) /\ (\A u : u \in Holders' <=> InAfter(u))
  BY Zenon, <1>1 DEF Holders, HolderPlaces
<1>3. (\A u, v : In(u) /\ In(v) => u = v) /\ (shared.locked <=> \E u : In(u))
  BY Zenon, <1>2 DEF LockInv, LockExclusive
<1>4. shared.owner # NoOwner => \E u \in Contenders(kind) : local[u].pc = "held" /\ Cpu(u) = shared.owner
  BY Zenon DEF LockInv, OwnerHolds
<1>5. shared.locked \in BOOLEAN /\ shared'.locked \in BOOLEAN
  BY Zenon, <1>0, <1>1, Words DEF LockTypeOK
<1>6. \A u : u # t => (InAfter(u) <=> In(u))
  BY Zenon, <1>1
<1>7. SUFFICES /\ \A u, v : InAfter(u) /\ InAfter(v) => u = v
               /\ shared'.locked <=> \E u : InAfter(u)
               /\ shared'.owner # NoOwner => \E u \in Contenders(kind) : local'[u].pc = "held" /\ Cpu(u) = shared'.owner
  BY Zenon, <1>1, <1>2 DEF OwnerHolds
<1>8. CASE Quiet(t, l)
  <2>1. ~In(t) /\ ~InAfter(t)
    BY Zenon, <1>1, <1>8 DEF Quiet
  <2>2. shared'.locked = shared.locked /\ shared'.owner = shared.owner
    BY Zenon, <1>8 DEF Quiet
  <2>3. \A u \in Contenders(kind) : local[u].pc = "held" => local'[u].pc = "held"
    BY Zenon, <1>1, <2>1 DEF HolderPlaces
  <2>4. QED
    BY Zenon, <1>3, <1>4, <1>6, <2>1, <2>2, <2>3
<1>9. CASE Takes(t, l)
  <2>1. ~In(t) /\ InAfter(t) /\ shared.locked = FALSE /\ shared'.locked = TRUE /\ shared'.owner = shared.owner
    BY Zenon, <1>1, <1>9 DEF Takes, HolderPlaces
  <2>2. \A u : ~In(u)
    BY Zenon, <1>3, <2>1
  <2>3. shared.owner = NoOwner
    BY Zenon, <1>4, <2>2 DEF HolderPlaces
  <2>4. QED
    BY Zenon, <1>6, <2>1, <2>2, <2>3
<1>10. CASE Stores(t, l)
  <2>1. In(t) /\ InAfter(t) /\ l.pc = "held" /\ shared'.locked = shared.locked /\ shared'.owner = Cpu(t)
    BY Zenon, <1>1, <1>10 DEF Stores, HolderPlaces
  <2>2. QED
    BY Zenon, <1>1, <1>3, <1>5, <1>6, <2>1
<1>11. CASE Clears(t, l)
  <2>1. In(t) /\ InAfter(t) /\ shared'.locked = shared.locked /\ shared'.owner = NoOwner
    BY Zenon, <1>1, <1>11 DEF Clears, HolderPlaces
  <2>2. QED
    BY Zenon, <1>3, <1>5, <1>6, <2>1
<1>12. CASE Frees(t, l)
  <2>1. In(t) /\ ~InAfter(t) /\ local[t].pc = "release" /\ shared'.locked = FALSE /\ shared'.owner = shared.owner
    BY Zenon, <1>1, <1>12 DEF Frees, HolderPlaces
  <2>2. \A u : ~InAfter(u)
    BY Zenon, <1>3, <1>6, <2>1
  <2>3. shared.owner = NoOwner
    BY Zenon, <1>3, <1>4, <2>1 DEF HolderPlaces
  <2>4. QED
    BY Zenon, <2>1, <2>2, <2>3
<1>13. QED
  BY Zenon, <1>8, <1>9, <1>10, <1>11, <1>12 DEF Moves, LockShape

\* No call finds its own CPU in the owner field.
LEMMA NobodyPanics ==
    ASSUME LockInv, NEW t \in Contenders(kind), NEW l, Moves(t, l)
    PROVE  l.pc # "panic"
<1> SUFFICES ASSUME local[t].pc = "owner", shared.owner = Cpu(t) PROVE FALSE
  BY Zenon DEF Moves
<1>1. shared.owner # NoOwner
  BY Zenon, Threaded, NoOwnerAssumption
<1>2. PICK u \in Contenders(kind) : local[u].pc = "held" /\ Cpu(u) = Cpu(t)
  BY Zenon, <1>1 DEF LockInv, OwnerHolds
<1>3. u # t
  BY Zenon, <1>2
<1>4. Cpu(t) \in LockCpus
  BY Zenon, Threaded
<1>5. /\ kind \in IrqKinds
      /\ \/ t = <<Cpu(t), "task">> /\ u = <<Cpu(t), "irq">>
         \/ t = <<Cpu(t), "irq">> /\ u = <<Cpu(t), "task">>
  BY <1>2, <1>3, Threaded
<1>6. Apart(Cpu(t))
  BY Zenon, <1>4, <1>5 DEF LockInv, InterruptsOff
<1>7. QED
  BY Zenon, <1>2, <1>5, <1>6 DEF Apart, Outside

\* A step keeps task and handler of every CPU apart.
LEMMA StayApart ==
    ASSUME LockInv, NEW t \in Contenders(kind), NEW l, Moves(t, l)
    PROVE  InterruptsOff'
<1>0. LockTypeOK /\ kind' = kind
  BY Zenon DEF LockInv, Moves
<1>1. /\ LockTypeOK' /\ local'[t] = l /\ \A u \in Contenders(kind) : u # t => local'[u] = local[u]
  BY Zenon, <1>0, Others
<1> SUFFICES ASSUME kind \in IrqKinds, NEW c \in LockCpus PROVE Apart(c)'
  BY Zenon, <1>0 DEF InterruptsOff
<1> DEFINE task == <<c, "task">>
           irq == <<c, "irq">>
<1>2. /\ task \in Contenders(kind) /\ irq \in Contenders(kind) /\ task # irq
      /\ Cpu(task) = c /\ Cpu(irq) = c
  BY Zenon, BothThere
<1>3. Apart(c)
  BY Zenon DEF LockInv, InterruptsOff
<1>4. shared.enabled \in [LockCpus -> BOOLEAN] /\ shared'.enabled \in [LockCpus -> BOOLEAN]
  BY Zenon, <1>0, <1>1, Words DEF LockTypeOK
<1>5. Inside(t, l) \/ Calls(t, l) \/ Interrupts(t, l) \/ Saves(t, l) \/ Restores(t, l) \/ Returns(t, l)
  BY Zenon DEF Moves, IrqShape
<1>6. CASE Cpu(t) # c
  <2>1. local'[task] = local[task] /\ local'[irq] = local[irq]
    BY Zenon, <1>1, <1>2, <1>6
  <2>2. Cpu(t) \in LockCpus
    BY Zenon, Threaded
  <2>3. shared'.enabled[c] = shared.enabled[c]
    BY Zenon, <1>4, <1>5, <1>6, <2>2 DEF Inside, Calls, Interrupts, Saves, Restores, Returns, Turned
  <2>4. QED
    BY Zenon, <1>3, <2>1, <2>3 DEF Apart
<1>7. CASE t = task
  <2>1. local'[task] = l /\ local'[irq] = local[irq] /\ t \in Tasks /\ t \notin Handlers /\ Cpu(t) = c
    BY Zenon, <1>1, <1>2, <1>7, Threaded DEF Tasks, Handlers
  <2>2. Running(t) => local[irq].pc = "idle"
    BY Zenon, <2>1 DEF Running
  <2>3. local[t].pc # "iret"
    BY Zenon, <1>3, <1>7 DEF Apart
  <2>4. CASE Inside(t, l)
    BY Zenon, <1>3, <1>7, <2>1, <2>2, <2>4 DEF Inside, Apart, Outside
  <2>5. CASE Calls(t, l)
    BY Zenon, <1>3, <1>7, <2>1, <2>2, <2>5 DEF Calls, Apart, Outside
  <2>6. CASE Saves(t, l)
    BY Zenon, <1>3, <1>4, <1>7, <2>1, <2>2, <2>6 DEF Saves, Turned, Apart, Outside
  <2>7. CASE Restores(t, l)
    BY Zenon, <1>3, <1>4, <1>7, <2>1, <2>2, <2>7 DEF Restores, Turned, Apart, Outside
  <2>8. QED
    BY Zenon, <1>5, <2>1, <2>3, <2>4, <2>5, <2>6, <2>7 DEF Interrupts, Returns
<1>8. CASE t = irq
  <2>1. local'[irq] = l /\ local'[task] = local[task] /\ t \notin Tasks /\ t \in Handlers /\ Cpu(t) = c
    BY Zenon, <1>1, <1>2, <1>8, Threaded DEF Tasks, Handlers
  <2>2. CASE Inside(t, l)
    BY Zenon, <1>3, <1>8, <2>1, <2>2 DEF Inside, Apart, Outside
  <2>3. CASE Interrupts(t, l)
    BY Zenon, <1>3, <1>4, <1>8, <2>1, <2>3 DEF Interrupts, Turned, Apart, Outside
  <2>4. CASE Saves(t, l)
    BY Zenon, <1>3, <1>4, <1>8, <2>1, <2>4 DEF Saves, Turned, Apart, Outside
  <2>5. CASE Restores(t, l)
    <3>1. ~shared.enabled[c] /\ local[t].seen = 0 /\ local[task].pc \in Outside
      BY Zenon, <1>3, <1>8, <2>5 DEF Restores, Apart, Outside
    <3>2. ~shared'.enabled[c]
      BY SMTT(30), <1>4, <2>1, <2>5, <3>1 DEF Restores, Turned
    <3>3. l.pc = "iret" /\ l.seen = 0
      BY Zenon, <2>1, <2>5, <3>1 DEF Restores
    <3>4. QED
      BY Zenon, <1>3, <2>1, <3>1, <3>2, <3>3 DEF Apart, Outside
  <2>6. CASE Returns(t, l)
    <3>1. l.pc = "idle" /\ local[task].pc \in Outside
      BY Zenon, <1>3, <1>8, <2>6 DEF Returns, Apart
    <3>2. QED
      BY Zenon, <1>3, <2>1, <3>1 DEF Apart, Outside
  <2>7. QED
    BY Zenon, <1>5, <2>1, <2>2, <2>3, <2>4, <2>5, <2>6 DEF Calls
<1>9. QED
  <2>1. Cpu(t) = c => t = task \/ t = irq
    BY Zenon, Threaded
  <2>2. QED
    BY Zenon, <1>6, <1>7, <1>8, <2>1

\* However many CPUs contend for a Mutex, an IrqSpinLock or an IrqMutex and
\* wherever interrupts strike, it has one holder and no call panics because its
\* own CPU is the owner (sync/spinlock.rs:50, 179, mutex.rs:48, 243).
THEOREM OneHolderAtMost == LockSpec => []LockExclusive
<1>1. LockInit => LockInv
  <2> SUFFICES ASSUME LockInit PROVE LockInv
    BY Zenon
  <2>1. Idle(kind) \in Local /\ Idle(kind).pc = "idle"
    BY LockCallsAssumption DEF LockInit, Idle, Local, CallNames, Places
  <2>2. kind \in LockKinds /\ local = [t \in Contenders(kind) |-> Idle(kind)]
    BY Zenon DEF LockInit
  <2>3. shared \in Word /\ shared.locked = FALSE /\ shared.owner = NoOwner
    BY Zenon DEF LockInit, Word
  <2>4. \A t \in Contenders(kind) : local[t] \in Local /\ local[t].pc = "idle"
    BY Zenon, <2>1, <2>2
  <2>5. LockTypeOK
    BY Zenon, <2>1, <2>2, <2>3 DEF LockTypeOK
  <2>6. Holders = {} /\ \A t \in DOMAIN local : local[t].pc # "panic"
    BY Zenon, <2>2, <2>4 DEF Holders
  <2>7. LockExclusive /\ OwnerHolds
    BY Zenon, <2>3, <2>6 DEF LockExclusive, OwnerHolds
  <2>8. InterruptsOff
    <3> SUFFICES ASSUME kind \in IrqKinds, NEW c \in LockCpus PROVE Apart(c)
      BY Zenon DEF InterruptsOff
    <3>1. local[<<c, "task">>].pc = "idle" /\ local[<<c, "irq">>].pc = "idle"
      BY Zenon, <2>4, BothThere
    <3>2. QED
      BY Zenon, <3>1 DEF Apart, Outside
  <2>9. QED
    BY Zenon, <2>5, <2>7, <2>8 DEF LockInv
<1>2. LockInv /\ [LockNext]_protocol => LockInv'
  <2> SUFFICES ASSUME LockInv, [LockNext]_protocol PROVE LockInv'
    BY Zenon
  <2>1. CASE LockNext
    <3>1. PICK t \in Contenders(kind) : LockEnter(t) \/ LockStep(t)
      BY Zenon, <2>1 DEF LockNext
    <3>2. PICK l \in Local : Moves(t, l)
      BY Zenon, <3>1, Shapes DEF LockInv
    <3>3. LockTypeOK' /\ DOMAIN local = Contenders(kind) /\ DOMAIN local' = Contenders(kind)
      BY Zenon, <3>2, Others DEF LockInv
    <3>4. \A u \in DOMAIN local' : local'[u].pc # "panic"
      <4>1. l.pc # "panic"
        BY Zenon, <3>2, NobodyPanics
      <4>2. local'[t] = l /\ \A u \in Contenders(kind) : u # t => local'[u] = local[u]
        BY Zenon, <3>2, Others DEF LockInv
      <4>3. QED
        BY Zenon, <3>3, <4>1, <4>2 DEF LockInv, LockExclusive
    <3>5. LockExclusive' /\ OwnerHolds'
      BY Zenon, <3>2, <3>4, OneHolder DEF LockExclusive
    <3>6. InterruptsOff'
      BY Zenon, <3>2, StayApart
    <3>7. QED
      BY Zenon, <3>3, <3>5, <3>6 DEF LockInv
  <2>2. CASE UNCHANGED protocol
    BY <2>2 DEF LockInv, LockTypeOK, LockExclusive, OwnerHolds, InterruptsOff, Apart, Holders, Contenders, protocol
  <2>3. QED
    BY Zenon, <2>1, <2>2
<1>3. LockInv => LockExclusive
  BY Zenon DEF LockInv
<1>4. QED
  BY <1>1, <1>2, <1>3, PTL DEF LockSpec

-----------------------------------------------------------------------------
(* The reader-writer lock, for any number of threads and any limit on      *)
(* readers.  The steps of a reader are several: the proof carries what it  *)
(* has checked (a count below the limit) to the compare-and-exchange, and  *)
(* the word beside the guards it stands for.                               *)

RwWord == [state : Int, waiting : Int]
RwCallNames == {"none", "read", "try_read", "write", "try_write"}
RwPlaces == {"idle", "load", "check", "cas", "reading", "panic",
             "announce", "acquire", "acquired", "writing", "probe", "try_cas"}
RwLocal == [call : RwCallNames, pc : RwPlaces, seen : Int, calls : Int]

RwTypeOK == kind = "rwlock" /\ shared \in RwWord /\ local \in [Users -> RwLocal]

\* A reader tries only from a count that leaves room for one more.
BelowLimit == \A t \in Users : local[t].pc = "cas" => local[t].seen < MaxReaders

RwInv == RwTypeOK /\ RwExclusive /\ BelowLimit

(***************************************************************************)
(* What a step of thread t, which leaves it at l, is to the guards.        *)
(***************************************************************************)
WritersPlaces == {"acquired", "writing"}
GuardPlaces == {"reading", "acquired", "writing"}

RwQuiet(t, l) ==
    /\ local[t].pc \notin GuardPlaces /\ l.pc \notin GuardPlaces /\ shared'.state = shared.state
    /\ l.pc = "cas" => l.seen < MaxReaders
ReaderEnters(t, l) ==
    /\ local[t].pc = "cas" /\ l.pc = "reading"
    /\ shared.state = local[t].seen /\ shared'.state = shared.state + 1
ReaderLeaves(t, l) == local[t].pc = "reading" /\ l.pc = "idle" /\ shared'.state = shared.state - 1
WriterEnters(t, l) == l.pc \in WritersPlaces /\ shared.state = UNLOCKED /\ shared'.state = Writer
WriterStays(t, l) == local[t].pc = "acquired" /\ l.pc = "writing" /\ shared'.state = shared.state
WriterLeaves(t, l) == local[t].pc = "writing" /\ l.pc = "idle" /\ shared'.state = UNLOCKED

Shape(t, l) ==
    \/ RwQuiet(t, l) \/ ReaderEnters(t, l) \/ ReaderLeaves(t, l)
    \/ WriterEnters(t, l) \/ WriterStays(t, l) \/ WriterLeaves(t, l)
RwMoves(t, l) == l \in RwLocal /\ shared' \in RwWord /\ kind' = kind /\ local' = [local EXCEPT ![t] = l] /\ Shape(t, l)

\* The record of a thread with one part changed.
LEMMA RwPcChanged ==
    ASSUME NEW l \in RwLocal, NEW pc \in RwPlaces
    PROVE  [l EXCEPT !.pc = pc] \in RwLocal /\ [l EXCEPT !.pc = pc].pc = pc /\ [l EXCEPT !.pc = pc].seen = l.seen
BY Zenon DEF RwLocal
LEMMA RwCallChanged ==
    ASSUME NEW l \in RwLocal, NEW c \in RwCallNames
    PROVE  [l EXCEPT !.call = c] \in RwLocal /\ [l EXCEPT !.call = c].pc = l.pc
BY Zenon DEF RwLocal
LEMMA RwSeenChanged ==
    ASSUME NEW l \in RwLocal, NEW n \in Int
    PROVE  [l EXCEPT !.seen = n] \in RwLocal /\ [l EXCEPT !.seen = n].pc = l.pc
BY Zenon DEF RwLocal
LEMMA RwCallsChanged ==
    ASSUME NEW l \in RwLocal, NEW n \in Int
    PROVE  [l EXCEPT !.calls = n] \in RwLocal /\ [l EXCEPT !.calls = n].pc = l.pc
BY Zenon DEF RwLocal

\* The record of a thread that returns, that calls, that loads the word.
LEMMA RwReturned ==
    ASSUME NEW l \in RwLocal
    PROVE  Done(l) \in RwLocal /\ Done(l).pc = "idle"
<1> DEFINE a == [l EXCEPT !.call = "none"]
           b == [a EXCEPT !.pc = "idle"]
           c == [b EXCEPT !.seen = 0]
<1>0. "none" \in RwCallNames /\ "idle" \in RwPlaces
  BY Zenon DEF RwCallNames, RwPlaces
<1>1. a \in RwLocal
  BY Zenon, <1>0, RwCallChanged
<1>2. c = Done(l)
  BY Zenon DEF Done
<1> HIDE DEF a
<1>3. b \in RwLocal /\ b.pc = "idle"
  BY Zenon, <1>0, <1>1, RwPcChanged
<1> HIDE DEF b
<1>4. c \in RwLocal /\ c.pc = "idle"
  BY SMTT(30), <1>3, RwSeenChanged
<1>5. QED
  BY Zenon, <1>2, <1>4

\* Where a call takes the record of a thread.
RwCalledAt(l, call, pc) == [l EXCEPT !.call = call, !.pc = pc, !.calls = @ - 1]
LEMMA RwCalled ==
    ASSUME NEW l \in RwLocal, NEW call \in RwCallNames, NEW pc \in RwPlaces
    PROVE  RwCalledAt(l, call, pc) \in RwLocal /\ RwCalledAt(l, call, pc).pc = pc
<1> DEFINE n == l.calls - 1
           a == [l EXCEPT !.call = call]
           b == [a EXCEPT !.pc = pc]
           c == [b EXCEPT !.calls = n]
<1>1. a \in RwLocal /\ n \in Int
  BY RwCallChanged DEF RwLocal
<1>2. c = RwCalledAt(l, call, pc)
  BY Zenon DEF RwLocal, RwCalledAt
<1> HIDE DEF a, n
<1>3. b \in RwLocal /\ b.pc = pc
  BY Zenon, <1>1, RwPcChanged
<1> HIDE DEF b
<1>4. c \in RwLocal /\ c.pc = pc
  BY Zenon, <1>1, <1>3, RwCallsChanged
<1>5. QED
  BY Zenon, <1>2, <1>4

\* Where a load of n takes it.
LoadedAt(l, pc, n) == [l EXCEPT !.pc = pc, !.seen = n]
LEMMA Loaded ==
    ASSUME NEW l \in RwLocal, NEW pc \in RwPlaces, NEW n \in Int
    PROVE  LoadedAt(l, pc, n) \in RwLocal /\ LoadedAt(l, pc, n).pc = pc
BY Zenon DEF RwLocal, LoadedAt

\* The word, with one of its parts changed.
LEMMA RwWords ==
    ASSUME NEW w \in RwWord, NEW n \in Int
    PROVE  /\ [w EXCEPT !.state = n] \in RwWord /\ [w EXCEPT !.state = n].state = n
           /\ [w EXCEPT !.waiting = n] \in RwWord /\ [w EXCEPT !.waiting = n].state = w.state
BY Zenon DEF RwWord

\* Every action is one of the six.
LEMMA RwShapes ==
    ASSUME RwTypeOK, NEW t \in Users, RwEnter(t) \/ RwStep(t)
    PROVE  \E l \in RwLocal : RwMoves(t, l)
<1> DEFINE me == local[t]
<1>0. me \in RwLocal /\ shared \in RwWord /\ kind = "rwlock"
  BY Zenon DEF RwTypeOK
<1>1. shared.state \in Int /\ shared.waiting \in Int /\ Writer \in Int /\ me.seen \in Int
  BY <1>0, WriterAssumption DEF RwWord, RwLocal
<1> HIDE DEF me
\* The two ways in which a step changes the word.
<1>2. \A n \in Int : /\ [shared EXCEPT !.state = n] \in RwWord /\ [shared EXCEPT !.state = n].state = n
                     /\ [shared EXCEPT !.waiting = n] \in RwWord /\ [shared EXCEPT !.waiting = n].state = shared.state
  BY Zenon, <1>0, RwWords
\* Where a step leaves the thread.
<1>3. Done(me) \in RwLocal /\ Done(me).pc = "idle"
  BY Zenon, <1>0, RwReturned
<1>4. \A pc \in RwPlaces : Goto(me, pc) \in RwLocal /\ Goto(me, pc).pc = pc /\ Goto(me, pc).seen = me.seen
  BY Zenon, <1>0, RwPcChanged DEF Goto
<1>5. ReadAgain(me) \in RwLocal /\ ReadAgain(me).pc \in {"idle", "load"}
  BY Zenon, <1>3, <1>4 DEF ReadAgain, RwPlaces
<1>6. ASSUME NEW l \in RwLocal, Step("rwlock", t, shared, l), me.pc \notin GuardPlaces, l.pc \notin GuardPlaces,
             l.pc # "cas"
      PROVE  RwMoves(t, l)
  BY Zenon, <1>0, <1>6 DEF RwMoves, Shape, RwQuiet, Step, me
<1>7. CASE RwEnter(t)
  <2>1. PICK call \in RwCallNames, pc \in {"load", "announce", "probe"} : Enter("rwlock", t, call, pc)
    BY Zenon, <1>7 DEF RwEnter, RwCallNames
  <2> DEFINE l == RwCalledAt(me, call, pc)
  <2>2. pc \in RwPlaces
    BY Zenon DEF RwPlaces
  <2>3. l \in RwLocal /\ l.pc = pc
    BY Zenon, <1>0, <2>2, RwCalled
  <2>4. Step("rwlock", t, shared, l) /\ me.pc = "idle"
    BY Zenon, <2>1 DEF Enter, At, me, RwCalledAt
  <2> HIDE DEF l
  <2>5. RwMoves(t, l)
    BY Zenon, <1>6, <2>1, <2>3, <2>4 DEF GuardPlaces
  <2>6. QED
    BY Zenon, <2>3, <2>5
<1>8. CASE ReadLoad(t)
  <2> DEFINE l == LoadedAt(me, "check", shared.state)
  <2>0. "check" \in RwPlaces
    BY Zenon DEF RwPlaces
  <2>1. l \in RwLocal /\ l.pc = "check"
    BY Zenon, <1>0, <1>1, <2>0, Loaded
  <2>2. Step("rwlock", t, shared, l) /\ me.pc = "load"
    BY Zenon, <1>8 DEF ReadLoad, At, me, LoadedAt
  <2> HIDE DEF l
  <2>3. RwMoves(t, l)
    BY Zenon, <1>6, <2>1, <2>2 DEF GuardPlaces
  <2>4. QED
    BY Zenon, <2>1, <2>3
<1>9. CASE ReadCheck(t)
  <2>1. me.pc = "check"
    BY Zenon, <1>9 DEF ReadCheck, At, me
  <2>2. CASE Step("rwlock", t, shared, ReadAgain(me))
    <3>1. RwMoves(t, ReadAgain(me))
      BY Zenon, <1>5, <1>6, <2>1, <2>2 DEF GuardPlaces
    <3>2. QED
      BY Zenon, <1>5, <3>1
  <2>3. CASE me.seen < MaxReaders /\ Step("rwlock", t, shared, Goto(me, "cas"))
    <3>1. Goto(me, "cas") \in RwLocal /\ Goto(me, "cas").pc = "cas" /\ Goto(me, "cas").seen = me.seen
      BY Zenon, <1>4 DEF RwPlaces
    <3>2. RwMoves(t, Goto(me, "cas"))
      BY Zenon, <1>0, <2>1, <2>3, <3>1 DEF RwMoves, Shape, RwQuiet, GuardPlaces, Step, me
    <3>3. QED
      BY Zenon, <3>1, <3>2
  <2>4. CASE Step("rwlock", t, shared, Done(me))
    <3>1. RwMoves(t, Done(me))
      BY Zenon, <1>3, <1>6, <2>1, <2>4 DEF GuardPlaces
    <3>2. QED
      BY Zenon, <1>3, <3>1
  <2>5. CASE Step("rwlock", t, shared, Goto(me, "panic"))
    <3>1. Goto(me, "panic") \in RwLocal /\ Goto(me, "panic").pc = "panic"
      BY Zenon, <1>4 DEF RwPlaces
    <3>2. RwMoves(t, Goto(me, "panic"))
      BY Zenon, <1>6, <2>1, <2>5, <3>1 DEF GuardPlaces
    <3>3. QED
      BY Zenon, <3>1, <3>2
  <2>6. QED
    BY Zenon, <1>9, <2>2, <2>3, <2>4, <2>5 DEF ReadCheck, me
<1>10. CASE ReadCas(t)
  <2>1. me.pc = "cas"
    BY Zenon, <1>10 DEF ReadCas, At, me
  <2>2. CASE shared.state = me.seen
    <3> DEFINE n == shared.state + 1
    <3>1. Step("rwlock", t, [shared EXCEPT !.state = n], Goto(me, "reading"))
      BY Zenon, <1>10, <2>2 DEF ReadCas, me
    <3>2. n \in Int /\ n = shared.state + 1
      BY <1>1
    <3> HIDE DEF n
    <3>3. Goto(me, "reading") \in RwLocal /\ Goto(me, "reading").pc = "reading"
      BY Zenon, <1>4 DEF RwPlaces
    <3>4. RwMoves(t, Goto(me, "reading"))
      BY Zenon, <1>2, <2>1, <2>2, <3>1, <3>2, <3>3 DEF RwMoves, Shape, ReaderEnters, Step, me
    <3>5. QED
      BY Zenon, <3>3, <3>4
  <2>3. CASE shared.state # me.seen
    <3>1. RwMoves(t, ReadAgain(me))
      BY Zenon, <1>5, <1>6, <1>10, <2>1, <2>3 DEF ReadCas, GuardPlaces, me
    <3>2. QED
      BY Zenon, <1>5, <3>1
  <2>4. QED
    BY Zenon, <2>2, <2>3
<1>11. CASE ReadDrop(t)
  <2> DEFINE n == shared.state - 1
  <2>1. me.pc = "reading" /\ Step("rwlock", t, [shared EXCEPT !.state = n], Done(me))
    BY Zenon, <1>11 DEF ReadDrop, At, me
  <2>2. n \in Int /\ n = shared.state - 1
    BY <1>1
  <2> HIDE DEF n
  <2>3. RwMoves(t, Done(me))
    BY Zenon, <1>2, <1>3, <2>1, <2>2 DEF RwMoves, Shape, ReaderLeaves, Step, me
  <2>4. QED
    BY Zenon, <1>3, <2>3
<1>12. CASE WriteAnnounce(t)
  <2> DEFINE n == shared.waiting + 1
  <2>1. me.pc = "announce" /\ Step("rwlock", t, [shared EXCEPT !.waiting = n], Goto(me, "acquire"))
    BY Zenon, <1>12 DEF WriteAnnounce, At, me
  <2>2. n \in Int /\ Goto(me, "acquire") \in RwLocal /\ Goto(me, "acquire").pc = "acquire"
    BY <1>1, <1>4 DEF RwPlaces
  <2> HIDE DEF n
  <2>3. RwMoves(t, Goto(me, "acquire"))
    BY Zenon, <1>2, <2>1, <2>2 DEF RwMoves, Shape, RwQuiet, GuardPlaces, Step, me
  <2>4. QED
    BY Zenon, <2>2, <2>3
<1>13. CASE WriteCas(t)
  <2>1. shared.state = UNLOCKED /\ Step("rwlock", t, [shared EXCEPT !.state = Writer], Goto(me, "acquired"))
    BY Zenon, <1>13 DEF WriteCas, me
  <2>2. Goto(me, "acquired") \in RwLocal /\ Goto(me, "acquired").pc = "acquired"
    BY Zenon, <1>4 DEF RwPlaces
  <2>3. RwMoves(t, Goto(me, "acquired"))
    BY Zenon, <1>1, <1>2, <2>1, <2>2 DEF RwMoves, Shape, WriterEnters, WritersPlaces, Step
  <2>4. QED
    BY Zenon, <2>2, <2>3
<1>14. CASE WriteSettle(t)
  <2> DEFINE n == shared.waiting - 1
  <2>1. me.pc = "acquired" /\ Step("rwlock", t, [shared EXCEPT !.waiting = n], Goto(me, "writing"))
    BY Zenon, <1>14 DEF WriteSettle, At, me
  <2>2. n \in Int /\ Goto(me, "writing") \in RwLocal /\ Goto(me, "writing").pc = "writing"
    BY <1>1, <1>4 DEF RwPlaces
  <2> HIDE DEF n
  <2>3. RwMoves(t, Goto(me, "writing"))
    BY Zenon, <1>2, <2>1, <2>2 DEF RwMoves, Shape, WriterStays, Step, me
  <2>4. QED
    BY Zenon, <2>2, <2>3
<1>15. CASE WriteDrop(t)
  <2>1. me.pc = "writing" /\ Step("rwlock", t, [shared EXCEPT !.state = UNLOCKED], Done(me))
    BY Zenon, <1>15 DEF WriteDrop, At, me
  <2>2. UNLOCKED \in Int
    BY DEF UNLOCKED
  <2>3. RwMoves(t, Done(me))
    BY Zenon, <1>2, <1>3, <2>1, <2>2 DEF RwMoves, Shape, WriterLeaves, Step, me
  <2>4. QED
    BY Zenon, <1>3, <2>3
<1>16. CASE TryWrite(t)
  <2>1. me.pc = "probe" /\ (Step("rwlock", t, shared, Done(me)) \/ Step("rwlock", t, shared, Goto(me, "try_cas")))
    BY Zenon, <1>16 DEF TryWrite, At, me
  <2>2. Goto(me, "try_cas") \in RwLocal /\ Goto(me, "try_cas").pc = "try_cas"
    BY Zenon, <1>4 DEF RwPlaces
  <2>3. RwMoves(t, Done(me)) \/ RwMoves(t, Goto(me, "try_cas"))
    BY Zenon, <1>3, <1>6, <2>1, <2>2 DEF GuardPlaces
  <2>4. QED
    BY Zenon, <1>3, <2>2, <2>3
<1>17. CASE TryWriteCas(t)
  <2>1. me.pc = "try_cas"
    BY Zenon, <1>17 DEF TryWriteCas, At, me
  <2>2. CASE shared.state = UNLOCKED
    <3>1. Step("rwlock", t, [shared EXCEPT !.state = Writer], Goto(me, "writing"))
      BY Zenon, <1>17, <2>2 DEF TryWriteCas, me
    <3>2. Goto(me, "writing") \in RwLocal /\ Goto(me, "writing").pc = "writing"
      BY Zenon, <1>4 DEF RwPlaces
    <3>3. RwMoves(t, Goto(me, "writing"))
      BY Zenon, <1>1, <1>2, <2>2, <3>1, <3>2 DEF RwMoves, Shape, WriterEnters, WritersPlaces, Step
    <3>4. QED
      BY Zenon, <3>2, <3>3
  <2>3. CASE shared.state # UNLOCKED
    <3>1. RwMoves(t, Done(me))
      BY Zenon, <1>3, <1>6, <1>17, <2>1, <2>3 DEF TryWriteCas, GuardPlaces, me
    <3>2. QED
      BY Zenon, <1>3, <3>1
  <2>4. QED
    BY Zenon, <2>2, <2>3
<1>18. QED
  BY Zenon, <1>7, <1>8, <1>9, <1>10, <1>11, <1>12, <1>13, <1>14, <1>15, <1>16, <1>17 DEF RwStep

(***************************************************************************)
(* The guards, and that every shape of step keeps the invariant.           *)
(***************************************************************************)
\* Who has a guard after thread t has moved.
LEMMA GuardsAfter ==
    ASSUME RwTypeOK, NEW t \in Users, NEW l, RwMoves(t, l)
    PROVE  /\ RwTypeOK'
           /\ local'[t] = l /\ \A u \in Users \ {t} : local'[u] = local[u]
           /\ Readers' = IF l.pc = "reading" THEN Readers \cup {t} ELSE Readers \ {t}
           /\ Writers' = IF l.pc \in WritersPlaces THEN Writers \cup {t} ELSE Writers \ {t}
<1>1. local'[t] = l /\ (\A u \in Users \ {t} : local'[u] = local[u]) /\ local' \in [Users -> RwLocal]
  BY Zenon DEF RwTypeOK, RwMoves
<1>2. RwTypeOK'
  BY Zenon, <1>1 DEF RwTypeOK, RwMoves
<1>3. Readers' = IF l.pc = "reading" THEN Readers \cup {t} ELSE Readers \ {t}
  BY Zenon, <1>1 DEF Readers
<1>4. Writers' = IF l.pc \in WritersPlaces THEN Writers \cup {t} ELSE Writers \ {t}
  BY Zenon, <1>1 DEF Writers, WritersPlaces
<1>5. QED
  BY Zenon, <1>1, <1>2, <1>3, <1>4

\* The sets of guards are finite.
LEMMA GuardsFinite ==
    /\ IsFiniteSet(Readers) /\ Cardinality(Readers) \in Nat /\ (Cardinality(Readers) = 0 <=> Readers = {})
    /\ IsFiniteSet(Writers) /\ Cardinality(Writers) \in Nat /\ (Cardinality(Writers) = 0 <=> Writers = {})
<1>1. Readers \subseteq Users /\ Writers \subseteq Users
  BY Zenon DEF Readers, Writers
<1>2. IsFiniteSet(Readers) /\ IsFiniteSet(Writers)
  BY Zenon, <1>1, WriterAssumption, FS_Subset
<1>3. QED
  BY Zenon, <1>2, FS_CardinalityType, FS_EmptySet

\* Every step keeps exclusion: a reader enters below the limit, so that no
\* writer has the word, and a writer enters when the word counts nobody.
LEMMA MovesExclusive ==
    ASSUME RwInv, NEW t \in Users, NEW l, RwMoves(t, l)
    PROVE  RwExclusive'
<1>0. RwTypeOK /\ RwExclusive /\ BelowLimit /\ Writer \in Nat \ {0} /\ shared.state \in Int
  BY Zenon, WriterAssumption DEF RwInv, RwTypeOK, RwWord
<1>a. /\ Readers' = IF l.pc = "reading" THEN Readers \cup {t} ELSE Readers \ {t}
      /\ Writers' = IF l.pc \in WritersPlaces THEN Writers \cup {t} ELSE Writers \ {t}
  BY Zenon, <1>0, GuardsAfter
<1>1. CASE RwQuiet(t, l)
  <2>1. t \notin Readers /\ t \notin Writers /\ Readers' = Readers /\ Writers' = Writers
    BY Zenon, <1>1, <1>a DEF RwQuiet, Readers, Writers, GuardPlaces, WritersPlaces
  <2>2. QED
    BY Zenon, <1>0, <1>1, <2>1 DEF RwQuiet, RwExclusive
<1>2. CASE ReaderEnters(t, l)
  <2>1. shared.state < MaxReaders /\ t \notin Readers /\ shared'.state = shared.state + 1
    BY Zenon, <1>0, <1>2 DEF ReaderEnters, BelowLimit, Readers
  <2>2. Writers = {} /\ shared.state = Cardinality(Readers)
    BY <1>0, <2>1 DEF RwExclusive, MaxReaders
  <2>3. Readers' = Readers \cup {t} /\ Writers' = {}
    BY Zenon, <1>2, <1>a, <2>2 DEF ReaderEnters, WritersPlaces
  <2>4. Cardinality(Readers') = Cardinality(Readers) + 1
    BY Zenon, <2>1, <2>3, GuardsFinite, FS_AddElement
  <2>5. QED
    BY SMTT(30), <1>0, <2>1, <2>2, <2>3, <2>4 DEF RwExclusive, MaxReaders
<1>3. CASE ReaderLeaves(t, l)
  <2>1. t \in Readers /\ Writers = {} /\ shared.state = Cardinality(Readers) /\ shared.state < Writer
    BY Zenon, <1>0, <1>3 DEF ReaderLeaves, Readers, RwExclusive
  <2>2. Readers' = Readers \ {t} /\ Writers' = {} /\ shared'.state = shared.state - 1
    BY Zenon, <1>3, <1>a, <2>1 DEF ReaderLeaves, WritersPlaces
  <2>3. Cardinality(Readers') = Cardinality(Readers) - 1
    BY Zenon, <2>1, <2>2, GuardsFinite, FS_RemoveElement
  <2>4. QED
    BY <1>0, <2>1, <2>2, <2>3 DEF RwExclusive
<1>4. CASE WriterEnters(t, l)
  <2>1. Writers = {} /\ Readers = {}
    BY Zenon, <1>0, <1>4, GuardsFinite DEF WriterEnters, RwExclusive, UNLOCKED
  <2>2. Writers' = {t} /\ Readers' = {} /\ shared'.state = Writer
    BY Zenon, <1>4, <1>a, <2>1 DEF WriterEnters, WritersPlaces
  <2>3. QED
    BY Zenon, <2>2, FS_Singleton DEF RwExclusive
<1>5. CASE WriterStays(t, l)
  <2>1. t \in Writers /\ t \notin Readers
    BY Zenon, <1>5 DEF WriterStays, Writers, Readers
  <2>2. Writers' = Writers /\ Readers' = Readers /\ shared'.state = shared.state
    BY Zenon, <1>5, <1>a, <2>1 DEF WriterStays, WritersPlaces
  <2>3. QED
    BY Zenon, <1>0, <2>2 DEF RwExclusive
<1>6. CASE WriterLeaves(t, l)
  <2>1. t \in Writers /\ Readers = {} /\ Cardinality(Writers) = 1
    BY Zenon, <1>0, <1>6 DEF WriterLeaves, Writers, RwExclusive
  <2>2. Writers' = Writers \ {t} /\ Readers' = {} /\ shared'.state = 0
    BY Zenon, <1>6, <1>a, <2>1 DEF WriterLeaves, WritersPlaces, UNLOCKED
  <2>3. IsFiniteSet(Writers \ {t}) /\ Cardinality(Writers \ {t}) = Cardinality(Writers) - 1
    BY Zenon, <2>1, GuardsFinite, FS_RemoveElement
  <2>4. Writers \ {t} = {}
    BY <2>1, <2>3, FS_EmptySet
  <2>5. QED
    BY SMTT(30), <1>0, <2>2, <2>4, FS_EmptySet DEF RwExclusive
<1>7. QED
  BY Zenon, <1>1, <1>2, <1>3, <1>4, <1>5, <1>6 DEF RwMoves, Shape

\* A thread comes to the compare-and-exchange only from the check of its count.
LEMMA MovesBelowLimit ==
    ASSUME RwInv, NEW t \in Users, NEW l, RwMoves(t, l)
    PROVE  BelowLimit'
<1>1. local'[t] = l /\ \A u \in Users \ {t} : local'[u] = local[u]
  BY Zenon, GuardsAfter DEF RwInv
<1>2. l.pc = "cas" => l.seen < MaxReaders
  BY Zenon DEF RwMoves, Shape, RwQuiet, ReaderEnters, ReaderLeaves, WriterEnters, WriterStays, WriterLeaves, WritersPlaces
<1>3. QED
  BY Zenon, <1>1, <1>2 DEF RwInv, BelowLimit, MaxReaders

\* Whatever readers and writers do, by read, try_read, write and try_write of
\* any number of threads, a writer's guard excludes every other and the word is
\* the count of the guards (sync/rwlock.rs:47, 98).
THEOREM ReadersExcludeWriters == RwSpec => []RwExclusive
<1>1. RwInit => RwInv
  <2> SUFFICES ASSUME RwInit PROVE RwInv
    BY Zenon
  <2>1. Idle("rwlock") \in RwLocal /\ Idle("rwlock").pc = "idle"
    BY RwCallsAssumption DEF Idle, RwLocal, RwCallNames, RwPlaces
  <2>2. RwTypeOK
    BY <2>1 DEF RwInit, RwTypeOK, RwWord, UNLOCKED
  <2>3. \A t \in Users : local[t].pc = "idle"
    BY Zenon, <2>1 DEF RwInit
  <2>4. Readers = {} /\ Writers = {} /\ BelowLimit
    BY Zenon, <2>3 DEF Readers, Writers, BelowLimit
  <2>5. RwExclusive
    BY SMTT(30), <2>4, FS_EmptySet, WriterAssumption DEF RwInit, RwExclusive, UNLOCKED
  <2>6. QED
    BY Zenon, <2>2, <2>4, <2>5 DEF RwInv
<1>2. RwInv /\ [RwNext]_protocol => RwInv'
  <2> SUFFICES ASSUME RwInv, [RwNext]_protocol PROVE RwInv'
    BY Zenon
  <2>1. CASE RwNext
    <3>1. PICK t \in Users : RwEnter(t) \/ RwStep(t)
      BY Zenon, <2>1 DEF RwNext
    <3>2. PICK l \in RwLocal : RwMoves(t, l)
      BY Zenon, <3>1, RwShapes DEF RwInv
    <3>3. QED
      BY Zenon, <3>2, GuardsAfter, MovesExclusive, MovesBelowLimit DEF RwInv
  <2>2. CASE UNCHANGED protocol
    BY Zenon, <2>2 DEF protocol, RwInv, RwTypeOK, RwExclusive, BelowLimit, Readers, Writers
  <2>3. QED
    BY Zenon, <2>1, <2>2
<1>3. RwInv => RwExclusive
  BY Zenon DEF RwInv
<1>4. QED
  BY <1>1, <1>2, <1>3, PTL DEF RwSpec
=============================================================================
