---------------------------- MODULE ProcessSteps -----------------------------
(***************************************************************************)
(* Every kind of step preserves the parts of the invariant about the       *)
(* process table, the families, the stdin wait queue and what the          *)
(* processes are doing.                                                    *)
(***************************************************************************)
EXTENDS ProcessKinds

-----------------------------------------------------------------------------
(* Every kind of step preserves the invariant. *)

LEMMA LifeStep == ProcInv /\ ProcStep => LifeInv'
<1> SUFFICES ASSUME ProcInv, ProcStep PROVE LifeInv'
  BY Zenon
<1>0. SchedulerInv /\ TableTypes /\ WaitersInv /\ LifeInv /\ ActInv /\ FamilyConsistent
  BY Zenon DEF ProcInv
<1>1. ASSUME NEW p \in Tasks \cup {NoTask}, NEW q \in Tasks, NEW private \in BOOLEAN,
             BirthStep(p, q, private)
      PROVE  LifeInv'
  <2>1. /\ status'[q] = "Ready" /\ pstat'[q] = "Running"
        /\ \A t \in Tasks \ {q} : status'[t] = status[t] /\ pstat'[t] = pstat[t]
    BY ZenonT(60), <1>0, <1>1, BirthFacts
  <2>. QED BY Zenon, <1>0, <2>1 DEF LifeInv
<1>2. ASSUME NEW T \in SUBSET Tasks, NEW s \in {"Zombie", "Stopped", "Running"}, MarkStep(T, s)
      PROVE  LifeInv'
  <2>1. /\ \A t \in T : /\ pstat'[t] = s /\ InTable(t)
                        /\ status[t] # "Unborn" /\ status'[t] # "Unborn"
                        /\ status[t] = "Exited" \/ s = "Zombie" => status'[t] = "Exited"
                        /\ status'[t] = "Blocked" => s = "Stopped"
        /\ \A t \in Tasks \ T : status'[t] = status[t] /\ pstat'[t] = pstat[t]
    BY <1>0, <1>2, MarkFacts
  <2>2. ASSUME NEW t \in Tasks
        PROVE  /\ pstat'[t] = "Unborn" <=> status'[t] = "Unborn"
               /\ pstat'[t] \in {"Zombie", "Reaped"} => status'[t] = "Exited"
    <3>1. CASE t \in T
      BY Zenon, <2>1, <3>1
    <3>2. CASE t \notin T
      BY Zenon, <1>0, <2>1, <3>2 DEF LifeInv
    <3>. QED BY Zenon, <3>1, <3>2
  <2>. QED BY Zenon, <2>2 DEF LifeInv
<1>3. ASSUME NEW p \in Tasks, NEW q \in Tasks, ReapStep(p, q) PROVE LifeInv'
  <2>1. /\ status' = status /\ status[q] = "Exited" /\ pstat'[q] = "Reaped"
        /\ \A t \in Tasks \ {q} : pstat'[t] = pstat[t]
    BY ZenonT(60), <1>0, <1>3, ReapFacts
  <2>. QED BY Zenon, <1>0, <2>1 DEF LifeInv
<1>4. ASSUME NEW p \in Tasks, OrphanStep(p) PROVE LifeInv'
  <2>1. /\ status'[p] = "Exited" /\ pstat'[p] = "Reaped"
        /\ \A t \in Tasks \ {p} : status'[t] = status[t] /\ pstat'[t] = pstat[t]
    BY Zenon, <1>0, <1>4, OrphanFacts
  <2>. QED BY Zenon, <1>0, <2>1 DEF LifeInv
<1>5. CASE QuietStep
  BY Zenon, <1>0, <1>5, PollingFacts DEF QuietStep, LifeInv
<1>6. CASE KernelStep
  BY Zenon, <1>0, <1>6, ContinueStatus DEF KernelStep, procVars, LifeInv
<1>. QED BY Zenon, <1>1, <1>2, <1>3, <1>4, <1>5, <1>6 DEF ProcStep

LEMMA GoneStep == ProcInv /\ ProcStep => GoneInv'
<1> SUFFICES ASSUME ProcInv, ProcStep, NEW t \in Tasks, pstat'[t] = "Reaped"
             PROVE  ~Queued(t)' \/ (Removing' /\ t \in todo'[Bsp])
  BY Zenon DEF GoneInv
<1> USE DEF ProcInv
<1>1. ASSUME pc[Bsp] = "run", pstat[t] = "Reaped" PROVE ~Queued(t) /\ status[t] = "Exited"
  BY Zenon, <1>1 DEF GoneInv, Removing, LifeInv
<1>2. ASSUME NEW p \in Tasks \cup {NoTask}, NEW q \in Tasks, NEW private \in BOOLEAN,
             BirthStep(p, q, private)
      PROVE  ~Queued(t)'
  BY Zenon, <1>1, <1>2, BirthFacts
<1>3. ASSUME UNCHANGED queue, ~Queued(t) PROVE ~Queued(t)'
  BY Zenon, <1>3, QueuedIn, QueuedInNext
<1>4. ASSUME NEW T \in SUBSET Tasks, NEW s \in {"Zombie", "Stopped", "Running"}, MarkStep(T, s)
      PROVE  ~Queued(t)'
  <2>1. t \notin T
    BY <1>4, MarkFacts
  <2>. QED BY Zenon, <1>1, <1>3, <1>4, <2>1, MarkFacts
<1>5. ASSUME NEW p \in Tasks, NEW q \in Tasks, ReapStep(p, q)
      PROVE  ~Queued(t)' \/ (Removing' /\ t \in todo'[Bsp])
  BY <1>1, <1>3, <1>5, ReapFacts DEF Removing
<1>6. ASSUME NEW p \in Tasks, OrphanStep(p)
      PROVE  ~Queued(t)' \/ (Removing' /\ t \in todo'[Bsp])
  BY Zenon, <1>1, <1>3, <1>6, OrphanFacts DEF Removing
<1>7. ASSUME QuietStep
      PROVE  ~Queued(t)' \/ (Removing' /\ t \in todo'[Bsp])
  <2>1. pstat[t] = "Reaped" /\ status[t] = "Exited"
    BY Zenon, <1>7 DEF QuietStep, LifeInv
  <2>2. CASE pc[Bsp] = "run"
    BY Zenon, <1>1, <1>7, <2>1, <2>2, PollingFacts DEF QuietStep
  <2>3. CASE UNCHANGED <<queue, pc, todo>>
    BY Zenon, <1>3, <2>1, <2>3 DEF GoneInv, Removing
  <2>. QED BY Zenon, <1>7, <2>2, <2>3, PollingFacts DEF QuietStep
<1>8. ASSUME KernelStep
      PROVE  ~Queued(t)' \/ (Removing' /\ t \in todo'[Bsp])
  <2>1. pstat[t] = "Reaped" /\ status[t] = "Exited"
    BY Zenon, <1>8 DEF KernelStep, procVars, LifeInv
  <2>. QED BY Zenon, <1>8, <2>1, ContinueQueue DEF KernelStep, GoneInv
<1>. QED BY Zenon, <1>2, <1>4, <1>5, <1>6, <1>7, <1>8 DEF ProcStep

\* The parts of the invariant about the families.
LEMMA FamilyStep == ProcInv /\ ProcStep => FamilyConsistent' /\ BirthInv'
<1> SUFFICES ASSUME ProcInv, ProcStep PROVE FamilyConsistent' /\ BirthInv'
  BY Zenon
<1> USE DEF ProcInv
<1>1. ASSUME UNCHANGED <<parent, children, mm>>,
             \A t \in Tasks : InTable(t)' <=> InTable(t),
             \A t \in Tasks : pstat'[t] = "Unborn" <=> pstat[t] = "Unborn"
      PROVE  FamilyConsistent' /\ BirthInv'
  <2>1. FamilyConsistent'
    BY Zenon, <1>1 DEF FamilyConsistent
  <2>2. BirthInv'
    BY Zenon, <1>1 DEF BirthInv
  <2>. QED BY Zenon, <2>1, <2>2
<1>2. ASSUME NEW p \in Tasks \cup {NoTask}, NEW q \in Tasks, NEW private \in BOOLEAN,
             BirthStep(p, q, private)
      PROVE  FamilyConsistent' /\ BirthInv'
  <2>1. /\ p # q /\ (p \in Tasks => InTable(p))
        /\ pstat[q] = "Unborn" /\ pstat'[q] = "Running"
        /\ \A t \in Tasks \ {q} : pstat'[t] = pstat[t]
    BY <1>2, BirthFacts
  <2>2. InTable(q)' /\ ~InTable(q) /\ \A t \in Tasks \ {q} : InTable(t)' <=> InTable(t)
    BY Zenon, <2>1 DEF InTable
  <2>3. parent'[q] = p /\ \A t \in Tasks \ {q} : parent'[t] = parent[t]
    BY Zenon, <1>2 DEF BirthStep, SpawnProcess, TableTypes
  <2>4. \A t \in Tasks : children'[t] = IF t = p THEN children[t] \cup {q} ELSE children[t]
    BY Zenon, <1>2, <2>1, NoTaskAssumption DEF BirthStep, SpawnProcess, TableTypes
  <2>5. \A t \in Tasks \ {q} : mm'[t] = mm[t]
    BY Zenon, <1>2 DEF BirthStep, SpawnProcess, ChildMm, TableTypes
  <2>6. mm'[q] \in Tasks => mm'[q] = q \/ (p \in Tasks /\ mm'[q] = mm[p])
    BY Zenon, <1>2, NoTaskAssumption DEF BirthStep, SpawnProcess, ChildMm, TableTypes, InitMm
  <2>7. children[q] = {}
    BY Zenon, <2>1 DEF BirthInv
  <2>8. \A r \in Tasks : InTable(r) => parent[r] # q
    BY Zenon, <2>1 DEF BirthInv
  <2>9. FamilyConsistent'
    <3> SUFFICES ASSUME NEW t \in Tasks, InTable(t)'
                 PROVE  children'[t] = {r \in Tasks : InTable(r)' /\ parent'[r] = t}
      BY Zenon DEF FamilyConsistent
    <3>1. CASE t = q
      <4>1. children'[t] = {}
        BY Zenon, <2>1, <2>4, <2>7, <3>1
      <4>2. \A r \in Tasks : ~(InTable(r)' /\ parent'[r] = t)
        BY Zenon, <2>1, <2>2, <2>3, <2>8, <3>1
      <4>. QED BY Zenon, <4>1, <4>2
    <3>2. CASE t # q
      <4>1. children[t] = {r \in Tasks : InTable(r) /\ parent[r] = t}
        BY Zenon, <2>2, <3>2 DEF FamilyConsistent
      <4>2. \A r \in Tasks : InTable(r)' /\ parent'[r] = t
                               <=> (InTable(r) /\ parent[r] = t) \/ (r = q /\ t = p)
        BY Zenon, <2>2, <2>3, <3>2
      <4>. QED BY ZenonT(60), <2>4, <4>1, <4>2
    <3>. QED BY Zenon, <3>1, <3>2
  <2>10. BirthInv'
    <3>1. \A t \in Tasks : pstat'[t] = "Unborn" => pstat[t] = "Unborn" /\ t # q /\ t # p
      BY Zenon, <2>1 DEF InTable
    <3>2. \A t \in Tasks : pstat'[t] = "Unborn" => children'[t] = {}
      BY Zenon, <2>4, <3>1 DEF BirthInv
    <3>3. \A t \in Tasks : InTable(t)' /\ parent'[t] \in Tasks => pstat'[parent'[t]] # "Unborn"
      BY <2>1, <2>2, <2>3, <3>1 DEF BirthInv
    <3>4. \A t \in Tasks : InTable(t)' /\ mm'[t] \in Tasks => pstat'[mm'[t]] # "Unborn"
      BY <2>1, <2>2, <2>5, <2>6, <3>1 DEF BirthInv
    <3>. QED BY Zenon, <3>2, <3>3, <3>4 DEF BirthInv
  <2>. QED BY Zenon, <2>9, <2>10
<1>3. ASSUME NEW T \in SUBSET Tasks, NEW s \in {"Zombie", "Stopped", "Running"}, MarkStep(T, s)
      PROVE  FamilyConsistent' /\ BirthInv'
  <2>1. /\ \A t \in Tasks : InTable(t)' <=> InTable(t)
        /\ \A t \in Tasks : pstat'[t] = "Unborn" <=> pstat[t] = "Unborn"
    BY ZenonT(60), <1>3, MarkFacts DEF InTable
  <2>. QED BY Zenon, <1>1, <1>3, <2>1 DEF MarkStep, mmVars
<1>4. ASSUME NEW p \in Tasks, NEW q \in Tasks, ReapStep(p, q) PROVE FamilyConsistent' /\ BirthInv'
  <2>1. /\ p # q /\ InTable(p) /\ InTable(q) /\ parent[q] = p
        /\ pstat'[q] = "Reaped" /\ \A t \in Tasks \ {q} : pstat'[t] = pstat[t]
    BY <1>4, ReapFacts
  <2>2. ~InTable(q)' /\ \A t \in Tasks \ {q} : InTable(t)' <=> InTable(t)
    BY Zenon, <2>1 DEF InTable
  <2>3. \A t \in Tasks : children'[t] = IF t = p THEN children[t] \ {q} ELSE children[t]
    BY Zenon, <1>4 DEF ReapStep, TableTypes
  <2>4. UNCHANGED <<parent, mm>>
    BY Zenon, <1>4 DEF ReapStep
  <2>5. FamilyConsistent'
    <3> SUFFICES ASSUME NEW t \in Tasks, InTable(t)'
                 PROVE  children'[t] = {r \in Tasks : InTable(r)' /\ parent'[r] = t}
      BY Zenon DEF FamilyConsistent
    <3>1. children[t] = {r \in Tasks : InTable(r) /\ parent[r] = t}
      BY Zenon, <2>2 DEF FamilyConsistent
    <3>2. \A r \in Tasks : InTable(r)' /\ parent'[r] = t <=> InTable(r) /\ parent[r] = t /\ r # q
      BY Zenon, <2>2, <2>4
    <3>3. t # p => q \notin children[t]
      BY Zenon, <2>1, <3>1
    <3>. QED BY Zenon, <2>3, <3>1, <3>2, <3>3
  <2>6. BirthInv'
    BY SMTT(30), <2>1, <2>2, <2>3, <2>4 DEF BirthInv, InTable
  <2>. QED BY Zenon, <2>5, <2>6
<1>5. ASSUME NEW p \in Tasks, OrphanStep(p) PROVE FamilyConsistent' /\ BirthInv'
  <2>1. /\ InTable(p) /\ parent[p] = NoTask
        /\ pstat'[p] = "Reaped" /\ \A t \in Tasks \ {p} : pstat'[t] = pstat[t]
    BY Zenon, <1>5, OrphanFacts
  <2>2. ~InTable(p)' /\ \A t \in Tasks \ {p} : InTable(t)' <=> InTable(t)
    BY Zenon, <2>1 DEF InTable
  <2>3. UNCHANGED <<parent, children, mm>>
    BY Zenon, <1>5 DEF OrphanStep
  <2>4. FamilyConsistent'
    BY Zenon, <2>1, <2>2, <2>3, NoTaskAssumption DEF FamilyConsistent
  <2>5. BirthInv'
    BY Zenon, <2>1, <2>2, <2>3 DEF BirthInv, InTable
  <2>. QED BY Zenon, <2>4, <2>5
<1>6. CASE QuietStep \/ KernelStep
  <2>1. UNCHANGED <<pstat, parent, children, mm>>
    BY Zenon, <1>6 DEF QuietStep, KernelStep, procVars, mmVars
  <2>. QED BY Zenon, <1>1, <2>1 DEF InTable
<1>. QED BY Zenon, <1>2, <1>3, <1>4, <1>5, <1>6 DEF ProcStep

\* The stdin wait queue.
LEMMA WaitersStep == ProcInv /\ ProcStep => WaitersInv' /\ NoLostReader'
<1> SUFFICES ASSUME ProcInv, ProcStep PROVE WaitersInv' /\ NoLostReader'
  BY Zenon
<1> USE DEF ProcInv
<1>0. /\ waiters \in Seq(Tasks) /\ Distinct(waiters)
      /\ \A t : IsWaiter(t) <=> In(waiters, t)
      /\ \A t : IsWaiter(t)' <=> In(waiters', t)
  BY Zenon DEF WaitersInv, IsWaiter, In
<1>1. ASSUME UNCHANGED waiters,
             \A t \in Tasks : status'[t] = "Blocked" /\ pstat'[t] = "Running"
                                => status[t] = "Blocked" /\ pstat[t] = "Running"
      PROVE  WaitersInv' /\ NoLostReader'
  BY Zenon, <1>0, <1>1 DEF WaitersInv, NoLostReader
<1>2. ASSUME NEW p \in Tasks \cup {NoTask}, NEW q \in Tasks, NEW private \in BOOLEAN,
             BirthStep(p, q, private)
      PROVE  WaitersInv' /\ NoLostReader'
  BY Zenon, <1>1, <1>2, BirthFacts
<1>3. ASSUME NEW T \in SUBSET Tasks, NEW s \in {"Zombie", "Stopped", "Running"}, MarkStep(T, s)
      PROVE  WaitersInv' /\ NoLostReader'
  <2>1. \A t \in T : ~(status'[t] = "Blocked" /\ pstat'[t] = "Running")
    BY <1>3, MarkFacts
  <2>. QED BY ZenonT(60), <1>1, <1>3, <2>1, MarkFacts DEF MarkStep
<1>4. ASSUME NEW p \in Tasks, NEW q \in Tasks, ReapStep(p, q) PROVE WaitersInv' /\ NoLostReader'
  BY Zenon, <1>1, <1>4, ReapFacts
<1>5. ASSUME NEW p \in Tasks, OrphanStep(p) PROVE WaitersInv' /\ NoLostReader'
  BY Zenon, <1>1, <1>5, OrphanFacts
<1>6. CASE KernelStep
  BY Zenon, <1>1, <1>6, ContinueStatus DEF KernelStep, procVars, ioVars
<1>7. CASE QuietStep
  <2>1. UNCHANGED pstat
    BY Zenon, <1>7 DEF QuietStep
  <2>2. CASE UNCHANGED <<vars, waiters>> \/ (Yield(Bsp) /\ UNCHANGED waiters)
    BY Zenon, <1>1, <2>1, <2>2 DEF vars, Yield
  <2>3. ASSUME NEW p \in Tasks, Runs(p), UNCHANGED vars, waiters' = Without(waiters, p)
        PROVE  WaitersInv' /\ NoLostReader'
    <3>1. WaitersInv' /\ \A t : In(waiters', t) <=> In(waiters, t) /\ t # p
      BY Zenon, <1>0, <2>3, WithoutTask DEF WaitersInv
    <3>2. status[p] = "Running"
      BY Zenon, <2>3, RunnerRuns DEF Runs
    <3>. QED BY Zenon, <1>0, <2>1, <2>3, <3>1, <3>2 DEF NoLostReader, vars
  <2>4. ASSUME NEW p \in Tasks, Runs(p), BlockCurrent(Bsp), waiters' = Enqueued(p)
        PROVE  WaitersInv' /\ NoLostReader'
    <3>1. WaitersInv' /\ \A t : In(waiters', t) <=> In(waiters, t) \/ t = p
      BY Zenon, <1>0, <2>4, PushBack DEF WaitersInv, Enqueued
    <3>2. \A t \in Tasks \ {p} : status'[t] = status[t]
      BY Zenon, <2>4, OneCpu DEF BlockCurrent, Runs, SchedulerInv, QueueInv, TypeOK
    <3>. QED BY Zenon, <1>0, <2>1, <3>1, <3>2 DEF NoLostReader
  <2>5. ASSUME waiters # <<>>, waiters' = Tail(waiters),
               IF Wakeable(Head(waiters)) THEN Wake(Bsp, Head(waiters)) ELSE UNCHANGED vars
        PROVE  WaitersInv' /\ NoLostReader'
    <3>1. Len(waiters) > 0 /\ Head(waiters) = waiters[1]
      BY <1>0, <2>5
    <3>2. PICK w \in Tasks : w = Head(waiters)
      BY Zenon, <1>0, <3>1, PopFront
    <3>3. WaitersInv' /\ \A t : In(waiters', t) <=> In(waiters, t) /\ t # w
      BY Zenon, <1>0, <2>5, <3>1, <3>2, PopFront DEF WaitersInv
    <3>4. CASE Wake(Bsp, w)
      <4>1. status'[w] = "Ready" /\ \A t \in Tasks \ {w} : status'[t] = status[t]
        BY Zenon, <3>4 DEF Wake, EnqueueOnCpu, Schedulable, SchedulerInv, QueueInv, TypeOK
      <4>. QED BY Zenon, <1>0, <2>1, <3>3, <4>1 DEF NoLostReader
    <3>5. CASE ~Wakeable(w) /\ UNCHANGED vars
      <4>1. ~(status[w] = "Blocked" /\ pstat[w] = "Running")
        BY Zenon, <3>5 DEF Wakeable, InTable
      <4>. QED BY Zenon, <1>0, <2>1, <3>3, <3>5, <4>1 DEF NoLostReader, vars
    <3>. QED BY Zenon, <2>5, <3>2, <3>4, <3>5
  <2>. QED BY Zenon, <1>7, <2>2, <2>3, <2>4, <2>5 DEF QuietStep, Polling
<1>. QED BY Zenon, <1>2, <1>3, <1>4, <1>5, <1>6, <1>7 DEF ProcStep

-----------------------------------------------------------------------------
(* What the processes' own code is doing. *)

LEMMA ActTypes ==
    /\ \A x \in {"user", "stdin", "supervise", "finish", "abort"} :
          [op |-> x] \in Acts /\ [op |-> x].op = x
    /\ \A req \in WaitReqs : [op |-> "wait", req |-> req] \in Acts
    /\ \A req : [op |-> "wait", req |-> req].op = "wait"
    /\ \A q \in Tasks : [op |-> "vfork", child |-> q] \in Acts
    /\ \A q : [op |-> "vfork", child |-> q].op = "vfork"
    /\ \A a \in Acts : a.op = "wait" => a.req \in WaitReqs
BY Zenon DEF Acts

\* A step changes what the running process is doing, which becomes the supervisor's
\* work only for a process without parent, or starts a supervisor.
ActStep ==
    /\ act' \in [Tasks -> Acts]
    /\ \A r \in Tasks :
        \/ act'[r] = act[r]
        \/ Runs(r) /\ (act'[r].op \notin SupervisorOps \/ parent[r] = NoTask)
        \/ pstat'[r] = "Running" /\ parent'[r] = NoTask

LEMMA ActOfRunner ==
    ASSUME act \in [Tasks -> Acts], NEW p \in Tasks, Runs(p), NEW a \in Acts,
           a.op \notin SupervisorOps \/ parent[p] = NoTask, act' = [act EXCEPT ![p] = a]
    PROVE  ActStep
BY Zenon DEF ActStep

LEMMA ActWait ==
    ASSUME act \in [Tasks -> Acts], NEW p \in Tasks, NEW req \in WaitReqs, Runs(p), Wait4(p, req)
    PROVE  ActStep
<1>1. ASSUME NEW x \in {"finish", "abort"}, WaitReturn(p, x) PROVE ActStep
  <2> DEFINE y == IF parent[p] = NoTask THEN x ELSE "user"
             a == [op |-> y]
  <2>1. y \in {"user", "finish", "abort"} /\ (y \in SupervisorOps => parent[p] = NoTask)
    BY Zenon DEF SupervisorOps
  <2>2. act' = [act EXCEPT ![p] = a]
    BY Zenon, <1>1 DEF WaitReturn
  <2> HIDE DEF y
  <2>3. a \in Acts /\ a.op = y
    BY Zenon, <2>1, ActTypes
  <2> HIDE DEF a
  <2>. QED BY Zenon, <2>1, <2>2, <2>3, ActOfRunner
<1>2. CASE WaitBlock(p, req)
  <2> DEFINE a == [op |-> "wait", req |-> req]
  <2>1. act' = [act EXCEPT ![p] = a]
    BY Zenon, <1>2 DEF WaitBlock
  <2>2. a \in Acts /\ a.op = "wait"
    BY Zenon, ActTypes
  <2> HIDE DEF a
  <2>. QED BY Zenon, <2>1, <2>2, ActOfRunner DEF SupervisorOps
<1>. QED BY Zenon, <1>1, <1>2 DEF Wait4, WaitReap, WaitConsume, WaitNoChild

LEMMA ActPlain ==
    ASSUME act \in [Tasks -> Acts], NEW p \in Tasks, Runs(p), NEW x \in {"user", "stdin"},
           act' = [act EXCEPT ![p] = [op |-> x]]
    PROVE  ActStep
<1> DEFINE a == [op |-> x]
<1>1. a \in Acts /\ a.op = x
  BY Zenon, ActTypes
<1>2. act' = [act EXCEPT ![p] = a]
  BY Zenon
<1> HIDE DEF a
<1>. QED BY Zenon, <1>1, <1>2, ActOfRunner DEF SupervisorOps

LEMMA ActStdin ==
    ASSUME act \in [Tasks -> Acts], NEW p \in Tasks, ReadStdin(p) \/ BlockOnStdin(p)
    PROVE  ActStep
<1>1. Runs(p)
  BY Zenon DEF ReadStdin, BlockOnStdin, Doing, Runs
<1>. QED BY Zenon, <1>1, ActPlain DEF ReadStdin, BlockOnStdin, Return

LEMMA ActSteps == ProcInv /\ ProcNext => ActStep
<1> SUFFICES ASSUME ProcInv, ProcNext PROVE ActStep
  BY Zenon
<1>0. act \in [Tasks -> Acts] /\ ActInv
  BY Zenon DEF ProcInv, OtherTypes
<1>1. ASSUME UNCHANGED act PROVE ActStep
  BY Zenon, <1>0, <1>1 DEF ActStep
<1>2. ASSUME NEW p \in Tasks, SystemCall(p) PROVE ActStep
  <2>1. Runs(p)
    BY Zenon, <1>2 DEF SystemCall, Doing, Runs
  <2>2. ASSUME NEW q \in Tasks, Vfork(p, q) PROVE ActStep
    <3> DEFINE a == [op |-> "vfork", child |-> q]
    <3>1. a \in Acts /\ a.op = "vfork" /\ act' = [act EXCEPT ![p] = a]
      BY Zenon, <2>2, ActTypes DEF Vfork
    <3> HIDE DEF a
    <3>. QED BY Zenon, <1>0, <2>1, <3>1, ActOfRunner DEF SupervisorOps
  <2>3. CASE ReadStdin(p) \/ BlockOnStdin(p)
    BY Zenon, <1>0, <2>3, ActStdin
  <2>4. ASSUME NEW req \in WaitReqs, Wait4(p, req) PROVE ActStep
    BY Zenon, <1>0, <2>1, <2>4, ActWait
  <2>. QED
    BY Zenon, <1>1, <1>2, <2>2, <2>3, <2>4
       DEF SystemCall, Fork, Exit, Kill, StopProcesses, ContProcesses, PollYield
<1>3. ASSUME NEW p \in Tasks, Loop(p) PROVE ActStep
  <2>1. CASE Doing(p, "wait") /\ Wait4(p, act[p].req)
    <3>1. act[p].req \in WaitReqs /\ Runs(p)
      BY Zenon, <1>0, <2>1, ActTypes DEF Doing, Runs
    <3>. QED BY Zenon, <1>0, <2>1, <3>1, ActWait
  <2>2. CASE VforkPoll(p)
    <3>1. Runs(p)
      BY Zenon, <2>2 DEF VforkPoll, Doing, Runs
    <3>. QED BY Zenon, <1>0, <1>1, <2>2, <3>1, ActPlain DEF VforkPoll, Return
  <2>. QED BY Zenon, <1>0, <1>3, <2>1, <2>2, ActStdin DEF Loop
<1>4. ASSUME NEW p \in Tasks, Supervisor(p) PROVE ActStep
  <2>1. ASSUME NEW q \in Tasks, Supervise(p, q) PROVE ActStep
    <3> DEFINE r == [of |-> {q}, opts |-> {}]
               a == [op |-> "wait", req |-> r]
    <3>1. r \in WaitReqs
      BY Zenon DEF WaitReqs
    <3>2. act' = [act EXCEPT ![p] = a] /\ Runs(p)
      BY Zenon, <2>1 DEF Supervise, Doing, Runs
    <3> HIDE DEF r
    <3>3. a \in Acts /\ a.op = "wait"
      BY Zenon, <3>1, ActTypes
    <3> HIDE DEF a
    <3>. QED BY Zenon, <1>0, <3>2, <3>3, ActOfRunner DEF SupervisorOps
  <2>2. CASE SuperviseFails(p)
    <3> DEFINE a == [op |-> "abort"]
    <3>1. act' = [act EXCEPT ![p] = a] /\ Runs(p) /\ act[p].op = "supervise"
      BY Zenon, <2>2 DEF SuperviseFails, Doing, Runs
    <3>2. parent[p] = NoTask
      BY Zenon, <1>0, <3>1 DEF ActInv, SupervisorOps
    <3>3. a \in Acts
      BY Zenon, ActTypes
    <3> HIDE DEF a
    <3>. QED BY Zenon, <1>0, <3>1, <3>2, <3>3, ActOfRunner
  <2>. QED BY Zenon, <1>1, <1>4, <2>1, <2>2 DEF Supervisor, FinishSupervisor
<1>5. ASSUME NEW q \in Tasks, Launch(q) PROVE ActStep
  <2> DEFINE a == [op |-> "supervise"]
  <2>1. act' = [act EXCEPT ![q] = a] /\ SpawnProcess(NoTask, q, TRUE)
    BY Zenon, <1>5 DEF Launch
  <2>2. a \in Acts
    BY Zenon, ActTypes
  <2> HIDE DEF a
  <2>3. pstat'[q] = "Running" /\ parent'[q] = NoTask
    BY Zenon, <2>1 DEF SpawnProcess, ProcInv, TableTypes
  <2>. QED BY Zenon, <1>0, <2>1, <2>2, <2>3 DEF ActStep
<1>. QED
  BY Zenon, <1>1, <1>2, <1>3, <1>4, <1>5
     DEF ProcNext, BootContext, LaunchFails, ShellReads, IdlePoll, IdleSchedule, IdleCheck,
         InputArrives, KernelStep

LEMMA ActInvStep == ProcInv /\ ProcStep /\ ActStep => ActInv'
<1> SUFFICES ASSUME ProcInv, ProcStep, ActStep, NEW r \in Tasks
             PROVE  /\ pstat'[r] = "Unborn" => act'[r].op = "user"
                    /\ act'[r].op \in SupervisorOps => parent'[r] = NoTask
  BY Zenon DEF ActInv
<1> USE DEF ProcInv
<1>1. /\ pstat'[r] = "Unborn" => pstat[r] = "Unborn"
      /\ pstat[r] # "Unborn" => parent'[r] = parent[r]
  <2>1. ASSUME NEW p \in Tasks \cup {NoTask}, NEW q \in Tasks, NEW private \in BOOLEAN,
               BirthStep(p, q, private)
        PROVE  <1>1!:
    <3>1. \A t \in Tasks \ {q} : parent'[t] = parent[t]
      BY Zenon, <2>1 DEF BirthStep, SpawnProcess, TableTypes
    <3>. QED BY SMTT(30), <2>1, <3>1, BirthFacts
  <2>2. ASSUME NEW T \in SUBSET Tasks, NEW s \in {"Zombie", "Stopped", "Running"}, MarkStep(T, s)
        PROVE  <1>1!:
    BY Zenon, <2>2, MarkFacts DEF MarkStep
  <2>3. ASSUME NEW p \in Tasks, NEW q \in Tasks, ReapStep(p, q) PROVE <1>1!:
    BY <2>3, ReapFacts DEF ReapStep
  <2>4. ASSUME NEW p \in Tasks, OrphanStep(p) PROVE <1>1!:
    BY Zenon, <2>4, OrphanFacts DEF OrphanStep
  <2>5. CASE QuietStep \/ KernelStep
    BY Zenon, <2>5 DEF QuietStep, KernelStep, procVars
  <2>. QED BY ZenonT(60), <2>1, <2>2, <2>3, <2>4, <2>5 DEF ProcStep
<1>2. CASE act'[r] = act[r]
  BY Zenon, <1>1, <1>2 DEF ActInv, SupervisorOps
<1>3. CASE Runs(r) /\ (act'[r].op \notin SupervisorOps \/ parent[r] = NoTask)
  <2>1. pstat[r] # "Unborn"
    BY Zenon, <1>3, RunnerRuns DEF Runs, InTable
  <2>. QED BY Zenon, <1>1, <1>3, <2>1
<1>4. CASE pstat'[r] = "Running" /\ parent'[r] = NoTask
  BY Zenon, <1>4
<1>. QED BY Zenon, <1>2, <1>3, <1>4 DEF ActStep

\* The variables of the process table that only wait4 looks at.
LEMMA FlagTypes ==
    ASSUME OtherTypes, NEW T \in SUBSET Tasks, NEW code \in ExitCodes
    PROVE  /\ MarkZombie(T, code) => /\ exit_code' \in [Tasks -> ExitCodes]
                                     /\ stop_reported' \in [Tasks -> BOOLEAN]
                                     /\ cont_pending' \in [Tasks -> BOOLEAN]
           /\ [q \in Tasks |-> q \notin T /\ stop_reported[q]] \in [Tasks -> BOOLEAN]
           /\ [q \in Tasks |-> q \notin T /\ cont_pending[q]] \in [Tasks -> BOOLEAN]
           /\ [q \in Tasks |-> q \in T \/ cont_pending[q]] \in [Tasks -> BOOLEAN]
<1>1. stop_reported \in [Tasks -> BOOLEAN] /\ cont_pending \in [Tasks -> BOOLEAN]
      /\ exit_code \in [Tasks -> ExitCodes]
  BY Zenon DEF OtherTypes
<1>2. /\ [q \in Tasks |-> q \notin T /\ stop_reported[q]] \in [Tasks -> BOOLEAN]
      /\ [q \in Tasks |-> q \notin T /\ cont_pending[q]] \in [Tasks -> BOOLEAN]
      /\ [q \in Tasks |-> q \in T \/ cont_pending[q]] \in [Tasks -> BOOLEAN]
  BY <1>1, Zenon
<1>3. [q \in Tasks |-> IF q \in T THEN code ELSE exit_code[q]] \in [Tasks -> ExitCodes]
  BY Zenon, <1>1
<1>. QED BY Zenon, <1>2, <1>3 DEF MarkZombie

LEMMA OtherStep == ProcInv /\ ProcNext => OtherTypes'
<1> SUFFICES ASSUME ProcInv, ProcNext PROVE OtherTypes'
  BY Zenon
<1> DEFINE Flags == /\ exit_code' \in [Tasks -> ExitCodes]
                    /\ stop_reported' \in [Tasks -> BOOLEAN]
                    /\ cont_pending' \in [Tasks -> BOOLEAN]
           Io == input' \in 0 .. MaxInput
           Boot == /\ session' \in {"idle", "starting", "running", "completed", "failed"}
                   /\ shell' \in {"prompt", "launching", "attached"}
                   /\ idle_phase' \in {"poll", "schedule", "check"}
<1>0. OtherTypes
  BY Zenon DEF ProcInv
<1>1. ASSUME UNCHANGED <<exit_code, stop_reported, cont_pending>> PROVE Flags
  BY Zenon, <1>0, <1>1 DEF OtherTypes
<1>2. ASSUME UNCHANGED input PROVE Io
  BY Zenon, <1>0, <1>2 DEF OtherTypes
<1>3. ASSUME UNCHANGED bootVars PROVE Boot
  BY Zenon, <1>0, <1>3 DEF OtherTypes, bootVars
<1>4. "killed" \in ExitCodes /\ "ok" \in ExitCodes /\ Codes \subseteq ExitCodes
  BY Zenon DEF ExitCodes
<1> HIDE DEF Flags, Io, Boot
<1>5. ASSUME NEW p \in Tasks, ReadStdin(p) \/ BlockOnStdin(p) PROVE Flags /\ Io /\ Boot
  <2>1. Flags /\ Boot
    BY Zenon, <1>1, <1>3, <1>5 DEF ReadStdin, BlockOnStdin, procVars
  <2>2. Io
    BY SMTT(30), <1>0, <1>5, InputAssumption DEF ReadStdin, BlockOnStdin, OtherTypes, Io
  <2>. QED BY Zenon, <2>1, <2>2
<1>6. ASSUME NEW p \in Tasks, NEW req, Wait4(p, req) PROVE Flags /\ Io /\ Boot
  <2>1. Io /\ Boot
    BY Zenon, <1>2, <1>3, <1>6 DEF Wait4, WaitReap, WaitConsume, WaitNoChild, WaitBlock, ioVars
  <2>2. ASSUME NEW q \in Tasks, WaitConsume(p, req, q) PROVE Flags
    <3>1. /\ stop_reported' \in {stop_reported, [stop_reported EXCEPT ![q] = TRUE]}
          /\ cont_pending' \in {cont_pending, [cont_pending EXCEPT ![q] = FALSE]}
          /\ UNCHANGED exit_code
      BY Zenon, <2>2 DEF WaitConsume
    <3>. QED BY <1>0, <3>1, Zenon DEF Flags, OtherTypes
  <2>3. ASSUME NEW q \in Tasks, WaitReap(p, req, q) PROVE Flags
    BY Zenon, <1>1, <2>3 DEF WaitReap
  <2>4. CASE WaitNoChild(p, req) \/ WaitBlock(p, req)
    BY Zenon, <1>1, <2>1, <2>4 DEF WaitNoChild, WaitBlock, procVars
  <2>. QED BY Zenon, <1>6, <2>1, <2>2, <2>3, <2>4 DEF Wait4
<1>7. ASSUME NEW p \in Tasks \cup {NoTask}, NEW q, NEW private, SpawnProcess(p, q, private)
      PROVE  Flags /\ Io
  BY Zenon, <1>1, <1>2, <1>7 DEF SpawnProcess, ioVars
<1>8. ASSUME NEW p \in Tasks, SystemCall(p) PROVE Flags /\ Io /\ Boot
  <2>1. CASE \E q \in Tasks : Fork(p, q) \/ Vfork(p, q)
    BY Zenon, <1>3, <1>7, <2>1 DEF Fork, Vfork
  <2>2. ASSUME NEW code \in Codes, Exit(p, code) PROVE Flags /\ Io /\ Boot
    BY Zenon, <1>0, <1>2, <1>3, <1>4, <2>2, FlagTypes DEF Exit, Flags, ioVars
  <2>3. ASSUME NEW T \in KillTargets, Kill(p, T) PROVE Flags /\ Io /\ Boot
    BY Zenon, <1>0, <1>2, <1>3, <1>4, <2>3, FlagTypes DEF Kill, Flags, KillTargets, ioVars
  <2>4. ASSUME NEW T \in KillTargets, StopProcesses(p, T) \/ ContProcesses(p, T)
        PROVE  Flags /\ Io /\ Boot
    <3>1. T \in SUBSET Tasks /\ exit_code \in [Tasks -> ExitCodes]
      BY Zenon, <1>0 DEF KillTargets, OtherTypes
    <3>2. Flags
      BY Zenon, <1>0, <1>4, <2>4, <3>1, FlagTypes DEF StopProcesses, ContProcesses, Flags
    <3>. QED BY Zenon, <1>2, <1>3, <2>4, <3>2 DEF StopProcesses, ContProcesses, ioVars
  <2>5. CASE PollYield(p)
    BY Zenon, <1>1, <1>2, <1>3, <2>5 DEF PollYield, procVars, ioVars
  <2>. QED BY ZenonT(60), <1>5, <1>6, <1>8, <2>1, <2>2, <2>3, <2>4, <2>5 DEF SystemCall
<1>9. ASSUME NEW p \in Tasks, Loop(p) PROVE Flags /\ Io /\ Boot
  BY ZenonT(60), <1>1, <1>2, <1>3, <1>5, <1>6, <1>9 DEF Loop, VforkPoll, procVars, ioVars
<1>10. ASSUME NEW p \in Tasks, Supervisor(p) PROVE Flags /\ Io /\ Boot
  <2>1. CASE \E q \in Tasks : Supervise(p, q)
    BY Zenon, <1>0, <1>7, <2>1 DEF Supervise, Boot, OtherTypes
  <2>2. CASE SuperviseFails(p)
    BY Zenon, <1>1, <1>2, <1>3, <2>2 DEF SuperviseFails, procVars, ioVars
  <2>3. CASE FinishSupervisor(p)
    <3>1. Io /\ Boot
      BY Zenon, <1>0, <1>2, <2>3 DEF FinishSupervisor, SessionResult, Boot, OtherTypes, ioVars
    <3>2. exit_code' \in [Tasks -> ExitCodes]
      BY Zenon, <1>0, <1>4, <2>3 DEF FinishSupervisor, OtherTypes
    <3>3. stop_reported' \in [Tasks -> BOOLEAN] /\ cont_pending' \in [Tasks -> BOOLEAN]
      BY <1>0, <2>3, Zenon DEF FinishSupervisor, OtherTypes
    <3>. QED BY Zenon, <3>1, <3>2, <3>3 DEF Flags
  <2>. QED BY Zenon, <1>10, <2>1, <2>2, <2>3 DEF Supervisor
<1>11. ASSUME BootContext PROVE Flags /\ Io /\ Boot
  <2>1. CASE \E q \in Tasks : Launch(q)
    BY Zenon, <1>0, <1>7, <2>1 DEF Launch, Boot
  <2>2. CASE LaunchFails \/ IdlePoll \/ IdleSchedule \/ IdleCheck
    <3>1. Flags /\ Io
      BY Zenon, <1>1, <1>2, <2>2 DEF LaunchFails, IdlePoll, IdleSchedule, IdleCheck, procVars, ioVars
    <3>2. Boot
      BY Zenon, <1>0, <2>2 DEF LaunchFails, IdlePoll, IdleSchedule, IdleCheck, Boot, OtherTypes
    <3>. QED BY Zenon, <3>1, <3>2
  <2>3. CASE ShellReads
    <3>1. Flags /\ Boot
      BY Zenon, <1>1, <1>3, <2>3 DEF ShellReads, procVars
    <3>2. Io
      BY SMTT(30), <1>0, <2>3, InputAssumption DEF ShellReads, OtherTypes, Io
    <3>. QED BY Zenon, <3>1, <3>2
  <2>. QED BY Zenon, <1>11, <2>1, <2>2, <2>3 DEF BootContext
<1>12. ASSUME InputArrives PROVE Flags /\ Io /\ Boot
  <2>1. Flags /\ Boot
    BY Zenon, <1>1, <1>3, <1>12 DEF InputArrives, procVars
  <2>2. Io
    BY SMTT(30), <1>0, <1>12, InputAssumption DEF InputArrives, OtherTypes, Io
  <2>. QED BY Zenon, <2>1, <2>2
<1>13. ASSUME KernelStep PROVE Flags /\ Io /\ Boot
  BY Zenon, <1>1, <1>2, <1>3, <1>13 DEF KernelStep, procVars, ioVars
<1>14. Flags /\ Io /\ Boot
  BY Zenon, <1>8, <1>9, <1>10, <1>11, <1>12, <1>13 DEF ProcNext
<1>15. act' \in [Tasks -> Acts]
  BY Zenon, ActSteps DEF ActStep
<1>. QED BY Zenon, <1>14, <1>15 DEF Flags, Io, Boot, OtherTypes
=============================================================================
