---------------------------- MODULE ProcessProofs ----------------------------
(***************************************************************************)
(* Proofs about the process lifecycle, for any number of processes, any    *)
(* choice of system calls and any amount of input: the process table, the  *)
(* families, the address-space references and the stdin wait queue stay    *)
(* consistent, and the lifecycle is one use of the scheduler.              *)
(***************************************************************************)
EXTENDS ProcessSteps, FiniteSetTheorems

-----------------------------------------------------------------------------
(* The address spaces. *)

\* The processes of the table that use the address space m.
Users(m) == {p \in Tasks : InTable(p) /\ mm[p] = m}

LEMMA TasksFinite == \A S \in SUBSET Tasks : IsFiniteSet(S) /\ Cardinality(S) \in Nat
<1>1. IsFiniteSet(Tasks)
  BY SMTT(30), FS_Interval, TaskAssumption DEF Tasks
<1>. QED BY Zenon, <1>1, FS_Subset, FS_CardinalityType

LEMMA UsersCount ==
    ASSUME MmRefsExact, NEW m \in Tasks
    PROVE  /\ mm_count[m] = Cardinality(Users(m)) /\ mm_count[m] \in Nat
           /\ \A p \in Users(m) : mm_count[m] > 0
           /\ \A p, q \in Users(m) : p # q => mm_count[m] > 1
<1> DEFINE U == Users(m)
<1>1. mm_count[m] = Cardinality(U)
  BY Zenon DEF MmRefsExact, Users
<1>2. U \in SUBSET Tasks
  BY Zenon DEF Users
<1>3. IsFiniteSet(U) /\ Cardinality(U) \in Nat
  BY Zenon, <1>2, TasksFinite
<1> HIDE DEF U
<1>4. ASSUME NEW p \in U
      PROVE  Cardinality(U) > 0 /\ \A q \in U : p # q => Cardinality(U) > 1
  <2>1. IsFiniteSet(U \ {p}) /\ Cardinality(U \ {p}) = Cardinality(U) - 1 /\ Cardinality(U \ {p}) \in Nat
    BY Zenon, <1>3, FS_RemoveElement, FS_CardinalityType
  <2>2. ASSUME NEW q \in U, p # q PROVE Cardinality(U \ {p}) # 0
    BY SMTT(30), <2>1, <2>2, FS_EmptySet
  <2>. QED BY SMTT(30), <1>3, <2>1, <2>2
<1>. QED BY Zenon, <1>1, <1>3, <1>4 DEF U

\* mm_release for a process x that leaves the table.
LEMMA ReleaseStep ==
    ASSUME TableTypes, MmRefsExact, LoadInv, NEW x \in Tasks, InTable(x), ~InTable(x)',
           \A t \in Tasks \ {x} : InTable(t)' <=> InTable(t),
           UNCHANGED mm, MmRelease(mm[x])
    PROVE  /\ MmRefsExact' /\ mm_count' \in [Tasks -> Nat] /\ cr3' \in Mms
           /\ cr3' # InitMm => mm_count'[cr3'] > 0
           /\ \A y \in Tasks \ {x} : InTable(y) /\ cr3 = mm[y] => cr3' = cr3
<1>1. \A m \in Tasks : Users(m)' = IF m = mm[x] THEN Users(m) \ {x} ELSE Users(m)
  BY Zenon DEF Users, TableTypes
<1>2. CASE mm[x] = InitMm
  <2>1. UNCHANGED <<mm_count, cr3>>
    BY Zenon, <1>2 DEF MmRelease
  <2>2. \A m \in Tasks : Users(m)' = Users(m)
    BY Zenon, <1>1, <1>2, NoTaskAssumption DEF InitMm
  <2>3. MmRefsExact'
    BY Zenon, <2>1, <2>2 DEF MmRefsExact, Users
  <2>. QED BY Zenon, <2>1, <2>3 DEF TableTypes, LoadInv
<1>3. CASE mm[x] # InitMm
  <2>1. PICK m \in Tasks : m = mm[x]
    BY Zenon, <1>3 DEF TableTypes, Mms
  <2>2. /\ mm_count'[m] = mm_count[m] - 1
        /\ \A n \in Tasks \ {m} : mm_count'[n] = mm_count[n]
        /\ mm_count' = [mm_count EXCEPT ![m] = @ - 1]
        /\ cr3' = IF mm_count[m] <= 1 /\ cr3 = m THEN InitMm ELSE cr3
    BY Zenon, <1>3, <2>1 DEF MmRelease, TableTypes
  <2>3. x \in Users(m)
    BY Zenon, <2>1 DEF Users
  <2>4. mm_count[m] \in Nat /\ mm_count[m] > 0 /\ mm_count[m] = Cardinality(Users(m))
    BY Zenon, <2>3, UsersCount
  <2>5. mm_count' \in [Tasks -> Nat]
    BY SMTT(30), <2>2, <2>4 DEF TableTypes
  <2>6. MmRefsExact'
    <3> SUFFICES ASSUME NEW n \in Tasks PROVE mm_count'[n] = Cardinality(Users(n)')
      BY Zenon DEF MmRefsExact, Users
    <3>1. CASE n = m
      <4>1. IsFiniteSet(Users(m))
        BY Zenon, TasksFinite DEF Users
      <4>2. Cardinality(Users(m) \ {x}) = Cardinality(Users(m)) - 1
        BY Zenon, <2>3, <4>1, FS_RemoveElement
      <4>. QED BY ZenonT(60), <1>1, <2>1, <2>2, <2>4, <3>1, <4>2
    <3>2. CASE n # m
      BY ZenonT(60), <1>1, <2>1, <2>2, <3>2 DEF MmRefsExact, Users
    <3>. QED BY Zenon, <3>1, <3>2
  <2>7. cr3' \in Mms
    BY Zenon, <2>2 DEF TableTypes, Mms
  <2>8. cr3' # InitMm => mm_count'[cr3'] > 0
    <3>1. CASE cr3 = m
      BY SMTT(30), <2>2, <2>4, <3>1
    <3>2. CASE cr3 # m
      BY Zenon, <2>2, <3>2 DEF TableTypes, Mms, LoadInv
    <3>. QED BY Zenon, <3>1, <3>2
  <2>9. ASSUME NEW y \in Tasks \ {x}, InTable(y), cr3 = mm[y] PROVE cr3' = cr3
    <3>1. CASE cr3 = m
      <4>1. y \in Users(m)
        BY Zenon, <2>9, <3>1 DEF Users
      <4>2. mm_count[m] > 1
        BY ZenonT(60), <2>3, <2>9, <4>1, UsersCount
      <4>. QED BY SMTT(30), <2>2, <2>4, <4>2
    <3>. QED BY Zenon, <2>2, <3>1
  <2>. QED BY ZenonT(60), <2>5, <2>6, <2>7, <2>8, <2>9
<1>. QED BY Zenon, <1>2, <1>3

\* A step that changes neither the users of the address spaces nor what is loaded.
LEMMA LoadFrame ==
    ASSUME TableTypes, MmRefsExact, LoadInv, SchedulerInv, UNCHANGED <<mm, mm_count, cr3, cur>>,
           \A t \in Tasks : InTable(t)' <=> InTable(t),
           \A t \in Tasks : status[t] = "Exited" => status'[t] = "Exited",
           pc'[Bsp] # "switch" => pc[Bsp] # "switch"
    PROVE  MmRefsExact' /\ LoadInv'
<1>1. MmRefsExact'
  BY Zenon DEF MmRefsExact
<1>2. cur[Bsp] \in Tasks \cup {NoTask}
  BY Zenon, OneCpu DEF SchedulerInv, QueueInv, TypeOK
<1>3. TaskMm(cur[Bsp])' = TaskMm(cur[Bsp])
  BY Zenon, <1>2 DEF TaskMm
<1>4. LoadInv'
  BY Zenon, <1>2, <1>3 DEF LoadInv
<1>. QED BY Zenon, <1>1, <1>4

\* The parts of the invariant about the address spaces.
LEMMA MmStep == ProcInv /\ ProcStep => MmRefsExact' /\ LoadInv' /\ TableTypes'
<1> SUFFICES ASSUME ProcInv, ProcStep PROVE MmRefsExact' /\ LoadInv' /\ TableTypes'
  BY Zenon
<1> USE DEF ProcInv
<1>0. cur[Bsp] \in Tasks \cup {NoTask}
  BY Zenon, OneCpu DEF SchedulerInv, QueueInv, TypeOK
<1>1. ASSUME NEW p \in Tasks \cup {NoTask}, NEW q \in Tasks, NEW private \in BOOLEAN,
             BirthStep(p, q, private)
      PROVE  MmRefsExact' /\ LoadInv' /\ TableTypes'
  <2> DEFINE n == IF p = NoTask THEN InitMm ELSE mm[p]
  <2>1. /\ pc[Bsp] = "run" /\ UNCHANGED <<pc, cur>>
        /\ p # q /\ pstat[q] = "Unborn" /\ pstat'[q] = "Running"
        /\ \A t \in Tasks \ {q} : status'[t] = status[t] /\ pstat'[t] = pstat[t]
    BY ZenonT(60), <1>1, BirthFacts
  <2>2. InTable(q)' /\ ~InTable(q) /\ \A t \in Tasks \ {q} : InTable(t)' <=> InTable(t)
    BY Zenon, <2>1 DEF InTable
  <2>3. n \in Mms /\ cur[Bsp] = p
    BY Zenon, <1>1 DEF TableTypes, Mms, InitMm, BirthStep, Runs
  <2>4. /\ mm' = [mm EXCEPT ![q] = IF private THEN q ELSE n]
        /\ mm_count' = IF private THEN [mm_count EXCEPT ![q] = 1]
                       ELSE IF n = InitMm THEN mm_count
                       ELSE [mm_count EXCEPT ![n] = @ + 1]
        /\ cr3' = cr3
    BY Zenon, <1>1 DEF BirthStep, SpawnProcess, ChildMm
  <2> HIDE DEF n
  <2>5. /\ mm'[q] = IF private THEN q ELSE n
        /\ \A t \in Tasks \ {q} : mm'[t] = mm[t]
    BY Zenon, <2>4 DEF TableTypes
  <2>6. TableTypes'
    <3>1. pstat' \in [Tasks -> {"Unborn", "Running", "Stopped", "Zombie", "Reaped"}]
      BY Zenon, <1>1 DEF BirthStep, SpawnProcess, TableTypes
    <3>2. parent' \in [Tasks -> Tasks \cup {NoTask}]
      BY Zenon, <1>1 DEF BirthStep, SpawnProcess, TableTypes
    <3>3. children' \in [Tasks -> SUBSET Tasks]
      BY Zenon, <1>1, NoTaskAssumption DEF BirthStep, SpawnProcess, TableTypes
    <3>4. mm' \in [Tasks -> Mms]
      BY Zenon, <2>3, <2>4 DEF TableTypes, Mms
    <3>5. mm_count' \in [Tasks -> Nat]
      BY SMTT(30), <2>3, <2>4 DEF TableTypes, Mms
    <3>. QED BY ZenonT(60), <2>4, <3>1, <3>2, <3>3, <3>4, <3>5 DEF TableTypes
  <2>7. \A m \in Tasks : Users(m)' = IF m = mm'[q] THEN Users(m) \cup {q} ELSE Users(m)
    BY Zenon, <2>2, <2>5 DEF Users
  <2>8. MmRefsExact'
    <3> SUFFICES ASSUME NEW m \in Tasks PROVE mm_count'[m] = Cardinality(Users(m)')
      BY Zenon DEF MmRefsExact, Users
    <3>1. IsFiniteSet(Users(m)) /\ mm_count[m] = Cardinality(Users(m)) /\ q \notin Users(m)
      BY Zenon, <2>2, TasksFinite DEF Users, MmRefsExact
    <3>2. CASE m # mm'[q]
      <4>1. mm_count'[m] = mm_count[m]
        BY ZenonT(60), <2>3, <2>4, <2>5, <3>2 DEF TableTypes, Mms
      <4>. QED BY ZenonT(60), <2>7, <3>1, <3>2, <4>1
    <3>3. CASE m = mm'[q] /\ private
      <4>1. m = q /\ mm_count'[m] = 1
        BY ZenonT(60), <2>4, <2>5, <3>3 DEF TableTypes
      <4>2. Users(m) = {}
        BY Zenon, <2>1, <4>1 DEF Users, BirthInv
      <4>3. Users(m)' = {q}
        BY Zenon, <2>7, <3>3, <4>2
      <4>. QED BY ZenonT(60), <4>1, <4>3, FS_Singleton
    <3>4. CASE m = mm'[q] /\ ~private
      <4>1. m = n /\ n # InitMm
        BY Zenon, <2>5, <3>4, NoTaskAssumption DEF InitMm
      <4>2. mm_count'[m] = mm_count[m] + 1
        BY Zenon, <2>4, <3>4, <4>1 DEF TableTypes
      <4>3. Cardinality(Users(m) \cup {q}) = Cardinality(Users(m)) + 1
        BY Zenon, <3>1, FS_AddElement
      <4>. QED BY ZenonT(60), <2>7, <3>1, <3>4, <4>2, <4>3
    <3>. QED BY ZenonT(60), <3>2, <3>3, <3>4
  <2>9. LoadInv'
    <3>1. TaskMm(cur[Bsp])' = TaskMm(cur[Bsp])
      BY ZenonT(60), <2>1, <2>2, <2>3, <2>5, NoTaskAssumption DEF TaskMm
    <3>2. cur[Bsp] # NoTask /\ status[cur[Bsp]] = "Exited" => status'[cur[Bsp]] = "Exited"
      BY Zenon, <1>0, <2>1, <2>3
    <3>3. ASSUME cr3 # InitMm PROVE mm_count'[cr3] > 0
      <4>1. cr3 \in Tasks /\ mm_count[cr3] \in Nat /\ mm_count[cr3] > 0
        BY Zenon, <3>3 DEF TableTypes, Mms, LoadInv
      <4>2. mm_count'[cr3] \in {1, mm_count[cr3], mm_count[cr3] + 1}
        BY ZenonT(60), <2>3, <2>4, <4>1 DEF TableTypes, Mms
      <4>. QED BY SMTT(30), <4>1, <4>2
    <3>. QED BY ZenonT(60), <2>1, <2>4, <3>1, <3>2, <3>3 DEF LoadInv
  <2>. QED BY ZenonT(60), <2>6, <2>8, <2>9
<1>2. ASSUME NEW T \in SUBSET Tasks, NEW s \in {"Zombie", "Stopped", "Running"}, MarkStep(T, s)
      PROVE  MmRefsExact' /\ LoadInv' /\ TableTypes'
  <2>1. TableTypes'
    BY Zenon, <1>2 DEF MarkStep, TableTypes, mmVars
  <2>2. \A t \in Tasks : status[t] = "Exited" => status'[t] = "Exited"
    BY Zenon, <1>2, MarkFacts
  <2>. QED BY ZenonT(60), <1>2, <2>1, <2>2, MarkFacts, LoadFrame DEF MarkStep, mmVars
<1>3. ASSUME NEW p \in Tasks, NEW q \in Tasks, ReapStep(p, q)
      PROVE  MmRefsExact' /\ LoadInv' /\ TableTypes'
  <2>1. /\ pc[Bsp] = "run" /\ UNCHANGED <<status, cur>> /\ cur[Bsp] = p
        /\ p # q /\ InTable(p) /\ InTable(q) /\ ~InTable(q)'
        /\ \A t \in Tasks \ {q} : InTable(t)' <=> InTable(t)
    <3>1. /\ pc[Bsp] = "run" /\ UNCHANGED <<status, cur>> /\ cur[Bsp] = p
          /\ p # q /\ InTable(p) /\ InTable(q) /\ pstat'[q] = "Reaped"
          /\ \A t \in Tasks \ {q} : pstat'[t] = pstat[t]
      BY ZenonT(60), <1>3, ReapFacts
    <3>2. ~InTable(q)' /\ \A t \in Tasks \ {q} : InTable(t)' <=> InTable(t)
      BY ZenonT(60), <3>1 DEF InTable
    <3>. QED BY ZenonT(60), <3>1, <3>2
  <2>2. UNCHANGED mm /\ MmRelease(mm[q])
    BY Zenon, <1>3 DEF ReapStep
  <2>3. status[p] = "Running"
    BY Zenon, <2>1, RunnerRuns
  <2>4. cr3 = TaskMm(p) /\ TaskMm(p) = mm[p]
    BY Zenon, <2>1, <2>3, NoTaskAssumption DEF LoadInv, TaskMm
  <2>5. /\ MmRefsExact' /\ mm_count' \in [Tasks -> Nat] /\ cr3' \in Mms
        /\ cr3' # InitMm => mm_count'[cr3'] > 0
        /\ cr3' = cr3
    BY Zenon, <2>1, <2>2, <2>4, ReleaseStep
  <2>6. TaskMm(cur[Bsp])' = mm[p]
    BY Zenon, <2>1, <2>2, NoTaskAssumption DEF TaskMm
  <2>7. LoadInv'
    BY Zenon, <2>4, <2>5, <2>6 DEF LoadInv
  <2>8. TableTypes'
    BY Zenon, <1>3, <2>5 DEF ReapStep, TableTypes
  <2>. QED BY ZenonT(60), <2>5, <2>7, <2>8
<1>4. ASSUME NEW p \in Tasks, OrphanStep(p) PROVE MmRefsExact' /\ LoadInv' /\ TableTypes'
  <2>1. /\ cur'[Bsp] = p /\ status'[p] = "Exited" /\ InTable(p) /\ ~InTable(p)'
        /\ \A t \in Tasks \ {p} : InTable(t)' <=> InTable(t)
    BY Zenon, <1>4, OrphanFacts DEF InTable
  <2>2. UNCHANGED mm /\ MmRelease(mm[p])
    BY Zenon, <1>4 DEF OrphanStep
  <2>3. /\ MmRefsExact' /\ mm_count' \in [Tasks -> Nat] /\ cr3' \in Mms
        /\ cr3' # InitMm => mm_count'[cr3'] > 0
    BY Zenon, <2>1, <2>2, ReleaseStep
  <2>4. LoadInv'
    BY ZenonT(60), <2>1, <2>3, NoTaskAssumption DEF LoadInv
  <2>5. TableTypes'
    BY Zenon, <1>4, <2>3 DEF OrphanStep, TableTypes
  <2>. QED BY ZenonT(60), <2>3, <2>4, <2>5
<1>5. CASE QuietStep
  <2>1. \A t \in Tasks : InTable(t)' <=> InTable(t)
    BY Zenon, <1>5 DEF QuietStep, InTable
  <2>2. TableTypes'
    BY Zenon, <1>5 DEF QuietStep, TableTypes, mmVars
  <2>. QED BY ZenonT(60), <1>5, <2>1, <2>2, PollingFacts, LoadFrame DEF QuietStep, mmVars
<1>6. CASE KernelStep
  <2>1. UNCHANGED <<pstat, parent, children, mm, mm_count>>
    BY Zenon, <1>6 DEF KernelStep, procVars
  <2>2. \A t \in Tasks : InTable(t)' <=> InTable(t)
    BY Zenon, <2>1 DEF InTable
  <2>3. MmRefsExact'
    BY Zenon, <2>1, <2>2 DEF MmRefsExact
  <2>4. CASE pc[Bsp] = "switch"
    <3>1. cr3' = TaskMm(cur[Bsp]) /\ UNCHANGED cur
      BY ZenonT(60), <1>6, <2>4 DEF KernelStep, Continue, RemoveTasksByPid, ContEnqueue, Flush, LockSlot,
                        SkipCandidate, Dispatch, NextVictim, IdleFallback, Switch
    <3>2. TaskMm(cur[Bsp])' = TaskMm(cur[Bsp])
      BY ZenonT(60), <1>0, <2>1, <2>2, <3>1 DEF TaskMm
    <3>3. ASSUME cr3' # InitMm PROVE cr3' \in Tasks /\ cur[Bsp] \in Users(cr3')
      BY ZenonT(60), <1>0, <3>1, <3>3 DEF TaskMm, Users, TableTypes, Mms
    <3>4. LoadInv'
      BY ZenonT(60), <2>1, <3>1, <3>2, <3>3, UsersCount DEF LoadInv
    <3>5. TableTypes'
      BY ZenonT(60), <2>1, <3>1, <3>3 DEF TableTypes, Mms
    <3>. QED BY ZenonT(60), <2>3, <3>4, <3>5
  <2>5. CASE pc[Bsp] # "switch"
    <3>1. UNCHANGED cr3
      BY Zenon, <1>6, <2>5 DEF KernelStep
    <3>2. TableTypes'
      BY Zenon, <2>1, <3>1 DEF TableTypes
    <3>3. \A t \in Tasks : status[t] = "Exited" => status'[t] = "Exited"
      BY Zenon, <1>6, ContinueStatus DEF KernelStep
    <3>4. CASE UNCHANGED cur
      BY ZenonT(60), <2>1, <2>2, <2>5, <3>1, <3>2, <3>3, <3>4, LoadFrame
    <3>5. CASE ~UNCHANGED cur
      <4>1. pc'[Bsp] = "switch"
        BY ZenonT(60), <1>6, <3>5, OneCpu DEF KernelStep, Continue, RemoveTasksByPid, ContEnqueue, Flush,
             LockSlot, SkipCandidate, Dispatch, NextVictim, IdleFallback, Switch,
             SchedulerInv, QueueInv, TypeOK
      <4>2. LoadInv'
        BY Zenon, <2>1, <3>1, <4>1 DEF LoadInv
      <4>. QED BY ZenonT(60), <2>3, <3>2, <4>2
    <3>. QED BY Zenon, <3>4, <3>5
  <2>. QED BY Zenon, <2>4, <2>5
<1>. QED BY ZenonT(60), <1>1, <1>2, <1>3, <1>4, <1>5, <1>6 DEF ProcStep

-----------------------------------------------------------------------------
(* The invariant holds in every reachable state. *)

LEMMA ProcInvInit == ProcInit => ProcInv
<1> SUFFICES ASSUME ProcInit PROVE ProcInv
  BY Zenon
<1>1. Init /\ SchedulerInv
  BY Zenon, QueueInit, ContextInit DEF ProcInit, SchedulerInv
<1>2. TableTypes
  BY Zenon DEF ProcInit, TableTypes, Mms, InitMm
<1>3. OtherTypes
  <2>1. [p \in Tasks |-> [op |-> "user"]] \in [Tasks -> Acts]
    BY Zenon, ActTypes
  <2>2. "none" \in ExitCodes
    BY Zenon DEF ExitCodes
  <2>. QED BY SMTT(30), <2>1, <2>2, InputAssumption DEF ProcInit, OtherTypes
<1>4. WaitersInv
  BY SMTT(30) DEF ProcInit, WaitersInv, Distinct
<1>5. \A p \in Tasks : pstat[p] = "Unborn" /\ status[p] = "Unborn" /\ ~InTable(p)
  BY ZenonT(60), <1>1 DEF ProcInit, Init, InTable
<1>6. LifeInv /\ GoneInv /\ NoLostReader /\ FamilyConsistent
  BY Zenon, <1>5 DEF LifeInv, GoneInv, NoLostReader, FamilyConsistent
<1>7. BirthInv /\ ActInv
  BY Zenon, <1>5 DEF ProcInit, BirthInv, ActInv, SupervisorOps
<1>8. LoadInv
  <2>1. cur[Bsp] = NoTask
    BY Zenon, <1>1, OneCpu DEF Init
  <2>. QED BY Zenon, <2>1 DEF ProcInit, LoadInv, TaskMm
<1>9. MmRefsExact
  <2>1. \A m \in Tasks : {p \in Tasks : InTable(p) /\ mm[p] = m} = {}
    BY Zenon, <1>5
  <2>. QED BY Zenon, <2>1, FS_EmptySet DEF ProcInit, MmRefsExact
<1>. QED BY ZenonT(60), <1>1, <1>2, <1>3, <1>4, <1>6, <1>7, <1>8, <1>9 DEF ProcInv

LEMMA ProcInvStep == ProcInv /\ [ProcNext]_allVars => ProcInv' /\ [Next]_vars
<1> SUFFICES ASSUME ProcInv, [ProcNext]_allVars PROVE ProcInv' /\ [Next]_vars
  BY Zenon
<1>1. ProcStep /\ ActStep /\ OtherTypes'
  <2>1. CASE UNCHANGED allVars
    <3>1. QuietStep
      BY Zenon, <2>1 DEF allVars, procVars, mmVars, ioVars, QuietStep, Polling
    <3>2. OtherTypes'
      BY Zenon, <2>1 DEF allVars, procVars, ioVars, bootVars, ProcInv, OtherTypes
    <3>3. ActStep
      BY Zenon, <2>1, <3>2 DEF allVars, ActStep, OtherTypes
    <3>. QED BY Zenon, <3>1, <3>2, <3>3 DEF ProcStep
  <2>2. CASE ProcNext
    BY ZenonT(60), <2>2, StepKinds, ActSteps, OtherStep DEF ProcInv
  <2>. QED BY Zenon, <2>1, <2>2
<1>2. [Next]_vars
  BY Zenon, <1>1, StepsSchedule DEF ProcInv
<1>3. SchedulerInv'
  BY ZenonT(60), <1>2, OneCpu, QueueStep, ContextStep DEF ProcInv, SchedulerInv
<1>. QED
  BY ZenonT(60), <1>1, <1>2, <1>3, LifeStep, GoneStep, FamilyStep, MmStep, WaitersStep, ActInvStep DEF ProcInv

LEMMA ProcInvariant == ProcSpec => []ProcInv
BY ProcInvInit, ProcInvStep, PTL DEF ProcSpec

-----------------------------------------------------------------------------
(* Theorems. *)

\* The lifecycle implements the scheduler's specification on one CPU: whatever fork,
\* exit, the signals, wait4, the terminal and the boot context do, they drive the run
\* queues only through the operations Scheduler allows, with its preconditions (a task
\* that is reaped has exited and is not the current one, one that is woken is Blocked).
THEOREM LifecycleSchedules == ProcSpec => Spec
<1>1. ProcInit => Init
  BY Zenon DEF ProcInit
<1>2. ProcInv /\ [ProcNext]_allVars => [Next]_vars
  BY Zenon, ProcInvStep
<1>. QED BY <1>1, <1>2, ProcInvariant, PTL DEF ProcSpec, Spec

\* What is proved of the scheduler holds for the processes: an exited task stays
\* exited, no live task is lost, and only Running tasks run.
THEOREM LifecycleInherits == ProcSpec => ExitedIsFinal /\ []NoTaskLost /\ []OnlyRunningRuns
BY LifecycleSchedules, OneCpu, ExitIsForGood, TasksKept, RunnersRun, PTL

\* Every variable of the lifecycle keeps its type; in particular no address space is
\* ever released more often than it was retained.
THEOREM LifecycleTyped == ProcSpec => []ProcTypeOK
<1>1. ProcInv => ProcTypeOK
  BY Zenon DEF ProcInv, SchedulerInv, QueueInv, TableTypes, OtherTypes, WaitersInv, ProcTypeOK
<1>. QED BY <1>1, ProcInvariant, PTL

\* The children a process lists are exactly the processes of the table that have it
\* as their parent, through fork, reaping and the supervisor's own exit.
THEOREM FamiliesConsistent == ProcSpec => []FamilyConsistent
<1>1. ProcInv => FamilyConsistent
  BY ZenonT(60) DEF ProcInv
<1>. QED BY <1>1, ProcInvariant, PTL

\* The reference count of every address space is the number of processes of the
\* table that use it.
THEOREM MmCountsExact == ProcSpec => []MmRefsExact
<1>1. ProcInv => MmRefsExact
  BY ZenonT(60) DEF ProcInv
<1>. QED BY <1>1, ProcInvariant, PTL

\* The loaded page tables are never freed ones, and are those of the process that
\* executes: reaping a vfork child, or the exit of a supervisor, frees no tables that
\* are in use.
THEOREM LoadedMmLives == ProcSpec => []LoadedMm
<1>1. ProcInv => LoadedMm
  <2> SUFFICES ASSUME ProcInv PROVE LoadedMm
    BY Zenon
  <2>1. cur[Bsp] \in Tasks \cup {NoTask}
    BY Zenon, OneCpu DEF ProcInv, SchedulerInv, QueueInv, TypeOK
  <2>2. pc[Bsp] = "run" /\ cur[Bsp] # NoTask => status[cur[Bsp]] = "Running"
    BY ZenonT(60), <2>1, RunnerRuns DEF ProcInv
  <2>. QED BY Zenon, <2>2 DEF ProcInv, LoadInv, LoadedMm
<1>. QED BY <1>1, ProcInvariant, PTL

\* A process that wait4 reports as terminated, or that has left the table, executes
\* no more code and is on no run queue.
THEOREM TerminatedStaysDead == ProcSpec => []TerminatedIsDead
<1>1. ProcInv => TerminatedIsDead
  <2> SUFFICES ASSUME ProcInv, NEW p \in Tasks
               PROVE  /\ pstat[p] \in {"Zombie", "Reaped"} => status[p] = "Exited"
                      /\ pstat[p] = "Reaped" /\ pc[Bsp] = "run" => ~Queued(p) /\ cur[Bsp] # p
    BY Zenon DEF TerminatedIsDead
  <2>1. pc[Bsp] = "run" /\ cur[Bsp] = p => status[p] = "Running"
    BY ZenonT(60), RunnerRuns DEF ProcInv
  <2>. QED BY Zenon, <2>1 DEF ProcInv, LifeInv, GoneInv, Removing
<1>. QED BY <1>1, ProcInvariant, PTL

\* A process that is Blocked in read, and not stopped, is in the stdin wait queue.
THEOREM ReadersQueued == ProcSpec => []NoLostReader
<1>1. ProcInv => NoLostReader
  BY ZenonT(60) DEF ProcInv
<1>. QED BY <1>1, ProcInvariant, PTL

\* No process is in the stdin wait queue twice.
THEOREM ReadersQueuedOnce == ProcSpec => []WaitersOnce
<1>1. ProcInv => WaitersOnce
  BY Zenon DEF ProcInv, WaitersInv, Distinct, WaitersOnce
<1>. QED BY <1>1, ProcInvariant, PTL
=============================================================================
