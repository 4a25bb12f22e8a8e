---------------------------- MODULE ProcessKinds -----------------------------
(***************************************************************************)
(* The invariant of the process lifecycle, the kinds of step by what they  *)
(* do to the process table, and what each kind of step does to the tasks   *)
(* and to the table.                                                       *)
(***************************************************************************)
EXTENDS Processes, ContextProofs

-----------------------------------------------------------------------------
(* The inductive invariant. *)

\* The process table against the status of the tasks.
LifeInv ==
    \A p \in Tasks :
        /\ pstat[p] = "Unborn" <=> status[p] = "Unborn"
        /\ pstat[p] \in {"Zombie", "Reaped"} => status[p] = "Exited"

\* Nothing refers to a process that was never created.
BirthInv ==
    \A p \in Tasks :
        /\ pstat[p] = "Unborn" => children[p] = {}
        /\ InTable(p) /\ parent[p] \in Tasks => pstat[parent[p]] # "Unborn"
        /\ InTable(p) /\ mm[p] \in Tasks => pstat[mm[p]] # "Unborn"

\* Only a session supervisor, which has no parent, executes the supervisor's code.
SupervisorOps == {"supervise", "finish", "abort"}

ActInv ==
    \A p \in Tasks :
        /\ pstat[p] = "Unborn" => act[p].op = "user"
        /\ act[p].op \in SupervisorOps => parent[p] = NoTask

\* The task of a reaped process is on no run queue, or the caller of wait4, or the
\* supervisor itself, is about to take it off.
Removing == pc[Bsp] \in {"remove", "remove_sched"}

GoneInv ==
    \A p \in Tasks : pstat[p] = "Reaped" => ~Queued(p) \/ (Removing /\ p \in todo[Bsp])

\* The loaded address space: except between the choice of a task and the switch to
\* it, it is that of the current task, unless this one has exited (a supervisor
\* drops its own address space on its way out).
LoadInv ==
    /\ cr3 # InitMm => mm_count[cr3] > 0
    /\ pc[Bsp] # "switch" => \/ cr3 = TaskMm(cur[Bsp])
                             \/ cur[Bsp] # NoTask /\ status[cur[Bsp]] = "Exited"

\* The types of the variables the process table is made of, and of the others.
TableTypes ==
    /\ pstat \in [Tasks -> {"Unborn", "Running", "Stopped", "Zombie", "Reaped"}]
    /\ parent \in [Tasks -> Tasks \cup {NoTask}]
    /\ children \in [Tasks -> SUBSET Tasks]
    /\ mm \in [Tasks -> Mms]
    /\ mm_count \in [Tasks -> Nat]
    /\ cr3 \in Mms

OtherTypes ==
    /\ exit_code \in [Tasks -> ExitCodes]
    /\ stop_reported \in [Tasks -> BOOLEAN]
    /\ cont_pending \in [Tasks -> BOOLEAN]
    /\ act \in [Tasks -> Acts]
    /\ input \in 0 .. MaxInput
    /\ session \in {"idle", "starting", "running", "completed", "failed"}
    /\ shell \in {"prompt", "launching", "attached"}
    /\ idle_phase \in {"poll", "schedule", "check"}

WaitersInv == waiters \in Seq(Tasks) /\ Distinct(waiters)

SchedulerInv == QueueInv /\ ContextInv

ProcInv ==
    /\ SchedulerInv /\ TableTypes /\ OtherTypes /\ WaitersInv
    /\ LifeInv /\ BirthInv /\ ActInv /\ GoneInv /\ LoadInv
    /\ FamilyConsistent /\ MmRefsExact /\ NoLostReader

-----------------------------------------------------------------------------
(* The scheduler as the processes see it. *)

LEMMA OneCpu == Bsp \in CPUs /\ CPUs = {Bsp} /\ Solo /\ Confined
BY OneCpuAssumption DEF CPUs, Bsp, Solo, Confined

\* Code outside the scheduler runs for a task that is Running.
LEMMA RunnerRuns ==
    ASSUME SchedulerInv, LifeInv, TableTypes, pc[Bsp] = "run", NEW p \in Tasks, cur[Bsp] = p
    PROVE  status[p] = "Running" /\ InTable(p)
<1>1. status[p] = "Running"
  BY Zenon, OneCpu, NoTaskAssumption DEF SchedulerInv, ContextInv, SoloInv
<1>2. pstat[p] \notin {"Unborn", "Zombie", "Reaped"}
  BY Zenon, <1>1 DEF LifeInv
<1>. QED BY Zenon, <1>1, <1>2 DEF TableTypes, InTable

\* What the steps inside an operation of the scheduler may do to a status.
LEMMA ContinueStatus ==
    ASSUME SchedulerInv, Continue(Bsp), NEW t \in Tasks
    PROVE  /\ status'[t] = "Unborn" <=> status[t] = "Unborn"
           /\ status[t] = "Exited" => status'[t] = "Exited"
           /\ status'[t] = "Blocked" => status[t] = "Blocked"
<1> DEFINE Fine == /\ status'[t] = "Unborn" <=> status[t] = "Unborn"
                   /\ status[t] = "Exited" => status'[t] = "Exited"
                   /\ status'[t] = "Blocked" => status[t] = "Blocked"
<1> USE OneCpu
<1>1. TypeOK /\ AwayInv
  BY Zenon DEF SchedulerInv, QueueInv, ContextInv
<1>2. ASSUME NEW u \in Tasks, status[u] # "Unborn", EnqueueOnCpu(Bsp, u, status)
      PROVE  Fine
  BY Zenon, <1>1, <1>2 DEF EnqueueOnCpu, Schedulable, TypeOK
<1>3. CASE UNCHANGED status
  BY Zenon, <1>3
<1>4. CASE ContEnqueue(Bsp)
  BY Zenon, <1>1, <1>2, <1>3, <1>4 DEF ContEnqueue, AwayInv, TypeOK
<1>5. CASE Flush(Bsp)
  <2>1. CASE deferred[Bsp] # <<>>
    <3>1. deferred[Bsp] \in Seq(Tasks)
      BY Zenon, <1>1 DEF TypeOK
    <3>2. Head(deferred[Bsp]) \in Tasks /\ In(deferred[Bsp], Head(deferred[Bsp]))
      BY Zenon, <2>1, <3>1, ListMembers
    <3>3. status[Head(deferred[Bsp])] # "Unborn"
      BY Zenon, <1>1, <3>2 DEF AwayInv
    <3>. QED BY Zenon, <1>2, <1>5, <2>1, <3>2, <3>3 DEF Flush
  <2>. QED BY Zenon, <1>3, <1>5, <2>1 DEF Flush
<1>6. ASSUME NEW x \in Tasks \cup {NoTask}, x # NoTask => status[x] = "Ready",
             \A u \in Tasks : status'[u] = IF u = x THEN "Running"
                                ELSE IF u = cur[Bsp] /\ Requeues(u) THEN "Switching" ELSE status[u]
      PROVE  Fine
  BY Zenon, <1>1, <1>6, NoTaskAssumption DEF Requeues, AwayInv
<1>7. CASE Dispatch(Bsp)
  <2>1. Candidate(Bsp) \in Tasks
    BY Zenon, <1>7, PopQueue DEF Dispatch, SchedulerInv
  <2>2. status[Candidate(Bsp)] = "Ready" /\ cur[Bsp] # Candidate(Bsp)
    BY Zenon, <1>1, <1>7, <2>1 DEF Dispatch, AwayInv
  <2>3. \A u \in Tasks : status'[u] = IF u = Candidate(Bsp) THEN "Running"
                            ELSE IF u = cur[Bsp] /\ Requeues(u) THEN "Switching" ELSE status[u]
    BY Zenon, <1>1, <1>7, <2>1, <2>2 DEF Dispatch, SwitchedOut, Requeues, TypeOK
  <2>. QED BY Zenon, <1>6, <2>1, <2>2, <2>3
<1>8. CASE IdleFallback(Bsp)
  <2>1. CASE idle_sp[Bsp] /\ cur[Bsp] # NoTask
    <3>1. \A u \in Tasks : status'[u] = IF u = NoTask THEN "Running"
                              ELSE IF u = cur[Bsp] /\ Requeues(u) THEN "Switching" ELSE status[u]
      BY <1>1, <1>8, <2>1, NoTaskAssumption DEF IdleFallback, SwitchedOut, Requeues, TypeOK
    <3>. QED BY Zenon, <1>6, <3>1
  <2>. QED BY Zenon, <1>3, <1>8, <2>1 DEF IdleFallback
<1>. QED
  BY Zenon, <1>3, <1>4, <1>5, <1>7, <1>8
     DEF Continue, RemoveTasksByPid, LockSlot, SkipCandidate, NextVictim, Switch

\* enqueue_on_cpu queues the task it is called for, and not if this one has exited.
LEMMA EnqueueAdds ==
    ASSUME TypeOK, NEW u \in Tasks, NEW st \in [Tasks -> Statuses], EnqueueOnCpu(Bsp, u, st),
           NEW t \in Tasks, ~Queued(t), t # u \/ st[t] = "Exited"
    PROVE  ~Queued(t)'
<1>1. CASE queue' = queue
  BY Zenon, <1>1, QueuedIn, QueuedInNext
<1>2. CASE Schedulable(st, u) /\ queue' = [queue EXCEPT ![Bsp] = Append(@, u)]
  <2>1. t # u
    BY Zenon, <1>2 DEF Schedulable
  <2>2. queue[Bsp] \in Seq(Tasks) /\ queue'[Bsp] = Append(queue[Bsp], u)
    BY Zenon, <1>2, OneCpu DEF TypeOK
  <2>3. \A v : In(queue'[Bsp], v) <=> In(queue[Bsp], v) \/ v = u
    BY <2>2, ListMembers
  <2>. QED BY Zenon, <2>1, <2>3, OneCpu, QueuedIn, QueuedInNext
<1>. QED BY Zenon, <1>1, <1>2 DEF EnqueueOnCpu

\* Nothing inside the scheduler puts the task of a process that has exited on a run
\* queue, and remove_tasks_by_pid takes it off.
LEMMA ContinueQueue ==
    ASSUME SchedulerInv, Continue(Bsp), NEW t \in Tasks, status[t] = "Exited",
           ~Queued(t) \/ (Removing /\ t \in todo[Bsp])
    PROVE  ~Queued(t)' \/ (Removing' /\ t \in todo'[Bsp])
<1> USE OneCpu
<1>1. TypeOK /\ Once
  BY Zenon DEF SchedulerInv, QueueInv
<1>2. CASE RemoveTasksByPid(Bsp)
  <2>1. CASE todo[Bsp] = {}
    <3>1. ~Queued(t) /\ queue' = queue
      BY Zenon, <1>2, <2>1 DEF RemoveTasksByPid
    <3>. QED BY Zenon, <3>1, QueuedIn, QueuedInNext
  <2>2. ASSUME NEW u \in todo[Bsp], queue' = [s \in CPUs |-> Without(queue[s], u)],
               todo' = [todo EXCEPT ![Bsp] = @ \ {u}], pc' = pc
        PROVE  ~Queued(t)' \/ (Removing' /\ t \in todo'[Bsp])
    <3>1. queue[Bsp] \in Seq(Tasks) /\ Distinct(queue[Bsp]) /\ u \in Tasks
      BY Zenon, <1>1, <2>2 DEF TypeOK, Once
    <3>2. \A v : In(Without(queue[Bsp], u), v) <=> In(queue[Bsp], v) /\ v # u
      BY Zenon, <3>1, WithoutTask
    <3>3. Queued(t)' => Queued(t) /\ t # u
      BY Zenon, <2>2, <3>2, QueuedIn, QueuedInNext
    <3>4. todo'[Bsp] = todo[Bsp] \ {u}
      BY Zenon, <1>1, <2>2 DEF TypeOK
    <3>. QED BY Zenon, <2>2, <3>3, <3>4 DEF Removing
  <2>. QED BY Zenon, <1>2, <2>1, <2>2 DEF RemoveTasksByPid
<1>3. CASE ~RemoveTasksByPid(Bsp)
  <2>1. ~Removing
    BY Zenon, <1>3 DEF Continue, Removing, ContEnqueue, Flush, LockSlot, SkipCandidate, Dispatch,
                NextVictim, IdleFallback, Switch
  <2>2. ~Queued(t)
    BY Zenon, <2>1
  <2>3. CASE queue' = queue
    BY Zenon, <2>2, <2>3, QueuedIn, QueuedInNext
  <2>4. CASE ContEnqueue(Bsp)
    BY Zenon, <1>1, <2>2, <2>3, <2>4, EnqueueAdds DEF ContEnqueue, TypeOK
  <2>5. CASE Flush(Bsp)
    <3>1. deferred[Bsp] # <<>> => Head(deferred[Bsp]) \in Tasks
      BY Zenon, <1>1, ListMembers DEF TypeOK
    <3>. QED BY Zenon, <1>1, <2>2, <2>3, <2>5, <3>1, EnqueueAdds DEF Flush, TypeOK
  <2>6. CASE SkipCandidate(Bsp) \/ Dispatch(Bsp)
    <3>1. /\ Slot(Bsp) = Bsp
          /\ \A v : In(Popped(Bsp), v) => In(queue[Bsp], v)
          /\ \A v : In(Rotated(Bsp), v) => In(queue[Bsp], v)
      BY Zenon, <2>6, PopQueue DEF SchedulerInv, SkipCandidate, Dispatch
    <3>2. queue'[Bsp] \in {Popped(Bsp), Rotated(Bsp)}
      BY Zenon, <1>1, <2>6, <3>1 DEF SkipCandidate, Dispatch, TypeOK
    <3>. QED BY Zenon, <2>2, <3>1, <3>2, QueuedIn, QueuedInNext
  <2>. QED
    BY Zenon, <1>3, <2>3, <2>4, <2>5, <2>6 DEF Continue, LockSlot, NextVictim, IdleFallback, Switch
<1>. QED BY Zenon, <1>2, <1>3

-----------------------------------------------------------------------------
(* The kinds of step, by what they do to the process table. *)

\* Code outside the scheduler is running for p.
Runs(p) == pc[Bsp] = "run" /\ cur[Bsp] = p

\* fork, vfork and the two ends of the launch of a session create a process.
BirthStep(p, q, private) == Runs(p) /\ SpawnProcess(p, q, private)

\* exit and the signals change the state s of some processes of the table.
MarkStep(T, s) ==
    /\ Runs(cur[Bsp]) /\ cur[Bsp] \in Tasks
    /\ T # {} /\ \A t \in T : InTable(t)
    /\ \/ s = "Zombie" /\ (Terminate(Bsp, T) \/ (T = {cur[Bsp]} /\ ExitCurrentTask(Bsp)))
       \/ s = "Stopped" /\ Stop(Bsp, T)
       \/ s = "Running" /\ Cont(Bsp, T)
    /\ pstat' = [t \in Tasks |-> IF t \in T THEN s ELSE pstat[t]]
    /\ UNCHANGED <<parent, children, mmVars, waiters, act>>

\* wait4 reaps a child.
ReapStep(p, q) ==
    /\ Runs(p)
    /\ q \in children[p] /\ pstat[q] = "Zombie"
    /\ Reap(Bsp, q)
    /\ pstat' = [pstat EXCEPT ![q] = "Reaped"]
    /\ children' = [children EXCEPT ![p] = @ \ {q}]
    /\ MmRelease(mm[q])
    /\ UNCHANGED <<parent, mm, waiters>>

\* The supervisor leaves the table by itself.
OrphanStep(p) ==
    /\ Runs(p) /\ act[p].op \in SupervisorOps
    /\ Terminate(Bsp, {p})
    /\ pstat' = [pstat EXCEPT ![p] = "Reaped"]
    /\ MmRelease(mm[p])
    /\ UNCHANGED <<parent, children, mm, waiters, act>>

\* The scheduler and the wait queue, when the process table does not change.
Polling ==
    \/ UNCHANGED <<vars, waiters>>
    \/ Yield(Bsp) /\ UNCHANGED waiters
    \/ \E p \in Tasks : Runs(p) /\ UNCHANGED vars /\ waiters' = Without(waiters, p)
    \/ \E p \in Tasks : Runs(p) /\ BlockCurrent(Bsp) /\ waiters' = Enqueued(p)
    \/ /\ Runs(NoTask) /\ waiters # <<>> /\ waiters' = Tail(waiters)
       /\ IF Wakeable(Head(waiters)) THEN Wake(Bsp, Head(waiters)) ELSE UNCHANGED vars

QuietStep == Polling /\ UNCHANGED <<pstat, parent, children, mmVars>>

ProcStep ==
    \/ \E p \in Tasks \cup {NoTask}, q \in Tasks, private \in BOOLEAN : BirthStep(p, q, private)
    \/ \E T \in SUBSET Tasks, s \in {"Zombie", "Stopped", "Running"} : MarkStep(T, s)
    \/ \E p, q \in Tasks : ReapStep(p, q)
    \/ \E p \in Tasks : OrphanStep(p)
    \/ QuietStep
    \/ KernelStep

LEMMA Wait4Kinds ==
    ASSUME TableTypes, NEW p \in Tasks, NEW req, Wait4(p, req), Waiting(p, req)
    PROVE  ProcStep
<1>1. Runs(p)
  BY Zenon DEF Waiting, Doing, Runs
<1>2. ASSUME NEW q \in Tasks, WaitReap(p, req, q) PROVE ReapStep(p, q)
  <2>1. q \in children[p] /\ Event(q, req.opts) = "exited"
    BY Zenon, <1>2 DEF WaitReap, Observed, Candidates
  <2>2. pstat[q] = "Zombie"
    BY Zenon, <2>1 DEF Event
  <2>. QED BY Zenon, <1>1, <1>2, <2>1, <2>2 DEF WaitReap, ReapStep, ioVars
<1>3. CASE \E q \in Tasks : WaitConsume(p, req, q)
  BY Zenon, <1>3 DEF WaitConsume, QuietStep, Polling, ProcStep, ioVars
<1>4. CASE WaitNoChild(p, req) \/ WaitBlock(p, req)
  BY Zenon, <1>4 DEF WaitNoChild, WaitBlock, QuietStep, Polling, ProcStep, ioVars, procVars
<1>. QED BY Zenon, <1>2, <1>3, <1>4 DEF Wait4, ProcStep

LEMMA StdinKinds ==
    ASSUME NEW p \in Tasks, ReadStdin(p) \/ BlockOnStdin(p)
    PROVE  ProcStep
<1>1. Runs(p)
  BY Zenon DEF ReadStdin, BlockOnStdin, Doing, Runs
<1>2. QuietStep
  BY Zenon, <1>1 DEF ReadStdin, BlockOnStdin, QuietStep, Polling, procVars
<1>. QED BY Zenon, <1>2 DEF ProcStep

LEMMA StepKinds ==
    ASSUME SchedulerInv, LifeInv, TableTypes, ProcNext
    PROVE  ProcStep
<1>1. ASSUME NEW p \in Tasks, SystemCall(p) PROVE ProcStep
  <2>1. Doing(p, "user") /\ Runs(p) /\ InTable(p) /\ cur[Bsp] \in Tasks
    BY Zenon, <1>1, RunnerRuns DEF SystemCall, Doing, Runs
  <2>2. CASE \E q \in Tasks : Fork(p, q) \/ Vfork(p, q)
    BY Zenon, <2>1, <2>2 DEF Fork, Vfork, BirthStep, ProcStep
  <2>3. ASSUME NEW code \in Codes, Exit(p, code) PROVE ProcStep
    <3>1. {p} = {cur[Bsp]} /\ {p} \in SUBSET Tasks
      BY Zenon, <2>1 DEF Runs
    <3>2. MarkStep({p}, "Zombie")
      BY Zenon, <2>1, <2>3, <3>1 DEF Exit, MarkZombie, MarkStep, ioVars, Runs
    <3>. QED BY Zenon, <3>1, <3>2 DEF ProcStep
  <2>4. ASSUME NEW T \in KillTargets, Kill(p, T) PROVE ProcStep
    <3>1. T \in SUBSET Tasks /\ T # {} /\ \A t \in T : InTable(t)
      BY Zenon DEF KillTargets
    <3>2. MarkStep(T, "Zombie")
      BY Zenon, <2>1, <2>4, <3>1 DEF Kill, MarkZombie, MarkStep, ioVars, Runs
    <3>. QED BY Zenon, <3>1, <3>2 DEF ProcStep
  <2>5. ASSUME NEW T \in KillTargets, StopProcesses(p, T) \/ ContProcesses(p, T) PROVE ProcStep
    <3>1. T \in SUBSET Tasks /\ T # {} /\ \A t \in T : InTable(t)
      BY Zenon DEF KillTargets
    <3>2. CASE StopProcesses(p, T)
      <4>1. MarkStep(T, "Stopped")
        BY Zenon, <2>1, <3>1, <3>2 DEF StopProcesses, MarkStep, ioVars, Runs
      <4>. QED BY Zenon, <3>1, <4>1 DEF ProcStep
    <3>3. CASE ContProcesses(p, T)
      <4>1. MarkStep(T, "Running")
        BY Zenon, <2>1, <3>1, <3>3 DEF ContProcesses, MarkStep, ioVars, Runs
      <4>. QED BY Zenon, <3>1, <4>1 DEF ProcStep
    <3>. QED BY Zenon, <2>5, <3>2, <3>3
  <2>6. ASSUME NEW req \in WaitReqs, Wait4(p, req) PROVE ProcStep
    BY Zenon, <2>1, <2>6, Wait4Kinds DEF Waiting
  <2>7. CASE PollYield(p)
    BY Zenon, <2>7 DEF PollYield, QuietStep, Polling, ProcStep, procVars, ioVars
  <2>. QED
    BY Zenon, <1>1, <2>2, <2>3, <2>4, <2>5, <2>6, <2>7, StdinKinds DEF SystemCall
<1>2. ASSUME NEW p \in Tasks, Loop(p) PROVE ProcStep
  <2>1. CASE Doing(p, "wait") /\ Wait4(p, act[p].req)
    BY Zenon, <2>1, Wait4Kinds DEF Waiting
  <2>2. CASE VforkPoll(p)
    BY Zenon, <2>2 DEF VforkPoll, QuietStep, Polling, ProcStep, procVars, ioVars
  <2>. QED BY Zenon, <1>2, <2>1, <2>2, StdinKinds DEF Loop
<1>3. ASSUME NEW p \in Tasks, Supervisor(p) PROVE ProcStep
  <2>1. CASE \E q \in Tasks : Supervise(p, q)
    BY Zenon, <2>1 DEF Supervise, Doing, Runs, BirthStep, ProcStep
  <2>2. CASE SuperviseFails(p)
    BY Zenon, <2>2 DEF SuperviseFails, QuietStep, Polling, ProcStep, procVars, ioVars
  <2>3. CASE FinishSupervisor(p)
    <3>1. Runs(p) /\ act[p].op \in SupervisorOps
      BY Zenon, <2>3 DEF FinishSupervisor, Doing, Runs, SupervisorOps
    <3>2. OrphanStep(p)
      BY Zenon, <2>3, <3>1 DEF FinishSupervisor, OrphanStep, ioVars
    <3>. QED BY Zenon, <3>2 DEF ProcStep
  <2>. QED BY Zenon, <1>3, <2>1, <2>2, <2>3 DEF Supervisor
<1>4. ASSUME BootContext PROVE ProcStep
  <2>1. CASE \E q \in Tasks : Launch(q)
    BY Zenon, <2>1 DEF Launch, Idling, Runs, BirthStep, ProcStep
  <2>2. CASE LaunchFails \/ ShellReads \/ IdleSchedule \/ IdleCheck
    <3>1. QuietStep
      BY Zenon, <2>2 DEF LaunchFails, ShellReads, IdleSchedule, IdleCheck, QuietStep, Polling, procVars, ioVars
    <3>. QED BY Zenon, <3>1 DEF ProcStep
  <2>3. CASE IdlePoll
    <3>1. QuietStep
      BY Zenon, <2>3 DEF IdlePoll, Idling, Runs, QuietStep, Polling, procVars
    <3>. QED BY Zenon, <3>1 DEF ProcStep
  <2>. QED BY Zenon, <1>4, <2>1, <2>2, <2>3 DEF BootContext
<1>5. CASE InputArrives
  BY Zenon, <1>5 DEF InputArrives, QuietStep, Polling, ProcStep, procVars
<1>. QED BY Zenon, <1>1, <1>2, <1>3, <1>4, <1>5 DEF ProcNext, ProcStep

\* Every step is one of the scheduler, or leaves it alone.
LEMMA StepsSchedule ==
    ASSUME WaitersInv, ProcStep
    PROVE  [Next]_vars
<1> USE OneCpu
<1>1. ASSUME NEW p, NEW q \in Tasks, NEW private, BirthStep(p, q, private) PROVE Start(Bsp)
  BY Zenon, <1>1 DEF BirthStep, SpawnProcess, Start
<1>2. ASSUME NEW T \in SUBSET Tasks, NEW s, MarkStep(T, s) PROVE Start(Bsp)
  BY Zenon, <1>2 DEF MarkStep, Start
<1>3. ASSUME NEW p, NEW q \in Tasks, ReapStep(p, q) PROVE Start(Bsp)
  BY Zenon, <1>3 DEF ReapStep, Start
<1>4. ASSUME NEW p \in Tasks, OrphanStep(p) PROVE Start(Bsp)
  <2>1. {p} \in SUBSET Tasks /\ Terminate(Bsp, {p})
    BY Zenon, <1>4 DEF OrphanStep
  <2>. QED BY Zenon, <2>1 DEF Start
<1>5. CASE Polling
  <2>1. waiters # <<>> => Head(waiters) \in Tasks
    BY ListMembers DEF WaitersInv
  <2>2. Start(Bsp) \/ UNCHANGED vars
    BY Zenon, <1>5, <2>1 DEF Polling, Start
  <2>. QED BY Zenon, <2>2 DEF Next
<1>. QED BY Zenon, <1>1, <1>2, <1>3, <1>4, <1>5 DEF ProcStep, QuietStep, KernelStep, Next

-----------------------------------------------------------------------------
(* What the kinds of step do to the tasks and to the process table. *)

LEMMA BirthFacts ==
    ASSUME SchedulerInv, TableTypes, LifeInv,
           NEW p \in Tasks \cup {NoTask}, NEW q \in Tasks, NEW private \in BOOLEAN,
           BirthStep(p, q, private)
    PROVE  /\ pc[Bsp] = "run" /\ UNCHANGED <<pc, cur, waiters>>
           /\ p # q /\ (p \in Tasks => InTable(p))
           /\ status[q] = "Unborn" /\ status'[q] = "Ready"
           /\ pstat[q] = "Unborn" /\ pstat'[q] = "Running"
           /\ \A t \in Tasks \ {q} : status'[t] = status[t] /\ pstat'[t] = pstat[t]
           /\ \A t \in Tasks : status[t] = "Exited" /\ ~Queued(t) => ~Queued(t)'
<1>1. Spawn(Bsp, q) /\ Runs(p) /\ UNCHANGED <<pc, cur, waiters>>
  BY Zenon DEF BirthStep, SpawnProcess, Spawn, ioVars
<1>2. TypeOK /\ status \in [Tasks -> Statuses]
  BY Zenon DEF SchedulerInv, QueueInv, TypeOK
<1>3. status[q] = "Unborn" /\ EnqueueOnCpu(Bsp, q, [status EXCEPT ![q] = "Ready"])
  BY Zenon, <1>1 DEF Spawn
<1>4. "Ready" \in Statuses
  BY Zenon DEF Statuses
<1>5. [status EXCEPT ![q] = "Ready"] \in [Tasks -> Statuses]
  BY Zenon, <1>2, <1>4
<1>6. p \in Tasks => InTable(p) /\ status[p] = "Running"
  BY Zenon, <1>1, RunnerRuns DEF Runs
<1>7. p # q
  BY Zenon, <1>3, <1>6, NoTaskAssumption
<1>8. status'[q] = "Ready" /\ \A t \in Tasks \ {q} : status'[t] = status[t]
  BY Zenon, <1>2, <1>3 DEF EnqueueOnCpu, Schedulable
<1>9. pstat[q] = "Unborn"
  BY Zenon, <1>3 DEF LifeInv
<1>10. pstat'[q] = "Running" /\ \A t \in Tasks \ {q} : pstat'[t] = pstat[t]
  BY Zenon DEF BirthStep, SpawnProcess, TableTypes
<1>11. ASSUME NEW t \in Tasks, status[t] = "Exited", ~Queued(t) PROVE ~Queued(t)'
  <2>1. t # q
    BY Zenon, <1>3, <1>11
  <2>. QED BY Zenon, <1>2, <1>3, <1>5, <1>11, <2>1, EnqueueAdds
<1>. QED BY Zenon, <1>1, <1>3, <1>6, <1>7, <1>8, <1>9, <1>10, <1>11 DEF Runs

LEMMA MarkFacts ==
    ASSUME SchedulerInv, TableTypes, LifeInv,
           NEW T \in SUBSET Tasks, NEW s \in {"Zombie", "Stopped", "Running"}, MarkStep(T, s)
    PROVE  /\ pc[Bsp] = "run" /\ pc'[Bsp] # "switch" /\ UNCHANGED <<queue, cur>>
           /\ \A t \in Tasks : InTable(t)' <=> InTable(t)
           /\ \A t \in Tasks : pstat'[t] \in {"Unborn", "Reaped"} <=> pstat[t] \in {"Unborn", "Reaped"}
           /\ \A t \in T : /\ pstat'[t] = s /\ InTable(t)
                           /\ status[t] # "Unborn" /\ status'[t] # "Unborn"
                           /\ status[t] = "Exited" \/ s = "Zombie" => status'[t] = "Exited"
                           /\ status'[t] = "Blocked" => s = "Stopped"
           /\ \A t \in Tasks \ T : status'[t] = status[t] /\ pstat'[t] = pstat[t]
<1> USE OneCpu
<1>1. TypeOK /\ status \in [Tasks -> Statuses]
  BY Zenon DEF SchedulerInv, QueueInv, TypeOK
<1>2. pc[Bsp] = "run" /\ cur[Bsp] \in Tasks /\ \A t \in T : InTable(t)
  BY Zenon DEF MarkStep, Runs
<1>3. \A t \in T : pstat'[t] = s
  BY Zenon DEF MarkStep
<1>4. \A t \in Tasks \ T : pstat'[t] = pstat[t]
  BY Zenon DEF MarkStep
<1>5. \A t \in T : status[t] # "Unborn"
  BY Zenon, <1>2 DEF LifeInv, InTable
<1>6. \A t \in T : InTable(t)'
  BY Zenon, <1>3 DEF InTable
<1>7. \A t \in Tasks : InTable(t)' <=> InTable(t)
  BY Zenon, <1>2, <1>4, <1>6 DEF InTable
<1>8. \A t \in Tasks : pstat'[t] \in {"Unborn", "Reaped"} <=> pstat[t] \in {"Unborn", "Reaped"}
  BY Zenon, <1>2, <1>3, <1>4 DEF InTable
<1>9. \A t \in T : /\ status'[t] # "Unborn"
                   /\ status[t] = "Exited" \/ s = "Zombie" => status'[t] = "Exited"
                   /\ status'[t] = "Blocked" => s = "Stopped"
  <2>1. CASE s = "Zombie"
    BY Zenon, <1>1, <1>2, <2>1 DEF MarkStep, Terminate, ExitCurrentTask
  <2>2. CASE s = "Stopped"
    BY Zenon, <1>1, <1>5, <2>2 DEF MarkStep, Stop
  <2>3. CASE s = "Running"
    BY SMTT(30), <1>1, <1>5, <2>3 DEF MarkStep, Cont
  <2>. QED BY Zenon, <2>1, <2>2, <2>3
<1>10. \A t \in Tasks \ T : status'[t] = status[t]
  BY Zenon, <1>1, <1>2 DEF MarkStep, Terminate, ExitCurrentTask, Stop, Cont
<1>11. pc'[Bsp] # "switch" /\ UNCHANGED <<queue, cur>>
  BY Zenon, <1>1 DEF MarkStep, Terminate, ExitCurrentTask, Stop, Cont, AfterRemove, TypeOK
<1>. QED BY Zenon, <1>2, <1>3, <1>4, <1>5, <1>7, <1>8, <1>9, <1>10, <1>11

LEMMA ReapFacts ==
    ASSUME SchedulerInv, TableTypes, LifeInv, FamilyConsistent,
           NEW p \in Tasks, NEW q \in Tasks, ReapStep(p, q)
    PROVE  /\ pc[Bsp] = "run" /\ pc'[Bsp] = "remove" /\ todo'[Bsp] = {q}
           /\ UNCHANGED <<status, queue, cur, waiters>>
           /\ p # q /\ cur[Bsp] = p /\ InTable(p) /\ InTable(q) /\ parent[q] = p
           /\ status[q] = "Exited" /\ pstat'[q] = "Reaped"
           /\ \A t \in Tasks \ {q} : pstat'[t] = pstat[t]
<1> USE OneCpu
<1>1. TypeOK
  BY Zenon DEF SchedulerInv, QueueInv
<1>2. /\ pc[Bsp] = "run" /\ cur[Bsp] = p /\ cur[Bsp] # q /\ status[q] = "Exited"
      /\ pc'[Bsp] = "remove" /\ todo'[Bsp] = {q}
      /\ UNCHANGED <<status, queue, cur, waiters>>
  BY Zenon, <1>1 DEF ReapStep, Runs, Reap, TypeOK
<1>3. InTable(p)
  BY Zenon, <1>2, RunnerRuns
<1>4. InTable(q) /\ parent[q] = p
  BY Zenon, <1>3 DEF ReapStep, FamilyConsistent
<1>5. pstat'[q] = "Reaped" /\ \A t \in Tasks \ {q} : pstat'[t] = pstat[t]
  BY Zenon DEF ReapStep, TableTypes
<1>. QED BY Zenon, <1>2, <1>3, <1>4, <1>5

LEMMA OrphanFacts ==
    ASSUME SchedulerInv, TableTypes, LifeInv, ActInv, NEW p \in Tasks, OrphanStep(p)
    PROVE  /\ pc[Bsp] = "run" /\ pc'[Bsp] = "remove_sched" /\ todo'[Bsp] = {p}
           /\ UNCHANGED <<queue, cur, waiters>>
           /\ cur[Bsp] = p /\ InTable(p) /\ parent[p] = NoTask
           /\ status[p] # "Unborn" /\ status'[p] = "Exited" /\ pstat'[p] = "Reaped"
           /\ \A t \in Tasks \ {p} : status'[t] = status[t] /\ pstat'[t] = pstat[t]
<1> USE OneCpu
<1>1. TypeOK
  BY Zenon DEF SchedulerInv, QueueInv
<1>2. /\ pc[Bsp] = "run" /\ cur[Bsp] = p
      /\ pc'[Bsp] = "remove_sched" /\ todo'[Bsp] = {p}
      /\ UNCHANGED <<queue, cur, waiters>>
      /\ status'[p] = "Exited" /\ \A t \in Tasks \ {p} : status'[t] = status[t]
  BY Zenon, <1>1 DEF OrphanStep, Runs, Terminate, AfterRemove, TypeOK
<1>3. InTable(p) /\ status[p] = "Running"
  BY Zenon, <1>2, RunnerRuns
<1>4. parent[p] = NoTask
  BY Zenon DEF OrphanStep, ActInv
<1>5. pstat'[p] = "Reaped" /\ \A t \in Tasks \ {p} : pstat'[t] = pstat[t]
  BY Zenon DEF OrphanStep, TableTypes
<1>. QED BY Zenon, <1>2, <1>3, <1>4, <1>5

LEMMA PollingFacts ==
    ASSUME SchedulerInv, TableTypes, LifeInv, WaitersInv, Polling
    PROVE  /\ UNCHANGED cur
           /\ pc'[Bsp] = "switch" => pc[Bsp] = "switch"
           /\ UNCHANGED <<queue, pc, todo>> \/ pc[Bsp] = "run"
           /\ \A t \in Tasks : /\ status'[t] = "Unborn" <=> status[t] = "Unborn"
                               /\ status[t] = "Exited" => status'[t] = "Exited"
                               /\ status[t] = "Exited" /\ ~Queued(t) => ~Queued(t)'
<1> USE OneCpu
<1>1. TypeOK /\ status \in [Tasks -> Statuses]
  BY Zenon DEF SchedulerInv, QueueInv, TypeOK
<1>2. CASE UNCHANGED vars
  <2>1. \A t : Queued(t)' <=> Queued(t)
    BY Zenon, <1>2, QueuedIn, QueuedInNext DEF vars
  <2>. QED BY Zenon, <1>2, <2>1 DEF vars
<1>3. CASE Yield(Bsp)
  <2>1. \A t : Queued(t)' <=> Queued(t)
    BY Zenon, <1>3, QueuedIn, QueuedInNext DEF Yield
  <2>. QED BY Zenon, <1>1, <1>3, <2>1 DEF Yield, TypeOK
<1>4. ASSUME NEW p \in Tasks, Runs(p), BlockCurrent(Bsp)
      PROVE  /\ UNCHANGED cur /\ pc[Bsp] = "run" /\ pc'[Bsp] = "flush"
             /\ \A t \in Tasks : /\ status'[t] = "Unborn" <=> status[t] = "Unborn"
                                 /\ status[t] = "Exited" => status'[t] = "Exited"
                                 /\ status[t] = "Exited" /\ ~Queued(t) => ~Queued(t)'
  <2>1. \A t : Queued(t)' <=> Queued(t)
    BY Zenon, <1>4, QueuedIn, QueuedInNext DEF BlockCurrent
  <2>2. status[p] = "Running" /\ cur[Bsp] = p
    BY Zenon, <1>4, RunnerRuns DEF Runs
  <2>. QED BY Zenon, <1>1, <1>4, <2>1, <2>2 DEF BlockCurrent, TypeOK
<1>5. ASSUME waiters # <<>>, Wake(Bsp, Head(waiters))
      PROVE  /\ UNCHANGED <<cur, pc>> /\ pc[Bsp] = "run"
             /\ \A t \in Tasks : /\ status'[t] = "Unborn" <=> status[t] = "Unborn"
                                 /\ status[t] = "Exited" => status'[t] = "Exited"
                                 /\ status[t] = "Exited" /\ ~Queued(t) => ~Queued(t)'
  <2>1. PICK w \in Tasks : w = Head(waiters)
    BY SMTT(30), <1>5, ListMembers DEF WaitersInv
  <2>2. /\ pc[Bsp] = "run" /\ status[w] = "Blocked"
        /\ EnqueueOnCpu(Bsp, w, [status EXCEPT ![w] = "Ready"])
        /\ UNCHANGED <<cur, pc>>
    BY Zenon, <1>5, <2>1 DEF Wake
  <2>3. "Ready" \in Statuses
    BY Zenon DEF Statuses
  <2>4. [status EXCEPT ![w] = "Ready"] \in [Tasks -> Statuses]
    BY Zenon, <1>1, <2>3
  <2>5. status'[w] = "Ready" /\ \A t \in Tasks \ {w} : status'[t] = status[t]
    BY Zenon, <1>1, <2>2 DEF EnqueueOnCpu, Schedulable
  <2>6. \A t \in Tasks : status[t] = "Exited" /\ ~Queued(t) => ~Queued(t)'
    BY Zenon, <1>1, <2>2, <2>4, EnqueueAdds
  <2>. QED BY Zenon, <2>2, <2>5, <2>6
<1>. QED BY Zenon, <1>2, <1>3, <1>4, <1>5 DEF Polling, vars

=============================================================================
