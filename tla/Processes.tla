------------------------------ MODULE Processes ------------------------------
(***************************************************************************)
(* The process lifecycle of kernel/src/task: the process table, fork and   *)
(* vfork, exit and exit_group, wait4 and reaping, the signals, the stdin   *)
(* wait queue and the address-space references, on top of the scheduler.   *)
(*                                                                         *)
(* Only the boot CPU calls schedule() (the others halt in run_idle), and   *)
(* nothing preempts kernel code, so a handler runs without interleaving    *)
(* from one call of schedule() to the next.  Every handler below is the    *)
(* conjunction of an action of Scheduler on CPU 0 and of what it does to   *)
(* the process table.                                                      *)
(***************************************************************************)
EXTENDS Scheduler, FiniteSets

CONSTANTS
    MaxInput,   \* bound on the bytes waiting in the terminal
    Codes,      \* exit codes a program passes to exit
    Calls       \* the system calls the programs make

ASSUME OneCpuAssumption == NumCpus = 1
ASSUME InputAssumption == MaxInput \in Nat

Bsp == 0

InitMm == NoTask       \* init_mm; any other address space is named by the process it was cloned for
Mms    == Tasks \cup {InitMm}

VARIABLES
    pstat,          \* Process.status; "Unborn" / "Reaped" outside the process table
    parent,         \* Process.parent, NoTask for None
    children,       \* Process.children; pushed in pid order, so a set keeps the order
    exit_code,      \* Process.exit_code, "none" for None
    stop_reported,  \* Process.wait_stop_reported
    cont_pending,   \* Process.wait_continued_pending
    mm,             \* Process.mm
    mm_count,       \* Mm.mm_count of the address space cloned for a process; 0 when freed
    cr3,            \* the address space loaded on the boot CPU
    act,            \* what the process's own code is doing
    input,          \* bytes waiting in the terminal
    waiters,        \* STDIN_WAITERS
    session,        \* USER_SESSION_STATE
    shell,          \* the boot context: at its prompt, launching or attached to a session
    idle_phase      \* where it is in its loop around drive_runtime_once

procVars == <<pstat, parent, children, exit_code, stop_reported, cont_pending>>
mmVars   == <<mm, mm_count, cr3>>
ioVars   == <<input, waiters>>
bootVars == <<session, shell, idle_phase>>
allVars  == <<vars, procVars, mmVars, ioVars, bootVars, act>>

InTable(p) == pstat[p] \in {"Running", "Stopped", "Zombie"}

\* The options of wait4: which children, which events, and whether to block.
WaitOptions == {"stopped", "continued"}
WaitReqs == [of : {Tasks} \cup {{q} : q \in Tasks}, opts : {{}, WaitOptions}]

\* user: in ring 3 or at the start of a system call; wait, vfork and stdin are loops
\* that call schedule() until their condition holds; the rest is the beginning and
\* the two ends of the session supervisor, a kernel thread.
Acts == [op : {"user", "stdin", "supervise", "finish", "abort"}] \cup [op : {"wait"}, req : WaitReqs]
        \cup [op : {"vfork"}, child : Tasks]

\* "ok" is the 0 the supervisor exits with.
ExitCodes == Codes \cup {"none", "killed", "ok"}

ProcTypeOK ==
    /\ TypeOK
    /\ pstat \in [Tasks -> {"Unborn", "Running", "Stopped", "Zombie", "Reaped"}]
    /\ parent \in [Tasks -> Tasks \cup {NoTask}]
    /\ children \in [Tasks -> SUBSET Tasks]
    /\ exit_code \in [Tasks -> ExitCodes]
    /\ stop_reported \in [Tasks -> BOOLEAN]
    /\ cont_pending \in [Tasks -> BOOLEAN]
    /\ mm \in [Tasks -> Mms]
    /\ mm_count \in [Tasks -> Nat]
    /\ cr3 \in Mms
    /\ act \in [Tasks -> Acts]
    /\ input \in 0 .. MaxInput
    /\ waiters \in Seq(Tasks)
    /\ session \in {"idle", "starting", "running", "completed", "failed"}
    /\ shell \in {"prompt", "launching", "attached"}
    /\ idle_phase \in {"poll", "schedule", "check"}

ProcInit ==
    /\ Init
    /\ pstat = [p \in Tasks |-> "Unborn"]
    /\ parent = [p \in Tasks |-> NoTask]
    /\ children = [p \in Tasks |-> {}]
    /\ exit_code = [p \in Tasks |-> "none"]
    /\ stop_reported = [p \in Tasks |-> FALSE]
    /\ cont_pending = [p \in Tasks |-> FALSE]
    /\ mm = [p \in Tasks |-> InitMm]
    /\ mm_count = [p \in Tasks |-> 0]
    /\ cr3 = InitMm
    /\ act = [p \in Tasks |-> [op |-> "user"]]
    /\ input = 0
    /\ waiters = <<>>
    /\ session = "idle"
    /\ shell = "prompt"
    /\ idle_phase = "poll"

\* The code of process p is running, outside the scheduler, and is doing op.
Doing(p, op) == pc[Bsp] = "run" /\ cur[Bsp] = p /\ act[p].op = op

\* The boot context, which is the idle context of the scheduler, is running.
Idling == pc[Bsp] = "run" /\ cur[Bsp] = NoTask

-----------------------------------------------------------------------------
(* Address-space references: mm_retain, mm_clone, mm_release. *)

\* Mutant of MmRelease: the freed address space stays loaded.
MmReleaseKeepsCr3(m) ==
    /\ mm_count' = [mm_count EXCEPT ![m] = @ - 1]
    /\ UNCHANGED cr3

\* The address space m loses one reference; the last one frees it, and a CPU that
\* has it loaded moves to init_mm first.
MmRelease(m) ==
    IF m = InitMm
      THEN UNCHANGED <<mm_count, cr3>>
      ELSE /\ mm_count' = [mm_count EXCEPT ![m] = @ - 1]
           /\ cr3' = IF mm_count[m] <= 1 /\ cr3 = m THEN InitMm ELSE cr3

\* Mutant of ChildMm: sharing takes no reference.
ChildMmNoRetain(q, m, private) ==
    /\ mm' = [mm EXCEPT ![q] = IF private THEN q ELSE m]
    /\ mm_count' = IF private THEN [mm_count EXCEPT ![q] = 1] ELSE mm_count
    /\ cr3' = cr3

\* InheritShared takes a reference on the parent's, a private mode makes a copy.
ChildMm(q, m, private) ==
    /\ mm' = [mm EXCEPT ![q] = IF private THEN q ELSE m]
    /\ mm_count' = IF private THEN [mm_count EXCEPT ![q] = 1]
                   ELSE IF m = InitMm THEN mm_count
                   ELSE [mm_count EXCEPT ![m] = @ + 1]
    /\ cr3' = cr3

-----------------------------------------------------------------------------
(* Process creation. *)

\* spawn_kernel_thread_with_mm_mode_checked for a parent p (NoTask: the idle
\* context, whose threads have no parent).
SpawnProcess(p, q, private) ==
    /\ Spawn(Bsp, q)
    /\ pstat' = [pstat EXCEPT ![q] = "Running"]
    /\ parent' = [parent EXCEPT ![q] = p]
    /\ children' = IF p # NoTask /\ InTable(p)
                     THEN [children EXCEPT ![p] = @ \cup {q}] ELSE children
    /\ ChildMm(q, IF p = NoTask THEN InitMm ELSE mm[p], private)
    /\ UNCHANGED <<exit_code, stop_reported, cont_pending, ioVars>>

\* fork, or clone with no flags but the exit signal.
Fork(p, q) ==
    /\ Doing(p, "user")
    /\ SpawnProcess(p, q, TRUE)
    /\ UNCHANGED <<bootVars, act>>

\* vfork: the child shares the parent's address space, and the parent waits.
Vfork(p, q) ==
    /\ Doing(p, "user")
    /\ SpawnProcess(p, q, FALSE)
    /\ act' = [act EXCEPT ![p] = [op |-> "vfork", child |-> q]]
    /\ UNCHANGED bootVars

-----------------------------------------------------------------------------
(* Exit and signals. *)

\* mark_exiting and mark_zombie of the processes T.
MarkZombie(T, code) ==
    /\ pstat' = [p \in Tasks |-> IF p \in T THEN "Zombie" ELSE pstat[p]]
    /\ exit_code' = [p \in Tasks |-> IF p \in T THEN code ELSE exit_code[p]]
    /\ stop_reported' = [p \in Tasks |-> p \notin T /\ stop_reported[p]]
    /\ cont_pending' = [p \in Tasks |-> p \notin T /\ cont_pending[p]]

\* exit (a process has one task, so it is the last one) or exit_group: a zombie
\* until the parent waits for it (every user process has a parent).
Exit(p, code) ==
    /\ Doing(p, "user")
    /\ ExitCurrentTask(Bsp) \/ Terminate(Bsp, {p})
    /\ MarkZombie({p}, code)
    /\ UNCHANGED <<parent, children, mmVars, ioVars, bootVars, act>>

\* collect_kill_targets yields one process, a group, or all: some processes of the table.
KillTargets == {T \in SUBSET Tasks : T # {} /\ \A q \in T : InTable(q)}

\* kill with SIGTERM or SIGKILL.
Kill(p, T) ==
    /\ Doing(p, "user")
    /\ Terminate(Bsp, T)
    /\ MarkZombie(T, "killed")
    /\ UNCHANGED <<parent, children, mmVars, ioVars, bootVars, act>>

\* kill with SIGSTOP: mark_stopped.
StopProcesses(p, T) ==
    /\ Doing(p, "user")
    /\ Stop(Bsp, T)
    /\ pstat' = [q \in Tasks |-> IF q \in T THEN "Stopped" ELSE pstat[q]]
    /\ stop_reported' = [q \in Tasks |-> q \notin T /\ stop_reported[q]]
    /\ cont_pending' = [q \in Tasks |-> q \notin T /\ cont_pending[q]]
    /\ UNCHANGED <<parent, children, exit_code, mmVars, ioVars, bootVars, act>>

\* kill with SIGCONT: mark_continued.
ContProcesses(p, T) ==
    /\ Doing(p, "user")
    /\ Cont(Bsp, T)
    /\ pstat' = [q \in Tasks |-> IF q \in T THEN "Running" ELSE pstat[q]]
    /\ stop_reported' = [q \in Tasks |-> q \notin T /\ stop_reported[q]]
    /\ cont_pending' = [q \in Tasks |-> q \in T \/ cont_pending[q]]
    /\ UNCHANGED <<parent, children, exit_code, mmVars, ioVars, bootVars, act>>

-----------------------------------------------------------------------------
(* wait4 and vfork: loops over an observation of the children. *)

\* wait_child_observe_by_target_with_options, for one child.
Event(q, opts) ==
    IF pstat[q] = "Zombie" THEN "exited"
    ELSE IF "stopped" \in opts /\ pstat[q] = "Stopped" /\ ~stop_reported[q] THEN "stopped"
    ELSE IF "continued" \in opts /\ cont_pending[q] THEN "continued"
    ELSE "none"

Candidates(p, req) == children[p] \cap req.of

\* The first child, in the order of Process.children, that has an event.
Observed(p, q, req) ==
    /\ q \in Candidates(p, req)
    /\ Event(q, req.opts) # "none"
    /\ \A r \in Candidates(p, req) : r < q => Event(r, req.opts) = "none"

\* p calls wait4 with req, or comes back to its loop after schedule().
Waiting(p, req) ==
    \/ Doing(p, "user") /\ req \in WaitReqs
    \/ Doing(p, "wait") /\ req = act[p].req

\* A call returns to user mode.
Return(p) == act' = [act EXCEPT ![p] = [op |-> "user"]]

\* wait_event_by_target returns, to wait4 or to the supervisor (which has no parent).
WaitReturn(p, op) == act' = [act EXCEPT ![p] = [op |-> IF parent[p] = NoTask THEN op ELSE "user"]]

\* Mutants of WaitReap: the address space is not released; the parent keeps the child.
WaitReapLeaksMm(p, req, q) ==
    /\ Waiting(p, req)
    /\ Observed(p, q, req)
    /\ Event(q, req.opts) = "exited"
    /\ Reap(Bsp, q)
    /\ pstat' = [pstat EXCEPT ![q] = "Reaped"]
    /\ children' = [children EXCEPT ![p] = @ \ {q}]
    /\ WaitReturn(p, "finish")
    /\ UNCHANGED <<parent, exit_code, stop_reported, cont_pending, mmVars, ioVars, bootVars>>

WaitReapKeepsChild(p, req, q) ==
    /\ Waiting(p, req)
    /\ Observed(p, q, req)
    /\ Event(q, req.opts) = "exited"
    /\ Reap(Bsp, q)
    /\ pstat' = [pstat EXCEPT ![q] = "Reaped"]
    /\ MmRelease(mm[q])
    /\ WaitReturn(p, "finish")
    /\ UNCHANGED <<parent, children, exit_code, stop_reported, cont_pending, mm, ioVars, bootVars>>

\* The child is a zombie: reap_observed_child removes it from the table, from the
\* parent's list and from the run queues, and drops its address space.
WaitReap(p, req, q) ==
    /\ Waiting(p, req)
    /\ Observed(p, q, req)
    /\ Event(q, req.opts) = "exited"
    /\ Reap(Bsp, q)
    /\ pstat' = [pstat EXCEPT ![q] = "Reaped"]
    /\ children' = [children EXCEPT ![p] = @ \ {q}]
    /\ MmRelease(mm[q])
    /\ WaitReturn(p, "finish")
    /\ UNCHANGED <<parent, exit_code, stop_reported, cont_pending, mm, ioVars, bootVars>>

\* The child has stopped or continued: the event is consumed.
WaitConsume(p, req, q) ==
    /\ Waiting(p, req)
    /\ Observed(p, q, req)
    /\ \/ /\ Event(q, req.opts) = "stopped"
          /\ stop_reported' = [stop_reported EXCEPT ![q] = TRUE]
          /\ UNCHANGED cont_pending
       \/ /\ Event(q, req.opts) = "continued"
          /\ cont_pending' = [cont_pending EXCEPT ![q] = FALSE]
          /\ UNCHANGED stop_reported
    /\ WaitReturn(p, "abort")
    /\ UNCHANGED <<vars, pstat, parent, children, exit_code, mmVars, ioVars, bootVars>>

\* No child matches any more: ECHILD.
WaitNoChild(p, req) ==
    /\ Waiting(p, req)
    /\ Candidates(p, req) = {}
    /\ WaitReturn(p, "abort")
    /\ UNCHANGED <<vars, procVars, mmVars, ioVars, bootVars>>

\* Mutant of WaitBlock: the parent blocks, and nobody wakes it.
WaitBlockForGood(p, req) ==
    /\ Waiting(p, req)
    /\ Candidates(p, req) # {}
    /\ \A q \in Candidates(p, req) : Event(q, req.opts) = "none"
    /\ BlockCurrent(Bsp)
    /\ act' = [act EXCEPT ![p] = [op |-> "wait", req |-> req]]
    /\ UNCHANGED <<procVars, mmVars, ioVars, bootVars>>

\* Nothing to report: schedule(), then look again.
WaitBlock(p, req) ==
    /\ Waiting(p, req)
    /\ Candidates(p, req) # {}
    /\ \A q \in Candidates(p, req) : Event(q, req.opts) = "none"
    /\ Yield(Bsp)
    /\ act' = [act EXCEPT ![p] = [op |-> "wait", req |-> req]]
    /\ UNCHANGED <<procVars, mmVars, ioVars, bootVars>>

\* wait_for_vfork_release: until the child is a zombie or no child any more.
VforkPoll(p) ==
    /\ Doing(p, "vfork")
    /\ IF act[p].child \in children[p] /\ pstat[act[p].child] # "Zombie"
         THEN Yield(Bsp) /\ UNCHANGED act
         ELSE Return(p) /\ UNCHANGED vars
    /\ UNCHANGED <<procVars, mmVars, ioVars, bootVars>>

-----------------------------------------------------------------------------
(* Terminal input. *)

\* A byte arrives (interrupt context, external).
InputArrives ==
    /\ input < MaxInput
    /\ input' = input + 1
    /\ UNCHANGED <<vars, procVars, mmVars, waiters, bootVars, act>>

IsWaiter(p) == \E i \in DOMAIN waiters : waiters[i] = p

\* Mutant of Enqueued: no search for the token.
EnqueuedAgain(p) == Append(waiters, p)

\* WaitQueue::enqueue_mode: a token that waits already is not added again.
Enqueued(p) == IF IsWaiter(p) THEN waiters ELSE Append(waiters, p)

\* sys_read on fd 0, first call or after a wake-up: a byte is there ...
ReadStdin(p) ==
    /\ Doing(p, "user") \/ Doing(p, "stdin")
    /\ input > 0
    /\ input' = input - 1
    /\ waiters' = Without(waiters, p)
    /\ Return(p)
    /\ UNCHANGED <<vars, procVars, mmVars, bootVars>>

\* ... or none is: enqueue_current_stdin_waiter and schedule().
BlockOnStdin(p) ==
    /\ Doing(p, "user") \/ Doing(p, "stdin")
    /\ input = 0
    /\ BlockCurrent(Bsp)
    /\ waiters' = Enqueued(p)
    /\ act' = [act EXCEPT ![p] = [op |-> "stdin"]]
    /\ UNCHANGED <<procVars, mmVars, input, bootVars>>

-----------------------------------------------------------------------------
(* The boot context and the user session (kernel/src/shell/bootstrap.rs). *)

\* The kernel shell takes a byte at its prompt.
ShellReads ==
    /\ Idling
    /\ shell = "prompt"
    /\ input > 0
    /\ input' = input - 1
    /\ UNCHANGED <<vars, procVars, mmVars, waiters, bootVars, act>>

\* launch_user_session: a supervisor thread in a private copy of init_mm.  It is
\* refused while a session is starting or running.
Launch(q) ==
    /\ Idling
    /\ shell = "prompt"
    /\ session \notin {"starting", "running"}
    /\ SpawnProcess(NoTask, q, TRUE)
    /\ act' = [act EXCEPT ![q] = [op |-> "supervise"]]
    /\ session' = "starting"
    /\ shell' = "launching"
    /\ idle_phase' = "poll"

\* The thread cannot be created: there is no memory to clone init_mm.
LaunchFails ==
    /\ Idling
    /\ shell = "prompt"
    /\ session \notin {"starting", "running"}
    /\ session' = "failed"
    /\ UNCHANGED <<vars, procVars, mmVars, ioVars, shell, idle_phase, act>>

\* wake_stdin_waiters_if_ready: the task still exists and is Blocked.
Wakeable(t) == InTable(t) /\ status[t] = "Blocked"

\* Mutant of IdlePoll: one waiter is woken, but the queue is emptied.
IdlePollDrains ==
    /\ Idling
    /\ shell # "prompt"
    /\ idle_phase = "poll"
    /\ idle_phase' = "schedule"
    /\ IF input > 0 /\ waiters # <<>>
         THEN /\ waiters' = <<>>
              /\ IF Wakeable(Head(waiters)) THEN Wake(Bsp, Head(waiters)) ELSE UNCHANGED vars
         ELSE UNCHANGED <<vars, waiters>>
    /\ UNCHANGED <<procVars, mmVars, input, session, shell, act>>

\* Mutant of IdlePoll: a waiter that cannot be woken keeps its place.
IdlePollKeepsDead ==
    /\ Idling
    /\ shell # "prompt"
    /\ idle_phase = "poll"
    /\ idle_phase' = "schedule"
    /\ IF input > 0 /\ waiters # <<>> /\ Wakeable(Head(waiters))
         THEN waiters' = Tail(waiters) /\ Wake(Bsp, Head(waiters))
         ELSE UNCHANGED <<vars, waiters>>
    /\ UNCHANGED <<procVars, mmVars, input, session, shell, act>>

\* drive_runtime_once: with input pending the first waiter is taken off the queue,
\* and made Ready if it can be ...
IdlePoll ==
    /\ Idling
    /\ shell # "prompt"
    /\ idle_phase = "poll"
    /\ idle_phase' = "schedule"
    /\ IF input > 0 /\ waiters # <<>>
         THEN /\ waiters' = Tail(waiters)
              /\ IF Wakeable(Head(waiters)) THEN Wake(Bsp, Head(waiters)) ELSE UNCHANGED vars
         ELSE UNCHANGED <<vars, waiters>>
    /\ UNCHANGED <<procVars, mmVars, input, session, shell, act>>

\* ... then it calls schedule().
IdleSchedule ==
    /\ Idling
    /\ shell # "prompt"
    /\ idle_phase = "schedule"
    /\ idle_phase' = "check"
    /\ Yield(Bsp)
    /\ UNCHANGED <<procVars, mmVars, ioVars, session, shell, act>>

\* Back from drive_runtime_once, the loop looks at the session state.  (The limit of
\* 4096 rounds on the launch is not modelled: LaunchSettles shows that the first
\* round is the last.)
IdleCheck ==
    /\ Idling
    /\ shell # "prompt"
    /\ idle_phase = "check"
    /\ idle_phase' = IF shell = "launching" /\ session \in {"running", "completed"}
                       THEN "check" ELSE "poll"
    /\ \/ /\ shell = "launching"
          /\ shell' = CASE session \in {"running", "completed"} -> "attached"
                        [] session = "failed" -> "prompt"
                        [] OTHER -> "launching"
          /\ UNCHANGED session
       \/ /\ shell = "attached"
          /\ shell' = IF session \in {"starting", "running"} THEN "attached" ELSE "prompt"
          /\ session' = IF session \in {"starting", "running"} THEN session ELSE "idle"
    /\ UNCHANGED <<vars, procVars, mmVars, ioVars, act>>

\* Mutant of Supervise: the state stays STARTING.
SuperviseUnpublished(p, q) ==
    /\ Doing(p, "supervise")
    /\ SpawnProcess(p, q, TRUE)
    /\ act' = [act EXCEPT ![p] = [op |-> "wait", req |-> [of |-> {q}, opts |-> {}]]]
    /\ UNCHANGED bootVars

\* user_session_supervisor_entry: create the first user process and wait for it,
\* or give up if there is no memory.
Supervise(p, q) ==
    /\ Doing(p, "supervise")
    /\ SpawnProcess(p, q, TRUE)
    /\ act' = [act EXCEPT ![p] = [op |-> "wait", req |-> [of |-> {q}, opts |-> {}]]]
    /\ session' = "running"
    /\ UNCHANGED <<shell, idle_phase>>

SuperviseFails(p) ==
    /\ Doing(p, "supervise")
    /\ act' = [act EXCEPT ![p] = [op |-> "abort"]]
    /\ UNCHANGED <<vars, procVars, mmVars, ioVars, bootVars>>

\* Mutant of SessionResult: the state is not published.
SessionResultUnpublished(op) == session

\* What finish_supervisor stores in USER_SESSION_STATE.
SessionResult(op) == IF op = "finish" THEN "completed" ELSE "failed"

\* finish_supervisor: publish the result and exit.  The supervisor has no parent,
\* so reap_orphan_zombie_process takes it out of the table and drops its address
\* space while that is still the loaded one.
FinishSupervisor(p) ==
    /\ Doing(p, "finish") \/ Doing(p, "abort")
    /\ session' = SessionResult(act[p].op)
    /\ Terminate(Bsp, {p})
    /\ pstat' = [pstat EXCEPT ![p] = "Reaped"]
    /\ exit_code' = [exit_code EXCEPT ![p] = "ok"]
    /\ stop_reported' = [stop_reported EXCEPT ![p] = FALSE]
    /\ cont_pending' = [cont_pending EXCEPT ![p] = FALSE]
    /\ MmRelease(mm[p])
    /\ UNCHANGED <<parent, children, mm, ioVars, shell, idle_phase, act>>

-----------------------------------------------------------------------------

\* sys_poll / sys_select with a timeout: a loop around schedule().
PollYield(p) ==
    /\ Doing(p, "user")
    /\ Yield(Bsp)
    /\ UNCHANGED <<procVars, mmVars, ioVars, bootVars, act>>

\* task_mm_pgd: the address space of a task, init_mm if its process is gone.
TaskMm(t) == IF t # NoTask /\ InTable(t) THEN mm[t] ELSE InitMm

\* A step inside schedule() or a queue operation; the switch loads the address
\* space of the next context (switch_to_mm_pgd_if_needed).
KernelStep ==
    /\ Continue(Bsp)
    /\ cr3' = IF pc[Bsp] = "switch" THEN TaskMm(cur[Bsp]) ELSE cr3
    /\ UNCHANGED <<procVars, mm, mm_count, ioVars, bootVars, act>>

Wait4(p, req) ==
    \/ \E q \in Tasks : WaitReap(p, req, q) \/ WaitConsume(p, req, q)
    \/ WaitNoChild(p, req)
    \/ WaitBlock(p, req)

\* A process runs kernel code that loops until its condition holds, whatever
\* programs call.
Loop(p) ==
    \/ Doing(p, "wait") /\ Wait4(p, act[p].req)
    \/ VforkPoll(p)
    \/ Doing(p, "stdin") /\ (ReadStdin(p) \/ BlockOnStdin(p))

\* A program makes a system call that may change the state.
SystemCall(p) ==
    /\ Doing(p, "user")
    /\ \/ "fork" \in Calls /\ \E q \in Tasks : Fork(p, q)
       \/ "vfork" \in Calls /\ \E q \in Tasks : Vfork(p, q)
       \/ "exit" \in Calls /\ \E code \in Codes : Exit(p, code)
       \/ "kill" \in Calls /\ \E T \in KillTargets : Kill(p, T)
       \/ "stop" \in Calls /\ \E T \in KillTargets : StopProcesses(p, T) \/ ContProcesses(p, T)
       \/ "wait" \in Calls /\ \E req \in WaitReqs : Wait4(p, req)
       \/ "read" \in Calls /\ (ReadStdin(p) \/ BlockOnStdin(p))
       \/ "poll" \in Calls /\ PollYield(p)

Supervisor(p) ==
    \/ \E q \in Tasks : Supervise(p, q)
    \/ SuperviseFails(p)
    \/ FinishSupervisor(p)

BootContext ==
    \/ \E q \in Tasks : Launch(q)
    \/ LaunchFails
    \/ ShellReads
    \/ IdlePoll
    \/ IdleSchedule
    \/ IdleCheck

ProcNext ==
    \/ \E p \in Tasks : SystemCall(p) \/ Loop(p) \/ Supervisor(p)
    \/ BootContext
    \/ InputArrives
    \/ KernelStep

ProcSpec == ProcInit /\ [][ProcNext]_allVars

\* The kernel's own code goes on whenever it has the CPU: the steps of schedule(),
\* the idle loop, the supervisor, and the loops of wait4, vfork and read.
ProcFairness ==
    /\ WF_allVars(KernelStep)
    /\ WF_allVars(IdlePoll \/ IdleSchedule \/ IdleCheck)
    /\ \A p \in Tasks : WF_allVars(Loop(p) \/ Supervisor(p))

FairProcSpec == ProcSpec /\ ProcFairness

-----------------------------------------------------------------------------
(* Properties. *)

\* The two directions of the family relation agree for every process in the table:
\* its list of children holds exactly the table's processes whose parent it is, so
\* wait4 neither misses a child nor looks at one that is gone (add_child,
\* remove_child, reap_observed_child).
FamilyConsistent ==
    \A p \in Tasks : InTable(p) => children[p] = {q \in Tasks : InTable(q) /\ parent[q] = p}

\* mm_count is the number of processes in the table that use the address space:
\* no leak and no early free, whatever mix of fork, vfork, kill, wait4 and orphan
\* exits shares and drops it.
MmRefsExact ==
    \A m \in Tasks : mm_count[m] = Cardinality({p \in Tasks : InTable(p) /\ mm[p] = m})

\* The loaded page tables are never freed ones, and code of a process that is in
\* the table runs on that process's address space.
LoadedMm ==
    /\ cr3 # InitMm => mm_count[cr3] > 0
    /\ pc[Bsp] = "run" => cr3 = TaskMm(cur[Bsp])

\* A process that is a zombie or has been reaped has no live task: what wait4
\* reports as terminated executes no more code, and once it was reaped nothing of
\* it is left on a run queue.
TerminatedIsDead ==
    \A p \in Tasks :
        /\ pstat[p] \in {"Zombie", "Reaped"} => status[p] = "Exited"
        /\ pstat[p] = "Reaped" /\ pc[Bsp] = "run" => ~Queued(p) /\ cur[Bsp] # p

\* No lost wake-up: a process that is Blocked although nobody stopped it is in the
\* stdin wait queue, whatever signals and wake-ups crossed its read.
NoLostReader ==
    \A p \in Tasks : status[p] = "Blocked" /\ pstat[p] = "Running" => IsWaiter(p)

\* The stdin wait queue holds a task once: spurious wake-ups that come back to
\* enqueue_current_stdin_waiter do not make it grow.
WaitersOnce == \A i, j \in DOMAIN waiters : waiters[i] = waiters[j] => i = j

\* A launch is settled by its first call of schedule(): the new supervisor is the
\* next task to run, before any process of an earlier session could stop or kill it,
\* and it publishes RUNNING or FAILED before it gives up the CPU.  The time-out of
\* launch_user_session, which would leave the state at STARTING, never fires.
LaunchSettles ==
    Idling /\ shell = "launching" /\ idle_phase = "check" => session # "starting"

\* The program on the CPU calls into schedule() again and again (nothing preempts it).
CpuShared == []<>(pc[Bsp] = "flush")

\* p is in the loop of wait4 or vfork and its child has terminated.
ChildDone(p) ==
    \/ act[p].op = "wait" /\ \E q \in Candidates(p, act[p].req) : pstat[q] = "Zombie"
    \/ act[p].op = "vfork" /\ pstat[act[p].child] = "Zombie"

\* wait4 and vfork return: a parent whose child has terminated leaves its loop,
\* unless it is stopped or killed itself (or a signal revives the zombie), if no
\* program keeps the CPU for itself.
BlockedCallReturns ==
    CpuShared => \A p \in Tasks : ChildDone(p) ~> (~ChildDone(p) \/ pstat[p] = "Stopped" \/ status[p] = "Exited")

\* The idle context gets the CPU and goes round its loop again and again.
IdleRuns == []<>(Idling /\ shell # "prompt" /\ idle_phase = "poll")

\* p is blocked in read, nobody has stopped it, and there is input.
InputWaits(p) == status[p] = "Blocked" /\ pstat[p] = "Running" /\ input > 0

\* A reader that nobody has stopped does not sleep on while there is input, whoever
\* is in front of it in the stdin wait queue (killed and stopped readers stay there):
\* it is woken, or the input is taken by another, if the idle context gets the CPU
\* again and again, for only drive_runtime_once wakes readers.
ReaderWoken == IdleRuns => \A p \in Tasks : []<>~InputWaits(p)

\* The kernel shell gets its prompt back: once the first user process of a session
\* has terminated, the supervisor reaps it and the boot context leaves its loop,
\* unless a signal hits the supervisor, if the idle context gets the CPU at all.
SessionEnds ==
    CpuShared /\ IdleRuns =>
        (shell = "attached" /\ \E s \in Tasks : parent[s] = NoTask /\ ChildDone(s))
            ~> \/ shell = "prompt"
               \/ \E s \in Tasks :
                    /\ parent[s] = NoTask
                    /\ \/ pstat[s] = "Stopped"
                       \/ status[s] = "Exited" /\ pstat[s] # "Reaped"
                       \/ act[s].op = "wait" /\ ~ChildDone(s)

\* A stopped process does not run: procfs shows it as 'T' (stopped).
StoppedDoesNotRun ==
    \A p \in Tasks : pc[Bsp] = "run" /\ cur[Bsp] = p => pstat[p] # "Stopped"

\* A zombie stays one until its parent reaps it.
ZombieUntilReaped ==
    [][\A p \in Tasks : pstat[p] = "Zombie" => pstat'[p] \in {"Zombie", "Reaped"}]_allVars

=============================================================================
