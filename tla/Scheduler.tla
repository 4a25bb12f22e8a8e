------------------------------ MODULE Scheduler ------------------------------
(***************************************************************************)
(* The scheduler of kernel/src/task/sched/mod.rs: one run queue per CPU, a *)
(* deferred-requeue list, work stealing and the context switch.            *)
(*                                                                         *)
(* A CPU is either executing kernel or user code outside the scheduler     *)
(* (pc "run"), or it is at one of the points inside an operation at which  *)
(* it holds no lock, or holds exactly one run-queue lock ("scan").  Every  *)
(* step below is one critical section of the code, so with several CPUs    *)
(* the steps interleave as the locks allow.                                *)
(*                                                                         *)
(* A process of this kernel has exactly one task (CLONE_THREAD is refused  *)
(* and Process::add_task is only called by spawn), so a task stands for    *)
(* its process too, and its identifier is its pid.                         *)
(***************************************************************************)
EXTENDS Naturals, Sequences

CONSTANTS
    NumCpus,      \* smp::cpu_count(), the run queues in use
    NumTasks,     \* bound on the number of tasks ever spawned
    NoTask,       \* the empty current-task slot of a CPU
    MayBlock      \* whether tasks may be blocked (stdin wait, SIGSTOP)

CPUs  == 0 .. NumCpus - 1
Tasks == 1 .. NumTasks

ASSUME CpuAssumption == NumCpus \in Nat \ {0}
ASSUME TaskAssumption == NumTasks \in Nat
ASSUME NoTaskAssumption == NoTask \notin Tasks
ASSUME BlockAssumption == MayBlock \in BOOLEAN

VARIABLES
    status,     \* Task.status; "Unborn" before the task is created
    queue,      \* RUNQUEUES[cpu].ready_queue
    deferred,   \* the entries of DEFERRED_REQUEUE with this cpu_id, in order
    cur,        \* Processor.current of each CPU
    running,    \* whose stack the CPU executes on; NoTask is the idle context
    idle_sp,    \* is IDLE_CONTEXT_SP_SLOTS[cpu] non-zero?
    pc,         \* where the CPU is
    off,        \* pick_next: distance of the slot being tried from the CPU's own
    left,       \* iterations left in the loop of pick_next_from_slot / steal_from_slot
    todo        \* tasks a signal still has to remove from or put on the run queues

vars == <<status, queue, deferred, cur, running, idle_sp, pc, off, left, todo>>

Statuses == {"Unborn", "Ready", "Running", "Switching", "Blocked", "Exited"}
Points   == {"run", "flush", "pick", "scan", "switch", "remove", "remove_sched", "wake"}

TypeOK ==
    /\ status \in [Tasks -> Statuses]
    /\ queue \in [CPUs -> Seq(Tasks)]
    /\ deferred \in [CPUs -> Seq(Tasks)]
    /\ cur \in [CPUs -> Tasks \cup {NoTask}]
    /\ running \in [CPUs -> Tasks \cup {NoTask}]
    /\ idle_sp \in [CPUs -> BOOLEAN]
    /\ pc \in [CPUs -> Points]
    /\ off \in [CPUs -> Nat]
    /\ left \in [CPUs -> Nat]
    /\ todo \in [CPUs -> SUBSET Tasks]

Init ==
    /\ status = [t \in Tasks |-> "Unborn"]
    /\ queue = [c \in CPUs |-> <<>>]
    /\ deferred = [c \in CPUs |-> <<>>]
    /\ cur = [c \in CPUs |-> NoTask]
    /\ running = [c \in CPUs |-> NoTask]
    /\ idle_sp = [c \in CPUs |-> FALSE]
    /\ pc = [c \in CPUs |-> "run"]
    /\ off = [c \in CPUs |-> 0]
    /\ left = [c \in CPUs |-> 0]
    /\ todo = [c \in CPUs |-> {}]

-----------------------------------------------------------------------------
(* The run queues. *)

Queued(t) == \E c \in CPUs : \E i \in DOMAIN queue[c] : queue[c][i] = t

\* The slot pick_next is trying: its own at offset 0, then the victims in turn.
Slot(c) == (c + off[c]) % NumCpus

\* A run queue is locked while some CPU is in the pop loop over it.
Unlocked(s) == \A d \in CPUs : ~(pc[d] = "scan" /\ Slot(d) = s)

\* The queue q without task t.  RunQueue holds a task at most once (QueuedOnce),
\* so retain() drops at most one entry.
Without(q, t) ==
    IF \E i \in DOMAIN q : q[i] = t
      THEN LET i == CHOOSE i \in DOMAIN q : q[i] = t
           IN  SubSeq(q, 1, i - 1) \o SubSeq(q, i + 1, Len(q))
      ELSE q

\* Mutant of Schedulable: exited tasks become ready again.
SchedulableEvenExited(st, t) == st[t] # "Running"

\* mark_task_ready_if_schedulable, evaluated on status st.
Schedulable(st, t) == st[t] \notin {"Exited", "Running"}

\* Mutants of EnqueueOnCpu: no search for the task in the run queues, and a push at
\* the front.
EnqueueNoSearch(c, t, st) ==
    /\ \A s \in CPUs : Unlocked(s)
    /\ Schedulable(st, t)
    /\ status' = [st EXCEPT ![t] = "Ready"]
    /\ queue' = [queue EXCEPT ![c] = Append(@, t)]

EnqueueAtFront(c, t, st) ==
    /\ \A s \in CPUs : Unlocked(s)
    /\ status' = IF Schedulable(st, t) THEN [st EXCEPT ![t] = "Ready"] ELSE st
    /\ queue' = IF Schedulable(st, t) /\ ~Queued(t) THEN [queue EXCEPT ![c] = <<t>> \o @] ELSE queue

\* enqueue_on_cpu, from a status st the caller may just have changed: mark the
\* task ready, and append it unless some run queue already holds it.
EnqueueOnCpu(c, t, st) ==
    /\ \A s \in CPUs : Unlocked(s)
    /\ IF Schedulable(st, t)
         THEN /\ status' = [st EXCEPT ![t] = "Ready"]
              /\ queue' = IF Queued(t) THEN queue
                          ELSE [queue EXCEPT ![c] = Append(@, t)]
         ELSE /\ status' = st
              /\ queue' = queue

-----------------------------------------------------------------------------
(* Operations of the code a CPU runs outside the scheduler. *)

\* spawn_kernel_thread_with_mm_mode_checked: a new task, Ready, on the caller's queue.
Spawn(c, t) ==
    /\ pc[c] = "run"
    /\ status[t] = "Unborn"
    /\ \A u \in Tasks : u < t => status[u] # "Unborn"
    /\ EnqueueOnCpu(c, t, [status EXCEPT ![t] = "Ready"])
    /\ UNCHANGED <<deferred, cur, running, idle_sp, pc, off, left, todo>>

\* A call of schedule() by a task that wants to go on later, or by the idle loop.
Yield(c) ==
    /\ pc[c] = "run"
    /\ pc' = [pc EXCEPT ![c] = "flush"]
    /\ UNCHANGED <<status, queue, deferred, cur, running, idle_sp, off, left, todo>>

\* exit_current_task followed by schedule().
ExitCurrentTask(c) ==
    /\ pc[c] = "run"
    /\ cur[c] # NoTask
    /\ status' = [status EXCEPT ![cur[c]] = "Exited"]
    /\ pc' = [pc EXCEPT ![c] = "flush"]
    /\ UNCHANGED <<queue, deferred, cur, running, idle_sp, off, left, todo>>

\* The current task blocks itself and calls schedule(); an exited task does not
\* block (enqueue_current_stdin_waiter).
BlockCurrent(c) ==
    /\ MayBlock
    /\ pc[c] = "run"
    /\ cur[c] # NoTask
    /\ status[cur[c]] # "Exited"
    /\ status' = [status EXCEPT ![cur[c]] = "Blocked"]
    /\ pc' = [pc EXCEPT ![c] = "flush"]
    /\ UNCHANGED <<queue, deferred, cur, running, idle_sp, off, left, todo>>

\* A blocked task becomes Ready and is queued (wake_stdin_waiters_if_ready).
Wake(c, t) ==
    /\ pc[c] = "run"
    /\ status[t] = "Blocked"
    /\ EnqueueOnCpu(c, t, [status EXCEPT ![t] = "Ready"])
    /\ UNCHANGED <<deferred, cur, running, idle_sp, pc, off, left, todo>>

\* After remove_tasks_by_pid the caller schedules iff its own process was hit.
AfterRemove(c, T) == IF cur[c] \in T THEN "remove_sched" ELSE "remove"

\* SIGTERM / SIGKILL to the processes T, or exit_current_process with T the
\* current one: all their tasks are Exited, then leave the run queues.
Terminate(c, T) ==
    /\ pc[c] = "run"
    /\ T # {}
    /\ \A t \in T : status[t] # "Unborn"
    /\ status' = [t \in Tasks |-> IF t \in T THEN "Exited" ELSE status[t]]
    /\ todo' = [todo EXCEPT ![c] = T]
    /\ pc' = [pc EXCEPT ![c] = AfterRemove(c, T)]
    /\ UNCHANGED <<queue, deferred, cur, running, idle_sp, off, left>>

\* SIGSTOP to the processes T: tasks that have not exited become Blocked.
Stop(c, T) ==
    /\ MayBlock
    /\ pc[c] = "run"
    /\ T # {}
    /\ \A t \in T : status[t] # "Unborn"
    /\ status' = [t \in Tasks |-> IF t \in T /\ status[t] # "Exited"
                                    THEN "Blocked" ELSE status[t]]
    /\ todo' = [todo EXCEPT ![c] = T]
    /\ pc' = [pc EXCEPT ![c] = AfterRemove(c, T)]
    /\ UNCHANGED <<queue, deferred, cur, running, idle_sp, off, left>>

\* Reaping a child: its task, which has exited, leaves the run queues.
Reap(c, t) ==
    /\ pc[c] = "run"
    /\ status[t] = "Exited"
    /\ cur[c] # t
    /\ todo' = [todo EXCEPT ![c] = {t}]
    /\ pc' = [pc EXCEPT ![c] = "remove"]
    /\ UNCHANGED <<status, queue, deferred, cur, running, idle_sp, off, left>>

\* remove_tasks_by_pid: only the run queues are searched, not DEFERRED_REQUEUE.
RemoveTasksByPid(c) ==
    /\ pc[c] \in {"remove", "remove_sched"}
    /\ \A s \in CPUs : Unlocked(s)
    /\ \/ \E t \in todo[c] :
            /\ queue' = [s \in CPUs |-> Without(queue[s], t)]
            /\ todo' = [todo EXCEPT ![c] = @ \ {t}]
            /\ pc' = pc
       \/ /\ todo[c] = {}
          /\ pc' = [pc EXCEPT ![c] = IF @ = "remove" THEN "run" ELSE "flush"]
          /\ UNCHANGED <<queue, todo>>
    /\ UNCHANGED <<status, deferred, cur, running, idle_sp, off, left>>

\* SIGCONT to the processes T: the tasks that are Blocked become Ready ...
Cont(c, T) ==
    /\ pc[c] = "run"
    /\ T # {}
    /\ \A t \in T : status[t] # "Unborn"
    /\ status' = [t \in Tasks |-> IF t \in T /\ status[t] = "Blocked"
                                    THEN "Ready" ELSE status[t]]
    /\ todo' = [todo EXCEPT ![c] = {t \in T : status[t] = "Blocked"}]
    /\ pc' = [pc EXCEPT ![c] = "wake"]
    /\ UNCHANGED <<queue, deferred, cur, running, idle_sp, off, left>>

\* ... and are queued, in pid order.
ContEnqueue(c) ==
    /\ pc[c] = "wake"
    /\ \/ \E t \in todo[c] :
            /\ \A u \in todo[c] : t <= u
            /\ EnqueueOnCpu(c, t, status)
            /\ todo' = [todo EXCEPT ![c] = @ \ {t}]
            /\ pc' = pc
       \/ /\ todo[c] = {}
          /\ pc' = [pc EXCEPT ![c] = "run"]
          /\ UNCHANGED <<status, queue, todo>>
    /\ UNCHANGED <<deferred, cur, running, idle_sp, off, left>>

-----------------------------------------------------------------------------
(* schedule(). *)

\* flush_deferred_requeue_for_current_cpu: this CPU's entries go back on its run
\* queue in order.  Only this CPU takes them, so taking them one at a time is
\* the same as taking the list at once.
Flush(c) ==
    /\ pc[c] = "flush"
    /\ \/ /\ deferred[c] # <<>>
          /\ EnqueueOnCpu(c, Head(deferred[c]), status)
          /\ deferred' = [deferred EXCEPT ![c] = Tail(@)]
          /\ UNCHANGED <<pc, off>>
       \/ /\ deferred[c] = <<>>
          /\ pc' = [pc EXCEPT ![c] = "pick"]
          /\ off' = [off EXCEPT ![c] = 0]
          /\ UNCHANGED <<status, queue, deferred>>
    /\ UNCHANGED <<cur, running, idle_sp, left, todo>>

\* Mutant of LockSlot: one iteration too few.
LockSlotOffByOne(c) ==
    /\ pc[c] = "pick"
    /\ Unlocked(Slot(c))
    /\ pc' = [pc EXCEPT ![c] = "scan"]
    /\ left' = [left EXCEPT ![c] = Len(queue[Slot(c)]) - 1]
    /\ UNCHANGED <<status, queue, deferred, cur, running, idle_sp, off, todo>>

\* pick_next_from_slot / steal_from_slot: lock the slot and read its length.
LockSlot(c) ==
    /\ pc[c] = "pick"
    /\ Unlocked(Slot(c))
    /\ pc' = [pc EXCEPT ![c] = "scan"]
    /\ left' = [left EXCEPT ![c] = Len(queue[Slot(c)])]
    /\ UNCHANGED <<status, queue, deferred, cur, running, idle_sp, off, todo>>

\* The own queue is popped at the front, a victim's at the back ...
Candidate(c) ==
    LET q == queue[Slot(c)] IN IF off[c] = 0 THEN q[1] ELSE q[Len(q)]

\* Mutant of Popped: a steal drops the front entry too.
PoppedFront(c) == Tail(queue[Slot(c)])

\* ... leaving this,
Popped(c) ==
    LET q == queue[Slot(c)] IN IF off[c] = 0 THEN Tail(q) ELSE SubSeq(q, 1, Len(q) - 1)

\* and a task that cannot run is pushed back at the other end.
Rotated(c) ==
    IF off[c] = 0 THEN Append(Popped(c), Candidate(c)) ELSE <<Candidate(c)>> \o Popped(c)

\* A queued task that is neither Ready nor Exited stays queued; an Exited one is dropped.
SkipCandidate(c) ==
    /\ pc[c] = "scan"
    /\ left[c] > 0
    /\ status[Candidate(c)] # "Ready"
    /\ queue' = [queue EXCEPT ![Slot(c)] =
                    IF status[Candidate(c)] = "Exited" THEN Popped(c) ELSE Rotated(c)]
    /\ left' = [left EXCEPT ![c] = @ - 1]
    /\ UNCHANGED <<status, deferred, cur, running, idle_sp, pc, off, todo>>

\* The task losing the CPU goes to the deferred list unless it exited or blocked.
Requeues(t) == t # NoTask /\ status[t] \notin {"Exited", "Blocked"}

\* status after `prev` was switched out, starting from st.
SwitchedOut(prev, st) == IF Requeues(prev) THEN [st EXCEPT ![prev] = "Switching"] ELSE st

\* enqueue_deferred_requeue of the task losing the CPU.
DeferPrev(c) == IF Requeues(cur[c]) THEN [deferred EXCEPT ![c] = Append(@, cur[c])] ELSE deferred

\* Mutant of Dispatch: the previous task goes straight back to the run queue.
DispatchRequeueNow(c) ==
    /\ pc[c] = "scan"
    /\ left[c] > 0
    /\ status[Candidate(c)] = "Ready"
    /\ queue' = [queue EXCEPT ![Slot(c)] =
                    IF Requeues(cur[c]) THEN Append(Popped(c), cur[c]) ELSE Popped(c)]
    /\ status' = [t \in Tasks |-> IF t = Candidate(c) THEN "Running"
                                 ELSE IF t = cur[c] /\ Requeues(t) THEN "Ready" ELSE status[t]]
    /\ cur' = [cur EXCEPT ![c] = Candidate(c)]
    /\ pc' = [pc EXCEPT ![c] = "switch"]
    /\ left' = [left EXCEPT ![c] = 0]
    /\ UNCHANGED <<deferred, running, idle_sp, off, todo>>

\* The candidate is Ready: it becomes Running and current, and the previous
\* current task is switched out.
Dispatch(c) ==
    /\ pc[c] = "scan"
    /\ left[c] > 0
    /\ status[Candidate(c)] = "Ready"
    /\ queue' = [queue EXCEPT ![Slot(c)] = Popped(c)]
    /\ status' = SwitchedOut(cur[c], [status EXCEPT ![Candidate(c)] = "Running"])
    /\ deferred' = DeferPrev(c)
    /\ cur' = [cur EXCEPT ![c] = Candidate(c)]
    /\ pc' = [pc EXCEPT ![c] = "switch"]
    /\ left' = [left EXCEPT ![c] = 0]
    /\ UNCHANGED <<running, idle_sp, off, todo>>

\* The slot has no task to run: try the next victim.
NextVictim(c) ==
    /\ pc[c] = "scan"
    /\ left[c] = 0
    /\ off[c] + 1 < NumCpus
    /\ off' = [off EXCEPT ![c] = @ + 1]
    /\ pc' = [pc EXCEPT ![c] = "pick"]
    /\ UNCHANGED <<status, queue, deferred, cur, running, idle_sp, left, todo>>

\* Mutants of IdleFallback: always return to the caller; switch even from the idle
\* context; forget to requeue the task that gives way.
IdleFallbackReturns(c) ==
    /\ pc[c] = "scan"
    /\ left[c] = 0
    /\ off[c] + 1 >= NumCpus
    /\ pc' = [pc EXCEPT ![c] = "run"]
    /\ UNCHANGED <<status, queue, deferred, cur, running, idle_sp, off, left, todo>>

IdleFallbackFromIdle(c) ==
    /\ pc[c] = "scan"
    /\ left[c] = 0
    /\ off[c] + 1 >= NumCpus
    /\ status' = SwitchedOut(cur[c], status)
    /\ deferred' = DeferPrev(c)
    /\ cur' = [cur EXCEPT ![c] = NoTask]
    /\ pc' = [pc EXCEPT ![c] = "switch"]
    /\ UNCHANGED <<queue, running, idle_sp, off, left, todo>>

IdleFallbackDrops(c) ==
    /\ pc[c] = "scan"
    /\ left[c] = 0
    /\ off[c] + 1 >= NumCpus
    /\ idle_sp[c] /\ cur[c] # NoTask
    /\ status' = SwitchedOut(cur[c], status)
    /\ cur' = [cur EXCEPT ![c] = NoTask]
    /\ pc' = [pc EXCEPT ![c] = "switch"]
    /\ UNCHANGED <<queue, deferred, running, idle_sp, off, left, todo>>

\* No slot has one.  A task goes back to the saved idle context; the idle
\* context itself, or a CPU that has none saved, just returns to the caller.
IdleFallback(c) ==
    /\ pc[c] = "scan"
    /\ left[c] = 0
    /\ off[c] + 1 >= NumCpus
    /\ IF idle_sp[c] /\ cur[c] # NoTask
         THEN /\ status' = SwitchedOut(cur[c], status)
              /\ deferred' = DeferPrev(c)
              /\ cur' = [cur EXCEPT ![c] = NoTask]
              /\ pc' = [pc EXCEPT ![c] = "switch"]
         ELSE /\ pc' = [pc EXCEPT ![c] = "run"]
              /\ UNCHANGED <<status, deferred, cur>>
    /\ UNCHANGED <<queue, running, idle_sp, off, left, todo>>

\* do_switch: save the context on this CPU, load the next one.
Switch(c) ==
    /\ pc[c] = "switch"
    /\ idle_sp' = [idle_sp EXCEPT ![c] = @ \/ running[c] = NoTask]
    /\ running' = [running EXCEPT ![c] = cur[c]]
    /\ pc' = [pc EXCEPT ![c] = "run"]
    /\ UNCHANGED <<status, queue, deferred, cur, off, left, todo>>

-----------------------------------------------------------------------------

\* The steps a CPU takes inside an operation it has started.
Continue(c) ==
    \/ RemoveTasksByPid(c)
    \/ ContEnqueue(c)
    \/ Flush(c)
    \/ LockSlot(c)
    \/ SkipCandidate(c)
    \/ Dispatch(c)
    \/ NextVictim(c)
    \/ IdleFallback(c)
    \/ Switch(c)

\* The operations a CPU may start.
Start(c) ==
    \/ Yield(c)
    \/ ExitCurrentTask(c)
    \/ BlockCurrent(c)
    \/ \E t \in Tasks : Spawn(c, t) \/ Wake(c, t) \/ Reap(c, t)
    \/ \E T \in SUBSET Tasks : Terminate(c, T) \/ Stop(c, T) \/ Cont(c, T)

Next == \E c \in CPUs : Continue(c) \/ Start(c)

Spec == Init /\ [][Next]_vars

\* A CPU that is inside an operation goes on: nothing blocks in the scheduler.
Fairness == \A c \in CPUs : WF_vars(Continue(c))

FairSpec == Spec /\ Fairness

-----------------------------------------------------------------------------
(* Properties. *)

\* No task is on a run queue twice, in one queue or in two: the dedupe of
\* enqueue_on_cpu survives steals, rotations and removals.
QueuedOnce ==
    \A c, d \in CPUs : \A i \in DOMAIN queue[c], j \in DOMAIN queue[d] :
        queue[c][i] = queue[d][j] => c = d /\ i = j

\* The context about to be loaded by do_switch is a saved one: no CPU is still
\* executing on the stack of the task being switched to, and the idle context is
\* only loaded after it was saved.  This is what DEFERRED_REQUEUE is for.
LoadsSavedContext ==
    \A c \in CPUs : pc[c] = "switch" =>
        IF cur[c] = NoTask THEN idle_sp[c] /\ running[c] # NoTask
        ELSE \A d \in CPUs : running[d] # cur[c]

\* Two CPUs never execute on the stack of one task.
OneRunner ==
    \A c, d \in CPUs : running[c] = running[d] /\ running[c] # NoTask => c = d

\* A live task that wants the CPU is never lost: Ready tasks are on a run queue
\* or about to be put there by a SIGCONT in progress, Switching tasks are on a
\* deferred list and Running tasks are some CPU's current task.
NoTaskLost ==
    \A t \in Tasks :
        /\ status[t] = "Ready" => Queued(t) \/ \E c \in CPUs : pc[c] = "wake" /\ t \in todo[c]
        /\ status[t] = "Switching" => \E c \in CPUs : \E i \in DOMAIN deferred[c] : deferred[c][i] = t
        /\ status[t] = "Running" => \E c \in CPUs : cur[c] = t

\* schedule() gives the CPU back only to a task that is Running: a task that
\* exited, was killed or blocked never returns from schedule() before it is woken.
\* (One CPU: with more, a task can be killed while it runs elsewhere.)
OnlyRunningRuns ==
    \A c \in CPUs : pc[c] = "run" /\ cur[c] # NoTask =>
        /\ running[c] = cur[c]
        /\ status[cur[c]] = "Running"

\* Exited is final: no wake-up, flush, SIGCONT or pick revives an exited task.
ExitedIsFinal ==
    [][\A t \in Tasks : status[t] = "Exited" => status'[t] = "Exited"]_vars

\* FIFO without starvation: if every CPU keeps calling schedule() (nothing preempts
\* the code it runs), a Ready task is eventually given a CPU, stopped or killed,
\* however many others yield, block and wake in between.
ReadyRuns ==
    (\A c \in CPUs : []<>(pc[c] = "flush")) =>
        \A t \in Tasks : status[t] = "Ready" ~> status[t] # "Ready"
=============================================================================
