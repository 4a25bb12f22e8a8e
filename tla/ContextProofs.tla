---------------------------- MODULE ContextProofs ----------------------------
(***************************************************************************)
(* Proofs about the contexts that do_switch saves and loads: the steps on  *)
(* the run queues and the deferred lists and the switch itself keep the    *)
(* invariant, and what follows for one CPU, or for tasks that do not       *)
(* block.                                                                  *)
(***************************************************************************)
EXTENDS SchedulerProofs

-----------------------------------------------------------------------------
(* The steps on the run queues and the deferred lists. *)

\* remove_tasks_by_pid only removes tasks that have exited or, on one CPU, blocked.
LEMMA RemoveStep ==
    ASSUME Confined, QueueInv, ContextInv, NEW c \in CPUs, RemoveTasksByPid(c)
    PROVE  ContextInv'
<1> USE DEF QueueInv, ContextInv
<1>1. /\ pc[c] \in {"remove", "remove_sched"}
      /\ UNCHANGED <<status, deferred, cur, running, idle_sp>>
  BY Zenon DEF RemoveTasksByPid
<1>2. /\ \A d \in CPUs \ {c} : pc'[d] = pc[d] /\ todo'[d] = todo[d]
      /\ todo'[c] \subseteq todo[c]
      /\ pc'[c] \in {pc[c], IF pc[c] = "remove" THEN "run" ELSE "flush"}
  BY DEF RemoveTasksByPid, TypeOK
<1>3. \A u \in Tasks : Queued(u) /\ status[u] = "Ready" => Queued(u)'
  <2>1. CASE queue' = queue
    BY Zenon, <2>1, QueuedIn, QueuedInNext
  <2>2. ASSUME NEW t \in todo[c], queue' = [s \in CPUs |-> Without(queue[s], t)]
        PROVE  \A u \in Tasks : Queued(u) /\ status[u] = "Ready" => Queued(u)'
    <3>1. t \in Tasks /\ status[t] # "Ready"
      BY <1>1, Zenon DEF TypeOK, TodoInv
    <3>2. \A s \in CPUs, u \in Tasks : In(queue[s], u) /\ u # t => In(queue'[s], u)
      <4> TAKE s \in CPUs
      <4>1. queue[s] \in Seq(Tasks) /\ Distinct(queue[s]) /\ queue'[s] = Without(queue[s], t)
        BY Zenon, <2>2 DEF TypeOK, Once
      <4>. QED BY <3>1, <4>1, WithoutTask
    <3>. QED BY Zenon, <3>1, <3>2, QueuedIn, QueuedInNext
  <2>. QED BY Zenon, <2>1, <2>2 DEF RemoveTasksByPid
<1>4. StackInv' /\ AwayInv'
  BY SMTT(30), <1>1, <1>2 DEF StackInv, AwayInv
<1>5. PlaceInv'
  BY <1>1, <1>2, <1>3 DEF PlaceInv
<1>6. DeferredInv'
  <2>1. /\ \A d \in CPUs : pc[d] = "switch" => pc'[d] = "switch"
        /\ \A d \in CPUs : pc'[d] \in {"pick", "scan"} => pc[d] \in {"pick", "scan"} \/ deferred[d] = <<>>
    BY Zenon, <1>1, <1>2
  <2>2. ~MayBlock => \A u \in Tasks : status[u] \in {"Switching", "Exited"} => status'[u] \in {status[u], "Exited"}
    BY Zenon, <1>1
  <2>3. deferred' = deferred /\ cur' = cur /\ running' = running
    BY Zenon, <1>1
  <2>. QED BY <2>1, <2>2, <2>3, DeferredFrame, Zenon
<1>7. TodoInv' /\ SoloInv'
  BY <1>1, <1>2 DEF TodoInv, SoloInv
<1>. QED BY Zenon, <1>4, <1>5, <1>6, <1>7

\* A deferred task is requeued only after the switch away from it.
LEMMA FlushStep ==
    ASSUME Confined, QueueInv, ContextInv, NEW c \in CPUs, Flush(c)
    PROVE  ContextInv'
<1> USE DEF QueueInv, ContextInv
<1>1. pc[c] = "flush" /\ UNCHANGED <<cur, running, idle_sp, todo>>
  BY Zenon DEF Flush
<1>2. CASE deferred[c] = <<>>
  <2>1. pc' = [pc EXCEPT ![c] = "pick"] /\ UNCHANGED <<status, queue, deferred>>
    BY Zenon, <1>2 DEF Flush
  <2>2. pc'[c] = "pick" /\ \A d \in CPUs \ {c} : pc'[d] = pc[d]
    BY Zenon, <2>1 DEF TypeOK
  <2>3. \A t : Queued(t)' <=> Queued(t)
    BY Zenon, <2>1, QueuedIn, QueuedInNext
  <2>4. StackInv' /\ AwayInv'
    BY SMTT(30), <1>1, <2>1, <2>2 DEF StackInv, AwayInv
  <2>5. PlaceInv'
    BY Zenon, <1>1, <2>1, <2>2, <2>3 DEF PlaceInv
  <2>6. DeferredInv'
    <3>1. /\ \A d \in CPUs : pc[d] = "switch" => pc'[d] = "switch"
          /\ \A d \in CPUs : pc'[d] \in {"pick", "scan"} => pc[d] \in {"pick", "scan"} \/ deferred[d] = <<>>
      BY Zenon, <1>1, <1>2, <2>2
    <3>2. ~MayBlock => \A u \in Tasks : status[u] \in {"Switching", "Exited"} => status'[u] \in {status[u], "Exited"}
      BY Zenon, <2>1
    <3>3. deferred' = deferred /\ cur' = cur /\ running' = running
      BY Zenon, <1>1, <2>1
    <3>. QED BY <3>1, <3>2, <3>3, DeferredFrame, Zenon
  <2>7. TodoInv' /\ SoloInv'
    BY Zenon, <1>1, <2>1, <2>2 DEF TodoInv, SoloInv
  <2>. QED BY Zenon, <2>4, <2>5, <2>6, <2>7
<1>3. CASE deferred[c] # <<>>
  <2>0. PICK t, r : t = Head(deferred[c]) /\ r = Tail(deferred[c])
    BY Zenon
  <2>1. /\ t \in Tasks /\ In(deferred[c], t) /\ Distinct(r)
        /\ \A u : In(r, u) <=> In(deferred[c], u) /\ u # t
    <3>1. deferred[c] \in Seq(Tasks) /\ Distinct(deferred[c])
      BY Zenon DEF TypeOK, DeferredInv
    <3>2. Len(deferred[c]) > 0 /\ t = deferred[c][1]
      BY <1>3, <2>0, <3>1
    <3>. QED BY Zenon, <2>0, <3>1, <3>2, PopFront
  <2>2. /\ EnqueueOnCpu(c, t, status) /\ UNCHANGED <<pc, off>>
        /\ deferred' = [deferred EXCEPT ![c] = r]
    BY Zenon, <1>3, <2>0 DEF Flush
  <2>3. deferred'[c] = r /\ \A d \in CPUs \ {c} : deferred'[d] = deferred[d]
    BY Zenon, <2>2 DEF TypeOK
  <2>4. /\ \A u \in Tasks \ {t} : status'[u] = status[u]
        /\ status'[t] = IF Schedulable(status, t) THEN "Ready" ELSE status[t]
    BY Zenon, <2>1, <2>2 DEF EnqueueOnCpu, Schedulable, TypeOK
  <2>5. /\ \A u \in Tasks : Queued(u) => Queued(u)'
        /\ Schedulable(status, t) => Queued(t)'
    BY Zenon, <2>1, <2>2, EnqueueQueue DEF TypeOK
  <2>6. \A d \in CPUs : cur[d] # t /\ running[d] # t /\ ~In(deferred'[d], t)
    <3> TAKE d \in CPUs
    <3>1. cur[d] # t /\ ~(running[d] = t)
      BY <1>1, <2>1, ZenonT(40) DEF DeferredInv
    <3>2. ~In(deferred'[d], t)
      <4>1. CASE d = c
        BY Zenon, <2>1, <2>3, <4>1
      <4>2. CASE d # c
        BY <2>1, <2>3, <4>2, Zenon DEF DeferredInv
      <4>. QED BY Zenon, <4>1, <4>2
    <3>. QED BY Zenon, <3>1, <3>2
  <2>7. \A d \in CPUs, u \in Tasks : In(deferred'[d], u) => In(deferred[d], u)
    BY Zenon, <2>1, <2>3
  <2>8. status[t] # "Unborn" /\ status'[t] \in {"Ready", "Exited", "Running"}
    BY Zenon, <2>1, <2>4 DEF AwayInv, Schedulable
  <2>9. StackInv'
    BY Zenon, <1>1, <2>2 DEF StackInv
  <2>10. AwayInv'
    BY Zenon, <1>1, <2>1, <2>4, <2>6, <2>7, <2>8 DEF AwayInv
  <2>11. PlaceInv'
    <3>1. ASSUME NEW u \in Tasks, status'[u] = "Ready"
          PROVE  Queued(u)' \/ \E d \in CPUs : pc'[d] = "wake" /\ u \in todo'[d]
      <4>1. CASE u = t /\ Schedulable(status, t)
        BY Zenon, <2>5, <4>1
      <4>2. CASE status[u] = "Ready"
        BY Zenon, <1>1, <2>2, <2>5, <4>2 DEF PlaceInv
      <4>. QED BY Zenon, <2>4, <3>1, <4>1, <4>2
    <3>2. ASSUME NEW u \in Tasks, status'[u] = "Switching"
          PROVE  \E d \in CPUs : In(deferred'[d], u)
      <4>1. u # t /\ status[u] = "Switching"
        BY Zenon, <2>4, <2>8, <3>2
      <4>2. PICK d \in CPUs : In(deferred[d], u)
        BY Zenon, <4>1 DEF PlaceInv
      <4>3. In(deferred'[d], u)
        BY Zenon, <2>1, <2>3, <4>1, <4>2
      <4>. QED BY Zenon, <4>3
    <3>3. ASSUME NEW u \in Tasks, status'[u] = "Running"
          PROVE  \E d \in CPUs : cur'[d] = u
      <4>1. status[u] = "Running"
        BY Zenon, <2>4, <3>3
      <4>. QED BY Zenon, <1>1, <4>1 DEF PlaceInv
    <3>. QED BY Zenon, <3>1, <3>2, <3>3 DEF PlaceInv
  <2>12. DeferredInv'
    <3>1. \A d \in CPUs : Distinct(deferred'[d])
      BY Zenon, <2>1, <2>3 DEF DeferredInv
    <3>2. \A d \in CPUs : pc'[d] \in {"pick", "scan"} => deferred'[d] = <<>>
      BY Zenon, <1>1, <2>2, <2>3 DEF DeferredInv
    <3>3. ~MayBlock => \A d \in CPUs, u \in Tasks :
             In(deferred'[d], u) => status'[u] \in {"Switching", "Exited"}
      BY SMTT(30), <2>4, <2>6, <2>7 DEF DeferredInv
    <3>4. \A d, e \in CPUs, u \in Tasks : In(deferred'[d], u) =>
             /\ In(deferred'[e], u) => d = e
             /\ cur'[e] # u /\ (running'[e] = u => e = d /\ pc'[d] = "switch")
      BY SMTT(30), <1>1, <2>2, <2>7 DEF DeferredInv
    <3>. QED BY SMTT(30), <3>1, <3>2, <3>3, <3>4 DEF DeferredInv
  <2>13. TodoInv'
    <3>1. ASSUME NEW d \in CPUs, pc[d] \in {"remove", "remove_sched", "wake"}, t \in todo[d]
          PROVE  status[t] = "Exited"
      BY Zenon, <1>1, <2>1, <3>1 DEF TodoInv, Solo
    <3>2. \A d \in CPUs, u \in Tasks : pc[d] \in {"remove", "remove_sched", "wake"} /\ u \in todo[d] =>
             status'[u] = status[u]
      BY Zenon, <2>4, <3>1 DEF Schedulable
    <3>. QED BY Zenon, <1>1, <2>2, <3>2 DEF TodoInv
  <2>14. SoloInv'
    BY Zenon, <1>1, <2>2 DEF SoloInv, Solo
  <2>. QED BY Zenon, <2>9, <2>10, <2>11, <2>12, <2>13, <2>14
<1>. QED BY Zenon, <1>2, <1>3

\* Looking for a task: only Exited ones are dropped from a run queue.
LEMMA SearchStep ==
    ASSUME Confined, QueueInv, ContextInv, NEW c \in CPUs,
           LockSlot(c) \/ SkipCandidate(c) \/ NextVictim(c)
    PROVE  ContextInv'
<1> USE DEF QueueInv, ContextInv
<1>1. /\ pc[c] \in {"pick", "scan"}
      /\ UNCHANGED <<status, deferred, cur, running, idle_sp, todo>>
  BY Zenon DEF LockSlot, SkipCandidate, NextVictim
<1>2. pc'[c] \in {"pick", "scan"} /\ \A d \in CPUs \ {c} : pc'[d] = pc[d]
  BY Zenon DEF LockSlot, SkipCandidate, NextVictim, TypeOK
<1>3. \A u \in Tasks : Queued(u) /\ status[u] = "Ready" => Queued(u)'
  <2>1. CASE queue' = queue
    BY Zenon, <2>1, QueuedIn, QueuedInNext
  <2>2. CASE SkipCandidate(c)
    <3> DEFINE r == IF status[Candidate(c)] = "Exited" THEN Popped(c) ELSE Rotated(c)
    <3>1. /\ Slot(c) \in CPUs
          /\ \A u : In(queue[Slot(c)], u) /\ status[u] = "Ready" => In(r, u)
      BY Zenon, <2>2, PopQueue DEF SkipCandidate
    <3>2. queue' = [queue EXCEPT ![Slot(c)] = r]
      BY Zenon, <2>2 DEF SkipCandidate
    <3>. HIDE DEF r
    <3>3. queue'[Slot(c)] = r /\ \A s \in CPUs \ {Slot(c)} : queue'[s] = queue[s]
      BY Zenon, <3>1, <3>2 DEF TypeOK
    <3>4. \A s \in CPUs, u \in Tasks : In(queue[s], u) /\ status[u] = "Ready" => In(queue'[s], u)
      BY <3>1, <3>3, Zenon
    <3>. QED BY Zenon, <3>4, QueuedIn, QueuedInNext
  <2>. QED BY Zenon, <2>1, <2>2 DEF LockSlot, NextVictim
<1>4. StackInv' /\ AwayInv'
  BY <1>1, <1>2 DEF StackInv, AwayInv
<1>5. PlaceInv'
  BY <1>1, <1>2, <1>3, Zenon DEF PlaceInv
<1>6. DeferredInv'
  <2>1. /\ \A d \in CPUs : pc[d] = "switch" => pc'[d] = "switch"
        /\ \A d \in CPUs : pc'[d] \in {"pick", "scan"} => pc[d] \in {"pick", "scan"} \/ deferred[d] = <<>>
    BY Zenon, <1>1, <1>2
  <2>2. ~MayBlock => \A u \in Tasks : status[u] \in {"Switching", "Exited"} => status'[u] \in {status[u], "Exited"}
    BY Zenon, <1>1
  <2>3. deferred' = deferred /\ cur' = cur /\ running' = running
    BY Zenon, <1>1
  <2>. QED BY <2>1, <2>2, <2>3, DeferredFrame, Zenon
<1>7. TodoInv' /\ SoloInv'
  BY Zenon, <1>1, <1>2 DEF TodoInv, SoloInv
<1>. QED BY Zenon, <1>4, <1>5, <1>6, <1>7

-----------------------------------------------------------------------------
(* The switch. *)

\* Giving the CPU away: prev leaves it, x (or the idle context) is next.
LEMMA LeaveStep ==
    ASSUME Confined, QueueInv, ContextInv, NEW c \in CPUs, NEW x \in Tasks \cup {NoTask},
           pc[c] = "scan", pc' = [pc EXCEPT ![c] = "switch"],
           cur' = [cur EXCEPT ![c] = x], deferred' = DeferPrev(c),
           IF x = NoTask THEN cur[c] # NoTask ELSE status[x] = "Ready",
           \A u \in Tasks : status'[u] = IF u = x THEN "Running"
                              ELSE IF u = cur[c] /\ Requeues(u) THEN "Switching" ELSE status[u],
           \A u \in Tasks \ {x} : Queued(u) => Queued(u)',
           UNCHANGED <<running, idle_sp, todo>>
    PROVE  ContextInv'
<1> USE DEF QueueInv, ContextInv
<1>1. PICK prev \in Tasks \cup {NoTask} : prev = cur[c]
  BY Zenon DEF TypeOK
<1>2. pc'[c] = "switch" /\ cur'[c] = x /\ \A d \in CPUs \ {c} : pc'[d] = pc[d] /\ cur'[d] = cur[d]
  BY Zenon DEF TypeOK
<1>3. running[c] = prev /\ x # prev
  BY Zenon, <1>1, NoTaskAssumption DEF StackInv, AwayInv
<1>4. /\ \A d \in CPUs \ {c} : deferred'[d] = deferred[d]
      /\ \A u : In(deferred'[c], u) <=> In(deferred[c], u) \/ (u = prev /\ Requeues(prev))
      /\ Distinct(deferred'[c])
  <2>1. deferred[c] \in Seq(Tasks) /\ Distinct(deferred[c])
    BY Zenon DEF TypeOK, DeferredInv
  <2>2. CASE Requeues(prev)
    <3>1. prev \in Tasks /\ ~In(deferred[c], prev)
      BY Zenon, <1>1, <2>2 DEF Requeues, DeferredInv
    <3>2. deferred' = [deferred EXCEPT ![c] = Append(@, prev)]
      BY Zenon, <1>1, <2>2 DEF DeferPrev
    <3>3. deferred'[c] = Append(deferred[c], prev) /\ \A d \in CPUs \ {c} : deferred'[d] = deferred[d]
      BY Zenon, <3>2 DEF TypeOK
    <3>. QED BY <2>1, <2>2, <3>1, <3>3, PushBack
  <2>3. CASE ~Requeues(prev)
    BY Zenon, <1>1, <2>1, <2>3 DEF DeferPrev
  <2>. QED BY Zenon, <2>2, <2>3
<1>5. \A d \in CPUs \ {c} : prev # NoTask => cur[d] # prev /\ running[d] # prev
  BY Zenon, <1>1 DEF StackInv
<1>6. x # NoTask => /\ x \in Tasks
                    /\ \A d \in CPUs : cur[d] # x /\ running[d] # x /\ ~In(deferred[d], x)
  <2> SUFFICES ASSUME x # NoTask, NEW d \in CPUs
               PROVE  x \in Tasks /\ cur[d] # x /\ running[d] # x /\ ~In(deferred[d], x)
    BY Zenon, CpuAssumption DEF CPUs
  <2>1. cur[d] # x /\ running[d] # x
    BY Zenon DEF AwayInv
  <2>2. ~In(deferred[d], x)
    <3>1. CASE ~MayBlock
      BY Zenon, <3>1 DEF DeferredInv
    <3>2. CASE Solo
      <4>1. deferred[d] = <<>>
        BY Zenon, <3>2 DEF DeferredInv, Solo
      <4>. QED BY SMTT(30), <4>1 DEF In
    <3>. QED BY Zenon, <3>1, <3>2 DEF Confined
  <2>. QED BY Zenon, <2>1, <2>2
<1>7. prev # NoTask => prev \in Tasks /\ status[prev] \notin {"Unborn", "Ready"}
  BY Zenon, <1>1 DEF AwayInv
<1>8. prev # NoTask /\ ~Requeues(prev) => status[prev] \in {"Exited", "Blocked"}
  BY Zenon DEF Requeues
<1>9. \A u \in Tasks : status'[u] = IF u = x THEN "Running"
                          ELSE IF u = prev /\ Requeues(prev) THEN "Switching" ELSE status[u]
  BY Zenon, <1>1
<1>10. StackInv'
  BY SMTT(30), <1>2, <1>3, <1>5, <1>6, NoTaskAssumption DEF StackInv
<1>11. AwayInv'
  <2>1. ASSUME NEW u \in Tasks, NEW d \in CPUs, status'[u] \in {"Unborn", "Ready"}
        PROVE  cur'[d] # u /\ running'[d] # u
    BY SMTT(30), <1>2, <1>9, <2>1 DEF AwayInv
  <2>2. ASSUME NEW u \in Tasks, NEW d \in CPUs, status'[u] = "Unborn"
        PROVE  ~In(deferred'[d], u) /\ u \notin todo'[d]
    BY Zenon, <1>4, <1>7, <1>9, <2>2, NoTaskAssumption DEF AwayInv
  <2>3. ~MayBlock => \A u \in Tasks : status'[u] # "Blocked"
    BY Zenon, <1>9 DEF AwayInv
  <2>. QED BY Zenon, <2>1, <2>2, <2>3 DEF AwayInv
<1>12. PlaceInv'
  <2>1. ASSUME NEW u \in Tasks, status'[u] = "Ready"
        PROVE  Queued(u)' \/ \E d \in CPUs : pc'[d] = "wake" /\ u \in todo'[d]
    <3>1. u # x /\ status[u] = "Ready"
      BY Zenon, <1>9, <2>1
    <3>. QED BY Zenon, <1>2, <3>1 DEF PlaceInv
  <2>2. ASSUME NEW u \in Tasks, status'[u] = "Switching"
        PROVE  \E d \in CPUs : In(deferred'[d], u)
    <3>1. CASE u = prev /\ Requeues(prev)
      BY Zenon, <1>4, <3>1
    <3>2. CASE status[u] = "Switching"
      BY Zenon, <1>4, <3>2 DEF PlaceInv
    <3>. QED BY Zenon, <1>9, <2>2, <3>1, <3>2
  <2>3. ASSUME NEW u \in Tasks, status'[u] = "Running"
        PROVE  \E d \in CPUs : cur'[d] = u
    <3>1. CASE u = x
      BY Zenon, <1>2, <3>1
    <3>2. CASE u # x
      <4>1. status[u] = "Running" /\ u # prev
        BY Zenon, <1>8, <1>9, <2>3, <3>2, NoTaskAssumption
      <4>2. PICK d \in CPUs : cur[d] = u
        BY Zenon, <4>1 DEF PlaceInv
      <4>. QED BY Zenon, <1>1, <1>2, <4>1, <4>2
    <3>. QED BY Zenon, <3>1, <3>2
  <2>. QED BY Zenon, <2>1, <2>2, <2>3 DEF PlaceInv
<1>13. DeferredInv'
  <2>1. \A d \in CPUs : Distinct(deferred'[d])
    BY Zenon, <1>4 DEF DeferredInv
  <2>2. \A d \in CPUs, u \in Tasks :
           In(deferred'[d], u) <=> In(deferred[d], u) \/ (d = c /\ u = prev /\ Requeues(prev))
    BY Zenon, <1>4
  <2>3. prev # NoTask => \A d \in CPUs : ~In(deferred[d], prev)
    BY Zenon, <1>1, <1>7 DEF DeferredInv
  <2>4. \A d, e \in CPUs, u \in Tasks : In(deferred'[d], u) /\ In(deferred'[e], u) => d = e
    BY SMTT(30), <2>2, <2>3, NoTaskAssumption DEF DeferredInv
  <2>5. ASSUME NEW d \in CPUs, NEW e \in CPUs, NEW u \in Tasks, In(deferred'[d], u)
        PROVE  cur'[e] # u /\ (running'[e] = u => e = d /\ pc'[d] = "switch")
    <3>1. CASE In(deferred[d], u)
      BY SMTT(30), <1>2, <1>6, <3>1, NoTaskAssumption DEF DeferredInv
    <3>2. CASE d = c /\ u = prev
      BY Zenon, <1>2, <1>3, <1>5, <3>2, NoTaskAssumption
    <3>. QED BY Zenon, <2>2, <2>5, <3>1, <3>2
  <2>6. \A d \in CPUs : pc'[d] \in {"pick", "scan"} => deferred'[d] = <<>>
    BY SMTT(30), <1>2, <1>4 DEF DeferredInv
  <2>7. ~MayBlock => \A d \in CPUs, u \in Tasks :
           In(deferred'[d], u) => status'[u] \in {"Switching", "Exited"}
    BY SMTT(30), <1>3, <1>6, <1>9, <2>2, NoTaskAssumption DEF DeferredInv
  <2>. QED BY Zenon, <2>1, <2>4, <2>5, <2>6, <2>7 DEF DeferredInv
<1>14. TodoInv'
  <2>1. ASSUME NEW d \in CPUs, NEW u \in Tasks, pc'[d] \in {"remove", "remove_sched"}, u \in todo'[d]
        PROVE  status'[u] = "Exited"
    <3>1. d # c /\ pc[d] = pc'[d] /\ ~Solo
      BY Zenon, <1>2, <2>1 DEF Solo
    <3>2. status[u] = "Exited"
      BY Zenon, <2>1, <3>1 DEF TodoInv
    <3>3. u # x /\ ~(u = prev /\ Requeues(prev))
      BY Zenon, <3>2, NoTaskAssumption DEF Requeues
    <3>. QED BY Zenon, <1>9, <3>2, <3>3
  <2>2. ASSUME NEW d \in CPUs, NEW u \in Tasks, pc'[d] = "wake", u \in todo'[d]
        PROVE  FALSE
    BY SMTT(30), <1>2, <2>2 DEF TodoInv, Solo
  <2>. QED BY Zenon, <2>1, <2>2 DEF TodoInv
<1>15. SoloInv'
  BY SMTT(30), <1>2, <1>9 DEF SoloInv, Solo
<1>. QED BY Zenon, <1>10, <1>11, <1>12, <1>13, <1>14, <1>15

\* The last steps of schedule().
LEMMA SwitchStep ==
    ASSUME Confined, QueueInv, ContextInv, NEW c \in CPUs,
           Dispatch(c) \/ IdleFallback(c) \/ Switch(c)
    PROVE  ContextInv'
<1> USE DEF QueueInv, ContextInv
<1>1. CASE Dispatch(c)
  <2>1. PICK x \in Tasks : x = Candidate(c)
    BY Zenon, <1>1, PopQueue DEF Dispatch
  <2>2. \A u \in Tasks \ {x} : Queued(u) => Queued(u)'
    <3>1. /\ Slot(c) \in CPUs
          /\ \A u : In(Popped(c), u) <=> In(queue[Slot(c)], u) /\ u # x
      BY Zenon, <1>1, <2>1, PopQueue DEF Dispatch
    <3>2. queue' = [queue EXCEPT ![Slot(c)] = Popped(c)]
      BY Zenon, <1>1 DEF Dispatch
    <3>3. queue'[Slot(c)] = Popped(c) /\ \A s \in CPUs \ {Slot(c)} : queue'[s] = queue[s]
      BY Zenon, <3>1, <3>2 DEF TypeOK
    <3>4. \A s \in CPUs, u \in Tasks \ {x} : In(queue[s], u) => In(queue'[s], u)
      BY Zenon, <3>1, <3>3
    <3>. QED BY Zenon, <3>4, QueuedIn, QueuedInNext
  <2>3. cur[c] # x /\ status[x] = "Ready" /\ x # NoTask
    BY Zenon, <1>1, <2>1, NoTaskAssumption DEF Dispatch, AwayInv
  <2>4. \A u \in Tasks : status'[u] = IF u = x THEN "Running"
                            ELSE IF u = cur[c] /\ Requeues(u) THEN "Switching" ELSE status[u]
    BY Zenon, <1>1, <2>1, <2>3 DEF Dispatch, SwitchedOut, Requeues, TypeOK
  <2>5. /\ pc[c] = "scan" /\ pc' = [pc EXCEPT ![c] = "switch"]
        /\ cur' = [cur EXCEPT ![c] = x] /\ deferred' = DeferPrev(c)
        /\ UNCHANGED <<running, idle_sp, todo>>
    BY Zenon, <1>1, <2>1 DEF Dispatch
  <2>6. QueueInv /\ ContextInv
    BY Zenon
  <2>. HIDE DEF QueueInv, ContextInv
  <2>. QED BY <2>2, <2>3, <2>4, <2>5, <2>6, LeaveStep, ZenonT(30)
<1>2. CASE IdleFallback(c) /\ idle_sp[c] /\ cur[c] # NoTask
  <2>1. \A u \in Tasks : Queued(u) => Queued(u)'
    BY Zenon, <1>2, QueuedIn, QueuedInNext DEF IdleFallback
  <2>2. \A u \in Tasks : status'[u] = IF u = NoTask THEN "Running"
                            ELSE IF u = cur[c] /\ Requeues(u) THEN "Switching" ELSE status[u]
    BY SMTT(30), <1>2, NoTaskAssumption DEF IdleFallback, SwitchedOut, Requeues, TypeOK
  <2>. QED BY <1>2, <2>1, <2>2, LeaveStep, SMTT(30) DEF IdleFallback
<1>3. CASE IdleFallback(c) /\ ~(idle_sp[c] /\ cur[c] # NoTask)
  <2>1. /\ pc[c] = "scan" /\ pc' = [pc EXCEPT ![c] = "run"]
        /\ UNCHANGED <<status, queue, deferred, cur, running, idle_sp, todo>>
    BY Zenon, <1>3 DEF IdleFallback
  <2>2. cur[c] = NoTask
    BY Zenon, <1>3, <2>1 DEF StackInv
  <2>3. pc'[c] = "run" /\ \A d \in CPUs \ {c} : pc'[d] = pc[d]
    BY Zenon, <2>1 DEF TypeOK
  <2>4. \A t : Queued(t)' <=> Queued(t)
    BY Zenon, <2>1, QueuedIn, QueuedInNext
  <2>5. StackInv' /\ AwayInv'
    BY SMTT(30), <2>1, <2>3 DEF StackInv, AwayInv
  <2>6. PlaceInv'
    BY Zenon, <2>1, <2>3, <2>4 DEF PlaceInv
  <2>7. DeferredInv'
    BY SMTT(30), <2>1, <2>3 DEF DeferredInv
  <2>8. TodoInv' /\ SoloInv'
    BY <2>1, <2>2, <2>3 DEF TodoInv, SoloInv
  <2>. QED BY Zenon, <2>5, <2>6, <2>7, <2>8
<1>4. CASE Switch(c)
  <2>1. /\ pc[c] = "switch" /\ pc' = [pc EXCEPT ![c] = "run"]
        /\ UNCHANGED <<status, queue, deferred, cur, todo>>
    BY Zenon, <1>4 DEF Switch
  <2>2. /\ pc'[c] = "run" /\ running'[c] = cur[c]
        /\ \A d \in CPUs \ {c} : pc'[d] = pc[d] /\ running'[d] = running[d] /\ idle_sp'[d] = idle_sp[d]
    BY Zenon, <1>4 DEF Switch, TypeOK
  <2>3. idle_sp'[c]
    <3>1. idle_sp'[c] = (idle_sp[c] \/ running[c] = NoTask)
      BY Zenon, <1>4 DEF Switch, TypeOK
    <3>. QED BY <3>1, Zenon DEF StackInv
  <2>4. \A t : Queued(t)' <=> Queued(t)
    BY Zenon, <2>1, QueuedIn, QueuedInNext
  <2>5. StackInv'
    BY SMTT(30), <2>1, <2>2, <2>3 DEF StackInv
  <2>6. AwayInv'
    BY SMTT(30), <2>1, <2>2 DEF AwayInv
  <2>7. PlaceInv'
    BY <2>1, <2>2, <2>4, SMTT(30) DEF PlaceInv
  <2>8. DeferredInv'
    BY <2>1, <2>2 DEF DeferredInv
  <2>9. TodoInv' /\ SoloInv'
    BY <2>1, <2>2 DEF TodoInv, SoloInv
  <2>. QED BY Zenon, <2>5, <2>6, <2>7, <2>8, <2>9
<1>. QED BY Zenon, <1>1, <1>2, <1>3, <1>4

LEMMA ContextStep == Confined /\ QueueInv /\ ContextInv /\ [Next]_vars => ContextInv'
<1> SUFFICES ASSUME Confined, QueueInv, ContextInv, [Next]_vars PROVE ContextInv'
  BY Zenon
<1>1. CASE UNCHANGED vars
  <2>1. \A t : Queued(t)' <=> Queued(t)
    BY Zenon, <1>1, QueuedIn, QueuedInNext DEF vars
  <2>2. StackInv' /\ AwayInv' /\ PlaceInv'
    BY SMTT(30), <1>1, <2>1 DEF vars, ContextInv, StackInv, AwayInv, PlaceInv
  <2>3. DeferredInv' /\ TodoInv' /\ SoloInv'
    BY <1>1 DEF vars, ContextInv, DeferredInv, TodoInv, SoloInv
  <2>. QED BY Zenon, <2>2, <2>3 DEF ContextInv
<1>2. ASSUME NEW c \in CPUs, Continue(c) PROVE ContextInv'
  BY Zenon, <1>2, WakeStep, RemoveStep, FlushStep, SearchStep, SwitchStep DEF Continue
<1>3. ASSUME NEW c \in CPUs, Start(c) PROVE ContextInv'
  BY Zenon, <1>3, StartStep, WakeStep DEF Start
<1>. QED BY Zenon, <1>1, <1>2, <1>3 DEF Next

LEMMA ContextInvariant == Confined => (Spec => []ContextInv)
<1> SUFFICES ASSUME Confined PROVE Spec => []ContextInv
  BY Zenon
<1>1. QueueInv /\ ContextInv /\ [Next]_vars => ContextInv'
  BY Zenon, ContextStep
<1>. QED BY <1>1, ContextInit, QueueInvariant, PTL DEF Spec

-----------------------------------------------------------------------------
(* Theorems, for one CPU or for tasks that do not block. *)

\* do_switch never loads a context that another CPU, or this one, is still executing,
\* nor an idle context that was not saved: what DEFERRED_REQUEUE is for.
THEOREM SavedContexts == Confined => (Spec => []LoadsSavedContext)
<1> SUFFICES ASSUME Confined PROVE Spec => []LoadsSavedContext
  BY Zenon
<1>1. QueueInv /\ ContextInv => LoadsSavedContext
  <2> SUFFICES ASSUME ContextInv, NEW c \in CPUs, pc[c] = "switch"
               PROVE  IF cur[c] = NoTask THEN idle_sp[c] /\ running[c] # NoTask
                      ELSE \A d \in CPUs : running[d] # cur[c]
    BY Zenon DEF LoadsSavedContext
  <2>1. StackInv /\ running[c] # cur[c]
    BY Zenon DEF ContextInv, StackInv
  <2>. QED BY Zenon, <2>1 DEF StackInv
<1>. QED BY <1>1, QueueInvariant, ContextInvariant, PTL

\* No two CPUs execute on the kernel stack of one task.
THEOREM StacksExclusive == Confined => (Spec => []OneRunner)
<1> SUFFICES ASSUME Confined PROVE Spec => []OneRunner
  BY Zenon
<1>1. ContextInv => OneRunner
  BY Zenon DEF ContextInv, StackInv, OneRunner
<1>. QED BY <1>1, ContextInvariant, PTL

\* Every Ready, Switching or Running task is where the scheduler will find it.
THEOREM TasksKept == Confined => (Spec => []NoTaskLost)
<1> SUFFICES ASSUME Confined PROVE Spec => []NoTaskLost
  BY Zenon
<1>1. ContextInv => NoTaskLost
  BY Zenon DEF ContextInv, PlaceInv, NoTaskLost, In
<1>. QED BY <1>1, ContextInvariant, PTL

\* On one CPU schedule() only ever returns to a task that is Running.
THEOREM RunnersRun == Solo => (Spec => []OnlyRunningRuns)
<1> SUFFICES ASSUME Solo PROVE Spec => []OnlyRunningRuns
  BY Zenon
<1>1. Confined
  BY Zenon DEF Confined
<1>2. ContextInv => OnlyRunningRuns
  BY Zenon DEF ContextInv, StackInv, SoloInv, OnlyRunningRuns
<1>. QED BY <1>1, <1>2, ContextInvariant, PTL
=============================================================================
