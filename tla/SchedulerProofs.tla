--------------------------- MODULE SchedulerProofs ---------------------------
(***************************************************************************)
(* Proofs about the run queues, for any number of CPUs and tasks: what the *)
(* operations on a run queue do to its members, and what follows for the   *)
(* scheduler.  Then the invariant about the contexts of tasks, and the     *)
(* steps of the scheduler's callers that keep it.                          *)
(***************************************************************************)
EXTENDS Scheduler, TLAPS

\* t occurs in q, and no task occurs twice in q.
In(q, t) == \E i \in DOMAIN q : q[i] = t
Distinct(q) == \A i, j \in DOMAIN q : q[i] = q[j] => i = j

-----------------------------------------------------------------------------
(* What the queue operations do to the members of a queue. *)

\* A push at the back of a task that is not in the queue keeps its entries distinct.
LEMMA PushBack ==
    ASSUME NEW q \in Seq(Tasks), NEW t \in Tasks, Distinct(q), ~In(q, t)
    PROVE  /\ Append(q, t) \in Seq(Tasks)
           /\ Distinct(Append(q, t))
           /\ \A u : In(Append(q, t), u) <=> In(q, u) \/ u = t
<1> DEFINE a == Append(q, t)
<1>1. /\ a \in Seq(Tasks)
      /\ Len(a) = Len(q) + 1
      /\ \A i \in 1 .. Len(q) : a[i] = q[i]
      /\ a[Len(q) + 1] = t
  OBVIOUS
<1>2. Len(q) \in Nat /\ DOMAIN q = 1 .. Len(q) /\ DOMAIN a = 1 .. Len(q) + 1
  BY <1>1
<1>. HIDE DEF a
<1>3. Distinct(a)
  BY <1>1, <1>2 DEF Distinct, In
<1>4. \A u : In(a, u) <=> In(q, u) \/ u = t
  BY <1>1, <1>2 DEF In
<1>. QED BY Zenon, <1>1, <1>3, <1>4 DEF a

\* The same at the front.
LEMMA PushFront ==
    ASSUME NEW q \in Seq(Tasks), NEW t \in Tasks, Distinct(q), ~In(q, t)
    PROVE  /\ <<t>> \o q \in Seq(Tasks)
           /\ Distinct(<<t>> \o q)
           /\ Len(<<t>> \o q) = Len(q) + 1
           /\ \A u : In(<<t>> \o q, u) <=> In(q, u) \/ u = t
<1> DEFINE a == <<t>> \o q
<1>0. <<t>> \in Seq(Tasks) /\ Len(<<t>>) = 1 /\ <<t>>[1] = t
  OBVIOUS
<1>1. /\ a \in Seq(Tasks)
      /\ Len(a) = Len(q) + 1
      /\ \A i \in 1 .. 1 + Len(q) : a[i] = IF i <= 1 THEN <<t>>[i] ELSE q[i - 1]
  BY <1>0
<1>2. Len(q) \in Nat /\ DOMAIN q = 1 .. Len(q) /\ DOMAIN a = 1 .. Len(q) + 1
  BY <1>1
<1>3. a[1] = t /\ \A i \in 2 .. Len(q) + 1 : a[i] = q[i - 1]
  BY <1>0, <1>1, <1>2
<1>. HIDE DEF a
<1>4. Distinct(a)
  <2> SUFFICES ASSUME NEW i \in 1 .. Len(q) + 1, NEW j \in 1 .. Len(q) + 1, a[i] = a[j]
               PROVE  i = j
    BY Zenon, <1>2 DEF Distinct
  <2>1. CASE i = 1 /\ j = 1
    BY Zenon, <2>1
  <2>2. CASE i = 1 /\ j # 1
    BY <1>2, <1>3, <2>2 DEF In
  <2>3. CASE i # 1 /\ j = 1
    BY <1>2, <1>3, <2>3 DEF In
  <2>4. CASE i # 1 /\ j # 1
    BY <1>2, <1>3, <2>4 DEF Distinct
  <2>. QED BY Zenon, <2>1, <2>2, <2>3, <2>4
<1>5. \A u : In(q, u) \/ u = t => In(a, u)
  <2> TAKE u
  <2>1. ASSUME NEW i \in 1 .. Len(q), q[i] = u PROVE In(a, u)
    <3>1. i + 1 \in 2 .. Len(q) + 1 /\ (i + 1) - 1 = i
      BY <1>2
    <3>2. a[i + 1] = u
      BY Zenon, <1>3, <2>1, <3>1
    <3>. QED BY <1>2, <3>1, <3>2 DEF In
  <2>2. u = t => In(a, u)
    BY <1>2, <1>3 DEF In
  <2>. QED BY Zenon, <1>2, <2>1, <2>2 DEF In
<1>6. \A u : In(a, u) => In(q, u) \/ u = t
  BY <1>2, <1>3 DEF In
<1>. QED BY Zenon, <1>1, <1>4, <1>5, <1>6 DEF a

\* Removing the entry at position k leaves the others, in order.
LEMMA DropAt ==
    ASSUME NEW q \in Seq(Tasks), NEW k \in 1 .. Len(q), Distinct(q),
           NEW r \in Seq(Tasks), Len(r) = Len(q) - 1,
           \A i \in 1 .. Len(r) : r[i] = IF i < k THEN q[i] ELSE q[i + 1]
    PROVE  /\ Distinct(r)
           /\ \A u : In(r, u) <=> In(q, u) /\ u # q[k]
<1>1. Len(q) \in Nat /\ DOMAIN q = 1 .. Len(q) /\ DOMAIN r = 1 .. Len(q) - 1
  OBVIOUS
<1> DEFINE f(i) == IF i < k THEN i ELSE i + 1
<1>2. /\ \A i \in 1 .. Len(q) - 1 : f(i) \in 1 .. Len(q) /\ f(i) # k /\ r[i] = q[f(i)]
      /\ \A i, j \in 1 .. Len(q) - 1 : f(i) = f(j) => i = j
  BY <1>1
<1>3. /\ Distinct(r)
      /\ \A u : In(r, u) => In(q, u) /\ u # q[k]
  <2>. HIDE DEF f
  <2>1. Distinct(r)
    BY SMTT(30), <1>1, <1>2 DEF Distinct
  <2>2. ASSUME NEW u, NEW i \in 1 .. Len(q) - 1, r[i] = u PROVE In(q, u) /\ u # q[k]
    BY ZenonT(60), <1>1, <1>2, <2>2 DEF Distinct, In
  <2>. QED BY Zenon, <1>1, <2>1, <2>2 DEF In
<1>4. ASSUME NEW u, NEW i \in 1 .. Len(q), q[i] = u, u # q[k] PROVE In(r, u)
  <2>1. CASE i < k
    BY <1>1, <1>4, <2>1 DEF In
  <2>2. CASE i > k
    <3>1. i - 1 \in 1 .. Len(q) - 1 /\ ~(i - 1 < k) /\ (i - 1) + 1 = i
      BY <1>1, <2>2
    <3>. QED BY <1>1, <1>4, <3>1, Zenon DEF In
  <2>. QED BY <1>1, <1>4, <2>1, <2>2
<1>. QED BY <1>1, <1>2, <1>3, <1>4, Zenon DEF In

\* pop_front removes the first entry, pop_back the last.
LEMMA PopFront ==
    ASSUME NEW q \in Seq(Tasks), Len(q) > 0, Distinct(q)
    PROVE  /\ Tail(q) \in Seq(Tasks)
           /\ Len(Tail(q)) = Len(q) - 1
           /\ q[1] \in Tasks /\ In(q, q[1])
           /\ Distinct(Tail(q))
           /\ \A u : In(Tail(q), u) <=> In(q, u) /\ u # q[1]
<1>1. Len(q) \in Nat /\ DOMAIN q = 1 .. Len(q) /\ 1 \in 1 .. Len(q) /\ q # <<>>
  OBVIOUS
<1>2. /\ Tail(q) \in Seq(Tasks)
      /\ Len(Tail(q)) = Len(q) - 1
      /\ \A i \in 1 .. Len(Tail(q)) : Tail(q)[i] = q[i + 1]
  BY <1>1
<1>3. \A i \in 1 .. Len(Tail(q)) : Tail(q)[i] = IF i < 1 THEN q[i] ELSE q[i + 1]
  BY <1>1, <1>2
<1>4. /\ Distinct(Tail(q))
      /\ \A u : In(Tail(q), u) <=> In(q, u) /\ u # q[1]
  BY <1>1, <1>2, <1>3, DropAt, Zenon
<1>5. q[1] \in Tasks /\ In(q, q[1])
  BY <1>1 DEF In
<1>. QED BY Zenon, <1>2, <1>4, <1>5

LEMMA PopBack ==
    ASSUME NEW q \in Seq(Tasks), Len(q) > 0, Distinct(q)
    PROVE  /\ SubSeq(q, 1, Len(q) - 1) \in Seq(Tasks)
           /\ Len(SubSeq(q, 1, Len(q) - 1)) = Len(q) - 1
           /\ q[Len(q)] \in Tasks /\ In(q, q[Len(q)])
           /\ Distinct(SubSeq(q, 1, Len(q) - 1))
           /\ \A u : In(SubSeq(q, 1, Len(q) - 1), u) <=> In(q, u) /\ u # q[Len(q)]
<1> DEFINE r == SubSeq(q, 1, Len(q) - 1)
<1>1. Len(q) \in Nat /\ DOMAIN q = 1 .. Len(q) /\ Len(q) \in 1 .. Len(q)
  OBVIOUS
<1>2. \A i \in 1 .. Len(q) - 1 : q[i] \in Tasks
  BY <1>1
<1>3. /\ r \in Seq(Tasks)
      /\ Len(r) = Len(q) - 1
      /\ \A i \in 1 .. Len(q) - 1 : r[i] = q[i]
  <2>1. /\ r \in Seq(Tasks)
        /\ Len(r) = IF 1 <= Len(q) - 1 THEN (Len(q) - 1) - 1 + 1 ELSE 0
        /\ \A i \in 1 .. (Len(q) - 1) - 1 + 1 : r[i] = q[1 + i - 1]
    BY <1>1, <1>2
  <2>. QED BY <1>1, <2>1
<1>4. \A i \in 1 .. Len(r) : r[i] = IF i < Len(q) THEN q[i] ELSE q[i + 1]
  BY <1>1, <1>3
<1>5. Distinct(r) /\ \A u : In(r, u) <=> In(q, u) /\ u # q[Len(q)]
  <2>. HIDE DEF r
  <2>. QED BY <1>1, <1>3, <1>4, DropAt, Zenon
<1>6. q[Len(q)] \in Tasks /\ In(q, q[Len(q)])
  BY <1>1 DEF In
<1>. QED BY Zenon, <1>3, <1>5, <1>6

\* retain() in remove_tasks_by_pid removes one task and nothing else.
LEMMA WithoutTask ==
    ASSUME NEW q \in Seq(Tasks), NEW t \in Tasks, Distinct(q)
    PROVE  /\ Without(q, t) \in Seq(Tasks)
           /\ Distinct(Without(q, t))
           /\ \A u : In(Without(q, t), u) <=> In(q, u) /\ u # t
<1>1. CASE ~In(q, t)
  BY Zenon, <1>1 DEF Without, In
<1>2. CASE In(q, t)
  <2> DEFINE k == CHOOSE i \in DOMAIN q : q[i] = t
             n == Len(q)
             a == SubSeq(q, 1, k - 1)
             b == SubSeq(q, k + 1, n)
             r == a \o b
  <2>1. n \in Nat /\ DOMAIN q = 1 .. n
    OBVIOUS
  <2>2. k \in 1 .. n /\ q[k] = t
    BY Zenon, <1>2, <2>1 DEF In
  <2>3. Without(q, t) = r
    BY <1>2, Zenon DEF Without, In
  <2>4. \A i \in 1 .. n : q[i] \in Tasks
    OBVIOUS
  <2>. HIDE DEF k, n
  <2>5. /\ a \in Seq(Tasks)
        /\ Len(a) = k - 1
        /\ \A i \in 1 .. k - 1 : a[i] = q[i]
    <3>1. /\ a \in Seq(Tasks)
          /\ Len(a) = IF 1 <= k - 1 THEN (k - 1) - 1 + 1 ELSE 0
          /\ \A i \in 1 .. (k - 1) - 1 + 1 : a[i] = q[1 + i - 1]
      BY <2>1, <2>2, <2>4
    <3>. HIDE DEF a
    <3>. QED BY <2>1, <2>2, <3>1
  <2>6. /\ b \in Seq(Tasks)
        /\ Len(b) = n - k
        /\ \A i \in 1 .. n - k : b[i] = q[k + i]
    <3>1. /\ b \in Seq(Tasks)
          /\ Len(b) = IF k + 1 <= n THEN n - (k + 1) + 1 ELSE 0
          /\ \A i \in 1 .. n - (k + 1) + 1 : b[i] = q[(k + 1) + i - 1]
      BY <2>1, <2>2, <2>4
    <3>. HIDE DEF b
    <3>. QED BY <2>1, <2>2, <3>1
  <2>7. /\ r \in Seq(Tasks)
        /\ Len(r) = Len(a) + Len(b)
        /\ \A i \in 1 .. Len(a) + Len(b) : r[i] = IF i <= Len(a) THEN a[i] ELSE b[i - Len(a)]
    <3>. HIDE DEF a, b
    <3>1. a \in Seq(Tasks) /\ b \in Seq(Tasks)
      BY Zenon, <2>5, <2>6
    <3>2. r \in Seq(Tasks) /\ Len(r) = Len(a) + Len(b)
      BY <3>1
    <3>3. \A i \in 1 .. Len(a) + Len(b) : r[i] = IF i <= Len(a) THEN a[i] ELSE b[i - Len(a)]
      BY <3>1, <3>2
    <3>. QED BY Zenon, <3>2, <3>3
  <2>. HIDE DEF r, a, b
  <2>8. Len(r) = n - 1
    BY <2>1, <2>2, <2>5, <2>6, <2>7
  <2>9. \A i \in 1 .. n - 1 : r[i] = IF i < k THEN q[i] ELSE q[i + 1]
    <3> TAKE i \in 1 .. n - 1
    <3>1. CASE i < k
      BY <2>1, <2>2, <2>5, <2>6, <2>7, <3>1
    <3>2. CASE ~(i < k)
      <4>1. i - (k - 1) \in 1 .. n - k /\ k + (i - (k - 1)) = i + 1 /\ ~(i <= k - 1)
        BY <2>1, <2>2, <3>2
      <4>2. r[i] = b[i - (k - 1)]
        <5>1. i \in 1 .. Len(a) + Len(b) /\ ~(i <= Len(a)) /\ i - Len(a) = i - (k - 1)
          BY <2>1, <2>2, <2>5, <2>6, <4>1
        <5>. QED BY Zenon, <2>7, <5>1
      <4>3. b[i - (k - 1)] = q[i + 1]
        BY Zenon, <2>6, <4>1
      <4>. QED BY Zenon, <3>2, <4>2, <4>3
    <3>. QED BY Zenon, <3>1, <3>2
  <2>10. Distinct(r) /\ \A u : In(r, u) <=> In(q, u) /\ u # q[k]
    <3>1. Len(r) = Len(q) - 1 /\ k \in 1 .. Len(q)
      BY Zenon, <2>2, <2>8 DEF n
    <3>2. \A i \in 1 .. Len(r) : r[i] = IF i < k THEN q[i] ELSE q[i + 1]
      BY Zenon, <2>8, <2>9
    <3>. QED BY Zenon, <2>7, <3>1, <3>2, DropAt
  <2>. QED BY Zenon, <2>2, <2>3, <2>7, <2>10
<1>. QED BY Zenon, <1>1, <1>2

\* Appending and taking the head, for a list that may hold a task twice.
LEMMA ListMembers ==
    ASSUME NEW q \in Seq(Tasks), NEW t \in Tasks
    PROVE  /\ Append(q, t) \in Seq(Tasks)
           /\ \A u : In(Append(q, t), u) <=> In(q, u) \/ u = t
           /\ q # <<>> => /\ Head(q) \in Tasks /\ In(q, Head(q))
                          /\ Tail(q) \in Seq(Tasks)
                          /\ \A u : In(Tail(q), u) => In(q, u)
                          /\ \A u : In(q, u) => u = Head(q) \/ In(Tail(q), u)
<1>1. Len(q) \in Nat /\ DOMAIN q = 1 .. Len(q)
  OBVIOUS
<1>2. Append(q, t) \in Seq(Tasks) /\ \A u : In(Append(q, t), u) <=> In(q, u) \/ u = t
  <2> DEFINE a == Append(q, t)
  <2>1. /\ a \in Seq(Tasks)
        /\ Len(a) = Len(q) + 1
        /\ \A i \in 1 .. Len(q) : a[i] = q[i]
        /\ a[Len(q) + 1] = t
    OBVIOUS
  <2>2. DOMAIN a = 1 .. Len(q) + 1
    BY <2>1
  <2>. HIDE DEF a
  <2>3. \A u : In(a, u) <=> In(q, u) \/ u = t
    BY <1>1, <2>1, <2>2 DEF In
  <2>. QED BY Zenon, <2>1, <2>3 DEF a
<1>3. ASSUME q # <<>>
      PROVE  /\ Head(q) \in Tasks /\ In(q, Head(q))
             /\ Tail(q) \in Seq(Tasks)
             /\ \A u : In(Tail(q), u) => In(q, u)
             /\ \A u : In(q, u) => u = Head(q) \/ In(Tail(q), u)
  <2> DEFINE r == Tail(q)
  <2>1. /\ Head(q) \in Tasks
        /\ r \in Seq(Tasks)
        /\ Len(r) = Len(q) - 1
        /\ \A i \in 1 .. Len(r) : r[i] = q[i + 1]
    BY <1>3
  <2>2. Len(q) > 0 /\ Head(q) = q[1] /\ DOMAIN r = 1 .. Len(q) - 1
    BY <1>1, <1>3, <2>1
  <2>. HIDE DEF r
  <2>3. In(q, Head(q))
    BY <1>1, <2>2 DEF In
  <2>4. \A u : In(r, u) => In(q, u)
    BY SMTT(30), <1>1, <2>1, <2>2 DEF In
  <2>5. ASSUME NEW u, NEW i \in 1 .. Len(q), q[i] = u, i # 1 PROVE In(r, u)
    <3>1. i - 1 \in 1 .. Len(q) - 1 /\ (i - 1) + 1 = i
      BY <1>1, <2>5
    <3>2. r[i - 1] = u
      BY Zenon, <2>1, <2>5, <3>1
    <3>. QED BY Zenon, <2>2, <3>1, <3>2 DEF In
  <2>6. \A u : In(q, u) => u = Head(q) \/ In(r, u)
    BY Zenon, <1>1, <2>2, <2>5 DEF In
  <2>. QED BY Zenon, <2>1, <2>3, <2>4, <2>6 DEF r
<1>. QED BY Zenon, <1>2, <1>3

-----------------------------------------------------------------------------
(* The inductive invariant. *)

\* No run queue holds a task twice and no two hold the same one.
Once ==
    /\ \A c \in CPUs : Distinct(queue[c])
    /\ \A c, d \in CPUs : \A t \in Tasks : In(queue[c], t) /\ In(queue[d], t) => c = d

\* The pop loops: a run queue is scanned by one CPU at a time, and has not become
\* shorter than what its scanner still expects.
ScanInv ==
    /\ \A c \in CPUs : pc[c] = "scan" => left[c] <= Len(queue[Slot(c)])
    /\ \A c, d \in CPUs : pc[c] = "scan" /\ pc[d] = "scan" /\ Slot(c) = Slot(d) => c = d

QueueInv == TypeOK /\ ScanInv /\ Once

-----------------------------------------------------------------------------
(* The run queues. *)

\* pick_next only visits run queues that exist.
LEMMA SlotIsCpu ==
    ASSUME TypeOK, NEW c \in CPUs
    PROVE  Slot(c) \in CPUs
<1>0. off[c] \in Nat
  BY Zenon DEF TypeOK
<1>1. c + off[c] \in Nat /\ NumCpus \in Nat /\ NumCpus > 0
  BY <1>0, CpuAssumption DEF CPUs
<1>2. \A n \in Nat : n % NumCpus \in 0 .. NumCpus - 1
  BY <1>1
<1>. QED BY Zenon, <1>1, <1>2 DEF Slot, CPUs

\* Holding every run-queue lock means that no CPU is in a pop loop.
LEMMA AllUnlocked ==
    ASSUME TypeOK, \A s \in CPUs : Unlocked(s)
    PROVE  \A c \in CPUs : pc[c] # "scan"
BY Zenon, SlotIsCpu DEF Unlocked

\* enqueue_on_cpu keeps the run queues free of duplicates, and a task that may run
\* is in some run queue afterwards.
LEMMA EnqueueQueue ==
    ASSUME TypeOK, Once, NEW c \in CPUs, NEW t \in Tasks, NEW st \in [Tasks -> Statuses],
           EnqueueOnCpu(c, t, st)
    PROVE  /\ status' \in [Tasks -> Statuses] /\ queue' \in [CPUs -> Seq(Tasks)]
           /\ Once'
           /\ \A d \in CPUs : pc[d] # "scan"
           /\ \A u \in Tasks : Queued(u) => Queued(u)'
           /\ Schedulable(st, t) => Queued(t)'
<1>0. \A u : Queued(u) <=> \E d \in CPUs : In(queue[d], u)
  BY Zenon DEF Queued, In
<1>1. \A u : Queued(u)' <=> \E d \in CPUs : In(queue'[d], u)
  BY Zenon DEF Queued, In
<1>2. \A d \in CPUs : pc[d] # "scan"
  BY Zenon, AllUnlocked DEF EnqueueOnCpu
<1>3. status' \in [Tasks -> Statuses]
  BY Zenon DEF EnqueueOnCpu, Statuses
<1>4. CASE queue' = queue
  <2>1. Once'
    BY <1>4 DEF Once, Distinct, In
  <2>2. \A u : Queued(u)' <=> Queued(u)
    BY Zenon, <1>4 DEF Queued
  <2>3. Schedulable(st, t) => Queued(t)
    <3> SUFFICES ASSUME Schedulable(st, t), ~Queued(t) PROVE FALSE
      BY Zenon
    <3>1. queue' = [queue EXCEPT ![c] = Append(@, t)]
      BY Zenon DEF EnqueueOnCpu
    <3>2. queue[c] \in Seq(Tasks) /\ queue'[c] = Append(queue[c], t)
      BY Zenon, <3>1 DEF TypeOK
    <3>3. Len(queue'[c]) = Len(queue[c]) + 1 /\ Len(queue[c]) \in Nat
      BY <3>2
    <3>. QED BY <1>4, <3>3
  <2>. QED BY Zenon, <1>2, <1>3, <1>4, <2>1, <2>2, <2>3 DEF TypeOK
<1>5. CASE queue' # queue
  <2>1. ~Queued(t) /\ queue' = [queue EXCEPT ![c] = Append(@, t)]
    BY Zenon, <1>5 DEF EnqueueOnCpu
  <2>2. \A d \in CPUs : queue[d] \in Seq(Tasks) /\ Distinct(queue[d]) /\ ~In(queue[d], t)
    BY Zenon, <1>0, <2>1 DEF TypeOK, Once
  <2>3. /\ queue'[c] \in Seq(Tasks)
        /\ Distinct(queue'[c])
        /\ \A u : In(queue'[c], u) <=> In(queue[c], u) \/ u = t
    <3>1. queue'[c] = Append(queue[c], t)
      BY Zenon, <2>1 DEF TypeOK
    <3>. QED BY <2>2, <3>1, PushBack
  <2>4. \A d \in CPUs \ {c} : queue'[d] = queue[d]
    BY Zenon, <2>1 DEF TypeOK
  <2>5. queue' \in [CPUs -> Seq(Tasks)]
    BY Zenon, <2>1, <2>2, <2>3, <2>4 DEF TypeOK
  <2>6. \A d \in CPUs : Distinct(queue'[d])
    BY Zenon, <2>2, <2>3, <2>4
  <2>7. ASSUME NEW d \in CPUs, NEW e \in CPUs, NEW u \in Tasks, In(queue'[d], u), In(queue'[e], u)
        PROVE  d = e
    BY <2>2, <2>3, <2>4, <2>7, Zenon DEF Once
  <2>8. Once'
    BY Zenon, <2>6, <2>7 DEF Once, Distinct, In
  <2>9. Queued(t)' /\ \A u \in Tasks : Queued(u) => Queued(u)'
    BY Zenon, <1>0, <1>1, <2>3, <2>4
  <2>. QED BY Zenon, <1>2, <1>3, <2>5, <2>8, <2>9
<1>. QED BY Zenon, <1>4, <1>5

\* One iteration of the pop loop, at either end of the run queue.
LEMMA PopQueue ==
    ASSUME QueueInv, NEW c \in CPUs, pc[c] = "scan", left[c] > 0
    PROVE  /\ Slot(c) \in CPUs /\ Candidate(c) \in Tasks /\ In(queue[Slot(c)], Candidate(c))
           /\ Popped(c) \in Seq(Tasks) /\ Distinct(Popped(c))
           /\ Len(Popped(c)) = Len(queue[Slot(c)]) - 1
           /\ \A u : In(Popped(c), u) <=> In(queue[Slot(c)], u) /\ u # Candidate(c)
           /\ Rotated(c) \in Seq(Tasks) /\ Distinct(Rotated(c))
           /\ Len(Rotated(c)) = Len(queue[Slot(c)])
           /\ \A u : In(Rotated(c), u) <=> In(queue[Slot(c)], u)
<1> DEFINE q == queue[Slot(c)]
<1>1. Slot(c) \in CPUs
  BY Zenon, SlotIsCpu DEF QueueInv
<1>2. q \in Seq(Tasks) /\ Distinct(q) /\ Len(q) > 0
  <2>1. q \in Seq(Tasks) /\ Distinct(q)
    BY Zenon, <1>1 DEF QueueInv, TypeOK, Once
  <2>2. left[c] <= Len(q) /\ left[c] \in Nat
    BY Zenon DEF QueueInv, ScanInv, TypeOK
  <2>3. Len(q) \in Nat
    BY <2>1
  <2>. HIDE DEF q
  <2>. QED BY <2>1, <2>2, <2>3
<1>3. CASE off[c] = 0
  <2>1. Candidate(c) = q[1] /\ Popped(c) = Tail(q) /\ Rotated(c) = Append(Tail(q), q[1])
    BY Zenon, <1>3 DEF Candidate, Popped, Rotated
  <2>. HIDE DEF q
  <2>2. /\ Tail(q) \in Seq(Tasks) /\ Len(Tail(q)) = Len(q) - 1
        /\ q[1] \in Tasks /\ In(q, q[1]) /\ Distinct(Tail(q))
        /\ \A u : In(Tail(q), u) <=> In(q, u) /\ u # q[1]
    BY Zenon, <1>2, PopFront
  <2>3. /\ Append(Tail(q), q[1]) \in Seq(Tasks)
        /\ Distinct(Append(Tail(q), q[1]))
        /\ \A u : In(Append(Tail(q), q[1]), u) <=> In(Tail(q), u) \/ u = q[1]
    BY <2>2, PushBack, Zenon
  <2>4. Len(Append(Tail(q), q[1])) = Len(Tail(q)) + 1 /\ Len(q) \in Nat
    BY <1>2, <2>2
  <2>5. Len(Append(Tail(q), q[1])) = Len(q)
    BY <2>2, <2>4
  <2>. QED BY Zenon, <1>1, <2>1, <2>2, <2>3, <2>5 DEF q
<1>4. CASE off[c] # 0
  <2> DEFINE r == SubSeq(q, 1, Len(q) - 1)
             x == q[Len(q)]
  <2>1. Candidate(c) = x /\ Popped(c) = r /\ Rotated(c) = <<x>> \o r
    BY Zenon, <1>4 DEF Candidate, Popped, Rotated
  <2>2. /\ r \in Seq(Tasks) /\ Len(r) = Len(q) - 1
        /\ x \in Tasks /\ In(q, x) /\ Distinct(r)
        /\ \A u : In(r, u) <=> In(q, u) /\ u # x
    <3>. HIDE DEF q
    <3>. QED BY Zenon, <1>2, PopBack
  <2>. HIDE DEF q, r, x
  <2>3. /\ <<x>> \o r \in Seq(Tasks)
        /\ Distinct(<<x>> \o r)
        /\ Len(<<x>> \o r) = Len(r) + 1
        /\ \A u : In(<<x>> \o r, u) <=> In(r, u) \/ u = x
    BY Zenon, <2>2, PushFront
  <2>4. Len(<<x>> \o r) = Len(q)
    <3>1. Len(q) \in Nat
      BY <1>2
    <3>. QED BY <2>2, <2>3, <3>1
  <2>. QED BY Zenon, <1>1, <2>1, <2>2, <2>3, <2>4 DEF q
<1>. QED BY Zenon, <1>3, <1>4

\* Replacing one run queue by some of its own tasks creates no duplicate.
LEMMA ShrinkOnce ==
    ASSUME TypeOK, Once, NEW s \in CPUs, NEW r \in Seq(Tasks), Distinct(r),
           \A u \in Tasks : In(r, u) => In(queue[s], u),
           queue' = [queue EXCEPT ![s] = r]
    PROVE  queue' \in [CPUs -> Seq(Tasks)] /\ Once'
<1>1. queue' \in [CPUs -> Seq(Tasks)] /\ queue'[s] = r /\ \A d \in CPUs \ {s} : queue'[d] = queue[d]
  BY Zenon DEF TypeOK
<1>2. \A d \in CPUs : Distinct(queue'[d])
  BY Zenon, <1>1 DEF Once
<1>3. \A d, e \in CPUs : \A u \in Tasks : In(queue'[d], u) /\ In(queue'[e], u) => d = e
  BY Zenon, <1>1 DEF Once
<1>. QED BY Zenon, <1>1, <1>2, <1>3 DEF Once, Distinct, In

\* A step of c that leaves the run queues alone and does not enter the pop loop.
LEMMA ScanFrame ==
    ASSUME TypeOK, ScanInv, NEW c \in CPUs, NEW x \in Points, x # "scan",
           pc' = [pc EXCEPT ![c] = x], queue' = queue,
           \A d \in CPUs \ {c} : off'[d] = off[d] /\ left'[d] = left[d]
    PROVE  ScanInv'
<1>1. \A d \in CPUs : pc'[d] = "scan" => d # c /\ pc[d] = "scan" /\ Slot(d)' = Slot(d) /\ left'[d] = left[d]
  BY Zenon DEF TypeOK, Slot
<1>. QED BY <1>1 DEF ScanInv

\* A step taken while no CPU scans, and after which none does.
LEMMA ScanNone ==
    ASSUME TypeOK, NEW c \in CPUs, NEW x \in Points, x # "scan",
           pc' = [pc EXCEPT ![c] = x], \A d \in CPUs : pc[d] # "scan"
    PROVE  ScanInv'
<1>1. \A d \in CPUs : pc'[d] # "scan"
  BY Zenon DEF TypeOK
<1>. QED BY Zenon, <1>1 DEF ScanInv

\* Every step keeps the types, the pop loops and the run queues in order.
LEMMA QueueStep == QueueInv /\ [Next]_vars => QueueInv'
<1> SUFFICES ASSUME QueueInv, [Next]_vars PROVE QueueInv'
  BY Zenon
<1> USE DEF QueueInv
<1>1. CASE UNCHANGED vars
  <2>1. TypeOK' /\ Once'
    BY <1>1 DEF vars, TypeOK, Once, Distinct, In
  <2>2. ScanInv'
    BY Zenon, <1>1 DEF vars, ScanInv, Slot
  <2>. QED BY Zenon, <2>1, <2>2
<1>2. ASSUME NEW c \in CPUs,
             Yield(c) \/ ExitCurrentTask(c) \/ BlockCurrent(c)
               \/ (\E t \in Tasks : Reap(c, t))
               \/ (\E T \in SUBSET Tasks : Terminate(c, T) \/ Stop(c, T) \/ Cont(c, T))
      PROVE  QueueInv'
  <2>1. PICK x \in {"flush", "remove", "remove_sched", "wake"} : pc' = [pc EXCEPT ![c] = x]
    BY Zenon, <1>2 DEF Yield, ExitCurrentTask, BlockCurrent, Reap, Terminate, Stop, Cont, AfterRemove
  <2>2. queue' = queue /\ off' = off /\ left' = left /\ deferred' = deferred
          /\ cur' = cur /\ running' = running /\ idle_sp' = idle_sp
    BY Zenon, <1>2 DEF Yield, ExitCurrentTask, BlockCurrent, Reap, Terminate, Stop, Cont
  <2>3. ScanInv'
    BY <2>1, <2>2, ScanFrame, Zenon DEF Points
  <2>4. Once'
    BY <2>2 DEF Once, Distinct, In
  <2>5. status' \in [Tasks -> Statuses] /\ todo' \in [CPUs -> SUBSET Tasks]
    <3>1. CASE Yield(c) \/ ExitCurrentTask(c) \/ BlockCurrent(c)
      BY <3>1, Zenon DEF Yield, ExitCurrentTask, BlockCurrent, TypeOK, Statuses
    <3>2. CASE \E t \in Tasks : Reap(c, t)
      BY <3>2 DEF Reap, TypeOK
    <3>3. ASSUME NEW T \in SUBSET Tasks, Terminate(c, T) \/ Stop(c, T) \/ Cont(c, T)
          PROVE  status' \in [Tasks -> Statuses] /\ todo' \in [CPUs -> SUBSET Tasks]
      <4>1. todo' \in [CPUs -> SUBSET Tasks]
        <5>1. {t \in T : status[t] = "Blocked"} \in SUBSET Tasks
          BY Zenon
        <5>. QED BY <3>3, <5>1, ZenonT(60) DEF Terminate, Stop, Cont, TypeOK
      <4>2. CASE Terminate(c, T)
        BY Zenon, <4>1, <4>2 DEF Terminate, TypeOK, Statuses
      <4>3. CASE Stop(c, T)
        BY Zenon, <4>1, <4>3 DEF Stop, TypeOK, Statuses
      <4>4. CASE Cont(c, T)
        BY Zenon, <4>1, <4>4 DEF Cont, TypeOK, Statuses
      <4>. QED BY Zenon, <3>3, <4>2, <4>3, <4>4
    <3>. QED BY Zenon, <1>2, <3>1, <3>2, <3>3
  <2>6. TypeOK'
    BY <2>1, <2>2, <2>5, Zenon DEF TypeOK, Points
  <2>. QED BY Zenon, <2>3, <2>4, <2>6
<1>3. ASSUME NEW c \in CPUs, NEW t \in Tasks, Spawn(c, t) \/ Wake(c, t)
      PROVE  QueueInv'
  <2> DEFINE st == [status EXCEPT ![t] = "Ready"]
  <2>1. EnqueueOnCpu(c, t, st) /\ st \in [Tasks -> Statuses]
    BY Zenon, <1>3 DEF Spawn, Wake, TypeOK, Statuses
  <2>2. /\ status' \in [Tasks -> Statuses] /\ queue' \in [CPUs -> Seq(Tasks)]
        /\ Once' /\ \A d \in CPUs : pc[d] # "scan"
    BY <2>1, EnqueueQueue, Zenon
  <2>3. pc' = [pc EXCEPT ![c] = "run"]
    BY Zenon, <1>3 DEF Spawn, Wake, TypeOK
  <2>4. ScanInv'
    BY <2>2, <2>3, ScanNone, Zenon DEF Points
  <2>5. TypeOK'
    BY Zenon, <1>3, <2>2 DEF Spawn, Wake, TypeOK
  <2>. QED BY Zenon, <2>2, <2>4, <2>5
<1>4. ASSUME NEW c \in CPUs, RemoveTasksByPid(c)
      PROVE  QueueInv'
  <2>1. \A d \in CPUs : pc[d] # "scan"
    BY Zenon, <1>4, AllUnlocked DEF RemoveTasksByPid
  <2>2. \E x \in Points : x # "scan" /\ pc' = [pc EXCEPT ![c] = x]
    <3>1. pc[c] \in {"remove", "remove_sched"} /\ (pc' = pc \/ \E x \in {"run", "flush"} : pc' = [pc EXCEPT ![c] = x])
      BY Zenon, <1>4 DEF RemoveTasksByPid
    <3>2. pc = [pc EXCEPT ![c] = pc[c]]
      BY Zenon DEF TypeOK
    <3>. QED BY Zenon, <3>1, <3>2 DEF Points
  <2>3. ScanInv'
    BY <2>1, <2>2, ScanNone, Zenon
  <2>4. queue' \in [CPUs -> Seq(Tasks)] /\ Once'
    <3>1. CASE queue' = queue
      <4>1. Once'
        BY <3>1 DEF Once, Distinct, In
      <4>. QED BY Zenon, <3>1, <4>1 DEF TypeOK
    <3>2. ASSUME NEW t \in Tasks, queue' = [s \in CPUs |-> Without(queue[s], t)]
          PROVE  queue' \in [CPUs -> Seq(Tasks)] /\ Once'
      <4>1. \A s \in CPUs : /\ queue'[s] \in Seq(Tasks) /\ Distinct(queue'[s])
                            /\ \A u : In(queue'[s], u) => In(queue[s], u)
        <5> TAKE s \in CPUs
        <5>1. queue[s] \in Seq(Tasks) /\ Distinct(queue[s]) /\ queue'[s] = Without(queue[s], t)
          BY Zenon, <3>2 DEF TypeOK, Once
        <5>. QED BY ZenonT(60), <5>1, WithoutTask
      <4>2. \A d, e \in CPUs : \A u \in Tasks : In(queue'[d], u) /\ In(queue'[e], u) => d = e
        BY <4>1, Zenon DEF Once
      <4>3. queue' \in [CPUs -> Seq(Tasks)]
        BY Zenon, <3>2, <4>1
      <4>. QED BY <4>1, <4>2, <4>3, Zenon DEF Once, Distinct, In
    <3>3. queue' = queue \/ \E t \in Tasks : queue' = [s \in CPUs |-> Without(queue[s], t)]
      BY Zenon, <1>4 DEF RemoveTasksByPid, TypeOK
    <3>. QED BY Zenon, <3>1, <3>2, <3>3
  <2>5. todo' \in [CPUs -> SUBSET Tasks]
    <3>1. todo \in [CPUs -> SUBSET Tasks]
      BY Zenon DEF TypeOK
    <3>2. todo' = todo \/ \E t \in todo[c] : todo' = [todo EXCEPT ![c] = @ \ {t}]
      BY Zenon, <1>4 DEF RemoveTasksByPid
    <3>. QED BY Zenon, <3>1, <3>2
  <2>6. TypeOK'
    <3>1. UNCHANGED <<status, deferred, cur, running, idle_sp, off, left>>
      BY Zenon, <1>4 DEF RemoveTasksByPid
    <3>2. pc' \in [CPUs -> Points]
      BY Zenon, <2>2 DEF TypeOK
    <3>. QED BY <2>4, <2>5, <3>1, <3>2, Zenon DEF TypeOK
  <2>. QED BY Zenon, <2>3, <2>4, <2>6
<1>5. ASSUME NEW c \in CPUs, ContEnqueue(c)
      PROVE  QueueInv'
  <2>1. CASE todo[c] = {} /\ queue' = queue
    <3>1. pc' = [pc EXCEPT ![c] = "run"] /\ status' = status /\ todo' = todo
      BY Zenon, <1>5, <2>1 DEF ContEnqueue
    <3>2. ScanInv'
      BY <1>5, <2>1, <3>1, ScanFrame, Zenon DEF ContEnqueue, Points
    <3>3. TypeOK'
      BY Zenon, <1>5, <2>1, <3>1 DEF ContEnqueue, TypeOK, Points
    <3>4. Once'
      BY <2>1 DEF Once, Distinct, In
    <3>. QED BY Zenon, <3>2, <3>3, <3>4
  <2>2. ASSUME NEW t \in todo[c], EnqueueOnCpu(c, t, status),
               todo' = [todo EXCEPT ![c] = @ \ {t}], pc' = pc
        PROVE  QueueInv'
    <3>1. t \in Tasks /\ status \in [Tasks -> Statuses]
      BY Zenon DEF TypeOK
    <3>2. /\ status' \in [Tasks -> Statuses] /\ queue' \in [CPUs -> Seq(Tasks)]
          /\ Once' /\ \A d \in CPUs : pc[d] # "scan"
      BY Zenon, <2>2, <3>1, EnqueueQueue
    <3>3. pc' = [pc EXCEPT ![c] = "wake"]
      BY Zenon, <1>5, <2>2 DEF ContEnqueue, TypeOK
    <3>4. ScanInv'
      BY <3>2, <3>3, ScanNone, Zenon DEF Points
    <3>5. TypeOK'
      BY <1>5, <2>2, <3>2, Zenon DEF ContEnqueue, TypeOK
    <3>. QED BY Zenon, <3>2, <3>4, <3>5
  <2>. QED BY Zenon, <1>5, <2>1, <2>2 DEF ContEnqueue
<1>6. ASSUME NEW c \in CPUs, Flush(c)
      PROVE  QueueInv'
  <2>1. CASE deferred[c] = <<>>
    <3>1. ScanInv'
      BY <1>6, <2>1, ScanFrame, Zenon DEF Flush, Points, TypeOK
    <3>2. TypeOK'
      <4>1. /\ pc' = [pc EXCEPT ![c] = "pick"] /\ off' = [off EXCEPT ![c] = 0]
            /\ UNCHANGED <<status, queue, deferred, cur, running, idle_sp, left, todo>>
        BY Zenon, <1>6, <2>1 DEF Flush
      <4>. QED BY Zenon, <4>1 DEF TypeOK, Points
    <3>3. Once'
      BY <1>6, <2>1 DEF Flush, Once, Distinct, In
    <3>. QED BY Zenon, <3>1, <3>2, <3>3
  <2>2. CASE deferred[c] # <<>>
    <3>1. deferred[c] \in Seq(Tasks)
      BY Zenon DEF TypeOK
    <3>2. Head(deferred[c]) \in Tasks /\ Tail(deferred[c]) \in Seq(Tasks)
      BY <2>2, <3>1
    <3>3. /\ status' \in [Tasks -> Statuses] /\ queue' \in [CPUs -> Seq(Tasks)]
          /\ Once' /\ \A d \in CPUs : pc[d] # "scan"
      BY Zenon, <1>6, <2>2, <3>2, EnqueueQueue DEF Flush, TypeOK
    <3>4. pc' = [pc EXCEPT ![c] = "flush"]
      BY Zenon, <1>6, <2>2 DEF Flush, TypeOK
    <3>5. ScanInv'
      BY <3>3, <3>4, ScanNone, Zenon DEF Points
    <3>6. TypeOK'
      <4>1. UNCHANGED <<pc, off, cur, running, idle_sp, left, todo>>
        BY Zenon, <1>6, <2>2 DEF Flush
      <4>2. deferred' \in [CPUs -> Seq(Tasks)]
        BY <1>6, <2>2, <3>2, Zenon DEF Flush, TypeOK
      <4>. QED BY <3>3, <4>1, <4>2, Zenon DEF TypeOK
    <3>. QED BY Zenon, <3>3, <3>5, <3>6
  <2>. QED BY Zenon, <2>1, <2>2
<1>7. ASSUME NEW c \in CPUs, LockSlot(c)
      PROVE  QueueInv'
  <2>1. Slot(c) \in CPUs /\ \A d \in CPUs : Slot(d)' = Slot(d)
    BY Zenon, <1>7, SlotIsCpu DEF LockSlot, Slot
  <2>2. Len(queue[Slot(c)]) \in Nat
    BY <2>1 DEF TypeOK
  <2>3a. TypeOK'
    BY Zenon, <1>7, <2>2 DEF LockSlot, TypeOK, Points
  <2>3b. Once'
    BY <1>7 DEF LockSlot, Once, Distinct, In
  <2>4. left'[c] = Len(queue[Slot(c)]) /\ \A d \in CPUs \ {c} : pc'[d] = pc[d] /\ left'[d] = left[d]
    BY Zenon, <1>7 DEF LockSlot, TypeOK
  <2>5. \A d \in CPUs : pc'[d] = "scan" => left'[d] <= Len(queue'[Slot(d)'])
    BY <1>7, <2>1, <2>2, <2>4 DEF LockSlot, ScanInv
  <2>6. \A d, e \in CPUs : pc'[d] = "scan" /\ pc'[e] = "scan" /\ Slot(d)' = Slot(e)' => d = e
    BY <1>7, <2>1, <2>4 DEF LockSlot, ScanInv, Unlocked
  <2>. QED BY Zenon, <2>3a, <2>3b, <2>5, <2>6 DEF ScanInv
<1>8. ASSUME NEW c \in CPUs, SkipCandidate(c)
      PROVE  QueueInv'
  <2> DEFINE r == IF status[Candidate(c)] = "Exited" THEN Popped(c) ELSE Rotated(c)
  <2>1. /\ Slot(c) \in CPUs /\ r \in Seq(Tasks) /\ Distinct(r)
        /\ Len(r) >= Len(queue[Slot(c)]) - 1
        /\ \A u : In(r, u) => In(queue[Slot(c)], u)
    <3>1. Slot(c) \in CPUs /\ Len(queue[Slot(c)]) \in Nat
      BY SlotIsCpu DEF TypeOK
    <3>. QED BY <1>8, <3>1, PopQueue DEF SkipCandidate
  <2>2. queue' = [queue EXCEPT ![Slot(c)] = r]
    BY Zenon, <1>8 DEF SkipCandidate
  <2>. HIDE DEF r
  <2>3. queue' \in [CPUs -> Seq(Tasks)] /\ Once'
    BY <2>1, <2>2, ShrinkOnce, Zenon
  <2>4. TypeOK'
    BY <1>8, <2>3, SMTT(30) DEF SkipCandidate, TypeOK
  <2>5. \A d \in CPUs : Slot(d)' = Slot(d) /\ pc'[d] = pc[d]
    BY Zenon, <1>8 DEF SkipCandidate, Slot
  <2>6. queue'[Slot(c)] = r /\ \A s \in CPUs \ {Slot(c)} : queue'[s] = queue[s]
    BY Zenon, <2>1, <2>2 DEF TypeOK
  <2>7. ASSUME NEW d \in CPUs, pc[d] = "scan" PROVE left'[d] <= Len(queue'[Slot(d)])
    <3>1. CASE d = c
      <4>1. left'[c] = left[c] - 1 /\ left[c] <= Len(queue[Slot(c)]) /\ left[c] \in Nat
        BY Zenon, <1>8 DEF SkipCandidate, TypeOK, ScanInv
      <4>2. Len(queue[Slot(c)]) \in Nat /\ Len(r) \in Nat
        BY SMTT(30), <2>1 DEF TypeOK
      <4>. QED BY <2>1, <2>6, <3>1, <4>1, <4>2
    <3>2. CASE d # c
      <4>1. Slot(d) # Slot(c) /\ Slot(d) \in CPUs
        BY Zenon, <1>8, <2>7, <3>2, SlotIsCpu DEF SkipCandidate, ScanInv
      <4>2. left'[d] = left[d]
        BY Zenon, <1>8, <3>2 DEF SkipCandidate, TypeOK
      <4>. QED BY Zenon, <2>6, <2>7, <4>1, <4>2 DEF ScanInv
    <3>. QED BY Zenon, <3>1, <3>2
  <2>8. ScanInv'
    BY Zenon, <2>5, <2>7 DEF ScanInv
  <2>. QED BY Zenon, <2>3, <2>4, <2>8
<1>9. ASSUME NEW c \in CPUs, Dispatch(c)
      PROVE  QueueInv'
  <2>1. /\ Slot(c) \in CPUs /\ Candidate(c) \in Tasks
        /\ Popped(c) \in Seq(Tasks) /\ Distinct(Popped(c))
        /\ \A u : In(Popped(c), u) => In(queue[Slot(c)], u)
    BY Zenon, <1>9, PopQueue DEF Dispatch
  <2>2. queue' = [queue EXCEPT ![Slot(c)] = Popped(c)]
    BY Zenon, <1>9 DEF Dispatch
  <2>3. queue' \in [CPUs -> Seq(Tasks)] /\ Once'
    BY <2>1, <2>2, ShrinkOnce, Zenon
  <2>4. status' \in [Tasks -> Statuses]
    BY <1>9, <2>1, Zenon DEF Dispatch, SwitchedOut, TypeOK, Statuses
  <2>5. deferred' \in [CPUs -> Seq(Tasks)]
    <3>1. CASE Requeues(cur[c])
      <4>1. cur[c] \in Tasks /\ deferred[c] \in Seq(Tasks)
        BY Zenon, <3>1 DEF Requeues, TypeOK
      <4>2. Append(deferred[c], cur[c]) \in Seq(Tasks)
        BY <4>1
      <4>. QED BY Zenon, <1>9, <3>1, <4>2 DEF Dispatch, DeferPrev, TypeOK
    <3>2. CASE ~Requeues(cur[c])
      BY Zenon, <1>9, <3>2 DEF Dispatch, DeferPrev, TypeOK
    <3>. QED BY Zenon, <3>1, <3>2
  <2>6. TypeOK'
    BY <1>9, <2>1, <2>3, <2>4, <2>5, Zenon DEF Dispatch, TypeOK, Points
  <2>7. \A d \in CPUs : pc'[d] = "scan" =>
           d # c /\ pc[d] = "scan" /\ Slot(d)' = Slot(d) /\ left'[d] = left[d] /\ queue'[Slot(d)] = queue[Slot(d)]
    <3> SUFFICES ASSUME NEW d \in CPUs, pc'[d] = "scan"
                 PROVE  d # c /\ pc[d] = "scan" /\ Slot(d)' = Slot(d) /\ left'[d] = left[d]
                          /\ queue'[Slot(d)] = queue[Slot(d)]
      BY Zenon
    <3>1. d # c /\ pc[d] = "scan" /\ Slot(d)' = Slot(d) /\ left'[d] = left[d]
      BY Zenon, <1>9 DEF Dispatch, TypeOK, Slot
    <3>2. Slot(d) # Slot(c) /\ Slot(d) \in CPUs
      BY Zenon, <1>9, <3>1, SlotIsCpu DEF Dispatch, ScanInv
    <3>. QED BY Zenon, <2>1, <2>2, <3>1, <3>2 DEF TypeOK
  <2>8. ScanInv'
    BY <2>7 DEF ScanInv
  <2>. QED BY Zenon, <2>3, <2>6, <2>8
<1>10. ASSUME NEW c \in CPUs, NextVictim(c) \/ IdleFallback(c) \/ Switch(c)
       PROVE  QueueInv'
  <2>1. \E x \in Points : x # "scan" /\ pc' = [pc EXCEPT ![c] = x]
    BY Zenon, <1>10 DEF NextVictim, IdleFallback, Switch, Points
  <2>2. queue' = queue /\ \A d \in CPUs \ {c} : off'[d] = off[d] /\ left'[d] = left[d]
    BY Zenon, <1>10 DEF NextVictim, IdleFallback, Switch, TypeOK
  <2>3. ScanInv'
    BY <2>1, <2>2, ScanFrame, Zenon
  <2>4. Once'
    BY <2>2 DEF Once, Distinct, In
  <2>5. CASE NextVictim(c) \/ Switch(c)
    <3>1. TypeOK'
      <4>1. CASE NextVictim(c)
        BY <4>1, CpuAssumption DEF NextVictim, TypeOK, Points
      <4>2. CASE Switch(c)
        <5>1. idle_sp' \in [CPUs -> BOOLEAN]
          BY Zenon, <4>2 DEF Switch, TypeOK
        <5>2. running' \in [CPUs -> Tasks \cup {NoTask}]
          BY Zenon, <4>2 DEF Switch, TypeOK
        <5>. QED BY Zenon, <4>2, <5>1, <5>2 DEF Switch, TypeOK, Points
      <4>. QED BY Zenon, <2>5, <4>1, <4>2
    <3>. QED BY Zenon, <2>3, <2>4, <3>1
  <2>6. CASE IdleFallback(c)
    <3>1. deferred' \in [CPUs -> Seq(Tasks)]
      <4>1. CASE Requeues(cur[c])
        <5>1. cur[c] \in Tasks /\ deferred[c] \in Seq(Tasks)
          BY Zenon, <4>1 DEF Requeues, TypeOK
        <5>2. Append(deferred[c], cur[c]) \in Seq(Tasks)
          BY <5>1
        <5>3. deferred' \in {deferred, [deferred EXCEPT ![c] = Append(@, cur[c])]}
          BY Zenon, <2>6 DEF IdleFallback, DeferPrev
        <5>4. deferred \in [CPUs -> Seq(Tasks)]
          BY Zenon DEF TypeOK
        <5>. QED BY <5>2, <5>3, <5>4, Zenon
      <4>2. CASE ~Requeues(cur[c])
        BY Zenon, <2>6, <4>2 DEF IdleFallback, DeferPrev, TypeOK
      <4>. QED BY Zenon, <4>1, <4>2
    <3>2. status' \in [Tasks -> Statuses]
      BY <2>6, Zenon DEF IdleFallback, SwitchedOut, TypeOK, Statuses
    <3>3. TypeOK'
      BY <2>6, <3>1, <3>2, Zenon DEF IdleFallback, TypeOK, Points
    <3>. QED BY Zenon, <2>3, <2>4, <3>3
  <2>. QED BY Zenon, <1>10, <2>5, <2>6
<1>11. ASSUME NEW c \in CPUs, Continue(c) \/ Start(c) PROVE QueueInv'
  BY Zenon, <1>2, <1>3, <1>4, <1>5, <1>6, <1>7, <1>8, <1>9, <1>10, <1>11 DEF Continue, Start
<1>. QED BY Zenon, <1>1, <1>11 DEF Next

-----------------------------------------------------------------------------
(* Theorems for every number of CPUs and tasks, blocking or not. *)

LEMMA QueueInit == Init => QueueInv
<1> SUFFICES ASSUME Init PROVE QueueInv
  BY Zenon
<1>1. TypeOK
  BY DEF Init, TypeOK, Statuses, Points
<1>2. Once
  BY DEF Init, Once, Distinct, In
<1>3. ScanInv
  BY Zenon DEF Init, ScanInv
<1>. QED BY Zenon, <1>1, <1>2, <1>3 DEF QueueInv

LEMMA QueueInvariant == Spec => []QueueInv
BY QueueInit, QueueStep, PTL DEF Spec

\* The scheduler's state is well formed in every reachable state; in particular the
\* pop loops of pick_next_from_slot and steal_from_slot never run past the queue.
THEOREM TypeCorrect == Spec => []TypeOK
<1>1. QueueInv => TypeOK
  BY Zenon DEF QueueInv
<1>. QED BY <1>1, QueueInvariant, PTL

\* No task is in the run queues twice, although enqueue_on_cpu, the deferred
\* requeue, the wake-ups and the steals of several CPUs interleave.
THEOREM NoDuplicates == Spec => []QueuedOnce
<1>1. QueueInv => QueuedOnce
  <2> SUFFICES ASSUME QueueInv, NEW c \in CPUs, NEW d \in CPUs,
                      NEW i \in DOMAIN queue[c], NEW j \in DOMAIN queue[d],
                      queue[c][i] = queue[d][j]
               PROVE  c = d /\ i = j
    BY Zenon DEF QueuedOnce
  <2>1. queue[c][i] \in Tasks
    BY DEF QueueInv, TypeOK
  <2>2. c = d
    BY Zenon, <2>1 DEF QueueInv, Once, In
  <2>. QED BY Zenon, <2>2 DEF QueueInv, Once, Distinct
<1>. QED BY <1>1, QueueInvariant, PTL

\* An exited task stays exited: neither a wake-up, a flush nor a switch revives it.
THEOREM ExitIsForGood == Spec => ExitedIsFinal
<1>1. QueueInv /\ [Next]_vars =>
        [\A t \in Tasks : status[t] = "Exited" => status'[t] = "Exited"]_vars
  <2> SUFFICES ASSUME QueueInv, Next, NEW t \in Tasks, status[t] = "Exited"
               PROVE  status'[t] = "Exited"
    BY Zenon
  <2> USE DEF QueueInv
  <2>1. ASSUME NEW c \in CPUs, NEW u \in Tasks, EnqueueOnCpu(c, u, status)
        PROVE  status'[t] = "Exited"
    BY Zenon, <2>1 DEF EnqueueOnCpu, Schedulable, TypeOK
  <2>2. ASSUME NEW c \in CPUs, Spawn(c, t) \/ Wake(c, t) PROVE FALSE
    BY Zenon, <2>2 DEF Spawn, Wake
  <2>3. ASSUME NEW c \in CPUs, NEW u \in Tasks \ {t}, Spawn(c, u) \/ Wake(c, u)
        PROVE  status'[t] = "Exited"
    BY Zenon, <2>3 DEF Spawn, Wake, EnqueueOnCpu, TypeOK
  <2>4. ASSUME NEW c \in CPUs,
               Yield(c) \/ ExitCurrentTask(c) \/ BlockCurrent(c) \/ (\E u \in Tasks : Reap(c, u))
                 \/ RemoveTasksByPid(c) \/ LockSlot(c) \/ SkipCandidate(c) \/ NextVictim(c) \/ Switch(c)
        PROVE  status'[t] = "Exited"
    BY Zenon, <2>4 DEF Yield, ExitCurrentTask, BlockCurrent, Reap, RemoveTasksByPid, LockSlot,
                SkipCandidate, NextVictim, Switch, TypeOK
  <2>5. ASSUME NEW c \in CPUs, NEW T \in SUBSET Tasks, Terminate(c, T) \/ Stop(c, T) \/ Cont(c, T)
        PROVE  status'[t] = "Exited"
    BY Zenon, <2>5 DEF Terminate, Stop, Cont
  <2>6. ASSUME NEW c \in CPUs, ContEnqueue(c) PROVE status'[t] = "Exited"
    BY Zenon, <2>1, <2>6 DEF ContEnqueue, TypeOK
  <2>7. ASSUME NEW c \in CPUs, Flush(c) PROVE status'[t] = "Exited"
    <3>1. CASE deferred[c] = <<>>
      BY Zenon, <2>7, <3>1 DEF Flush
    <3>2. CASE deferred[c] # <<>>
      <4>1. Head(deferred[c]) \in Tasks
        BY Zenon, <3>2, ListMembers DEF TypeOK
      <4>. QED BY Zenon, <2>1, <2>7, <3>2, <4>1 DEF Flush
    <3>. QED BY Zenon, <3>1, <3>2
  <2>8. ASSUME NEW c \in CPUs, Dispatch(c) PROVE status'[t] = "Exited"
    BY Zenon, <2>8 DEF Dispatch, SwitchedOut, Requeues, TypeOK
  <2>9. ASSUME NEW c \in CPUs, IdleFallback(c) PROVE status'[t] = "Exited"
    BY Zenon, <2>9 DEF IdleFallback, SwitchedOut, Requeues, TypeOK
  <2>. QED BY <2>2, <2>3, <2>4, <2>5, <2>6, <2>7, <2>8, <2>9, Zenon DEF Next, Continue, Start
<1>. QED BY <1>1, QueueInvariant, PTL DEF Spec, ExitedIsFinal

-----------------------------------------------------------------------------
(* Contexts: the invariant, and the steps of the code that calls the scheduler. *)

\* One CPU, or no task ever blocks.  Otherwise a task that blocks on one CPU can be
\* woken on another before its context is saved.
Solo == \A c, d \in CPUs : c = d
Confined == Solo \/ ~MayBlock

\* Current task and stack of a CPU: they differ only between the choice of the next
\* task and the switch; nobody else has the current task of a CPU on its stack.
StackInv ==
    /\ \A c \in CPUs : pc[c] # "switch" <=> running[c] = cur[c]
    /\ \A c, d \in CPUs : cur[c] = cur[d] /\ cur[c] # NoTask => c = d
    /\ \A c, d \in CPUs : running[c] = cur[d] /\ cur[d] # NoTask => c = d
    /\ \A c, d \in CPUs : running[c] = running[d] /\ running[c] # NoTask => c = d
    /\ \A c \in CPUs : running[c] # NoTask => idle_sp[c]

\* What a status says about where the task is not ...
AwayInv ==
    /\ \A t \in Tasks, c \in CPUs : status[t] \in {"Unborn", "Ready"} => cur[c] # t /\ running[c] # t
    /\ \A t \in Tasks, c \in CPUs : status[t] = "Unborn" => ~In(deferred[c], t) /\ t \notin todo[c]
    /\ ~MayBlock => \A t \in Tasks : status[t] # "Blocked"

\* ... and where it is (NoTaskLost, in terms of list membership).
PlaceInv ==
    \A t \in Tasks :
        /\ status[t] = "Ready" => Queued(t) \/ \E c \in CPUs : pc[c] = "wake" /\ t \in todo[c]
        /\ status[t] = "Switching" => \E c \in CPUs : In(deferred[c], t)
        /\ status[t] = "Running" => \E c \in CPUs : cur[c] = t

\* The deferred lists hold a task once; it is no CPU's current task, and is on a
\* stack only where the switch away from it is still to come; a CPU that looks for
\* a task has emptied its list.
DeferredInv ==
    /\ \A c \in CPUs : Distinct(deferred[c])
    /\ \A c, d \in CPUs, t \in Tasks : In(deferred[c], t) /\ In(deferred[d], t) => c = d
    /\ \A c, d \in CPUs, t \in Tasks : In(deferred[c], t) =>
          cur[d] # t /\ (running[d] = t => d = c /\ pc[c] = "switch")
    /\ \A c \in CPUs : pc[c] \in {"pick", "scan"} => deferred[c] = <<>>
    /\ ~MayBlock => \A c \in CPUs, t \in Tasks :
          In(deferred[c], t) => status[t] \in {"Switching", "Exited"}

\* The tasks a signal has still to deal with.
TodoInv ==
    /\ \A c \in CPUs, t \in Tasks : pc[c] \in {"remove", "remove_sched"} /\ t \in todo[c] =>
          status[t] = "Exited" \/ (Solo /\ status[t] = "Blocked")
    /\ \A c \in CPUs, t \in Tasks : pc[c] = "wake" /\ t \in todo[c] => Solo /\ status[t] = "Ready"

\* On one CPU the current task is Running except between its last call of
\* schedule() and the switch.
SoloInv ==
    Solo => \A c \in CPUs :
        pc[c] \in {"run", "switch", "remove", "wake"} /\ cur[c] # NoTask => status[cur[c]] = "Running"

ContextInv == StackInv /\ AwayInv /\ PlaceInv /\ DeferredInv /\ TodoInv /\ SoloInv


LEMMA ContextInit == Init => ContextInv
<1> SUFFICES ASSUME Init PROVE ContextInv
  BY Zenon
<1>1. \A c \in CPUs : \A t : ~In(deferred[c], t)
  BY DEF Init, In
<1>2. DeferredInv
  BY <1>1 DEF Init, DeferredInv, Distinct
<1>3. StackInv
  BY Zenon DEF Init, StackInv
<1>4. AwayInv
  BY Zenon, <1>1, NoTaskAssumption DEF Init, AwayInv
<1>5. PlaceInv /\ TodoInv /\ SoloInv
  BY Zenon DEF Init, PlaceInv, TodoInv, SoloInv
<1>. QED BY Zenon, <1>2, <1>3, <1>4, <1>5 DEF ContextInv

\* The run queues are compared by their members.
LEMMA QueuedIn == \A t : Queued(t) <=> \E c \in CPUs : In(queue[c], t)
BY Zenon DEF Queued, In

LEMMA QueuedInNext == \A t : Queued(t)' <=> \E c \in CPUs : In(queue'[c], t)
BY Zenon DEF Queued, In

\* A step that leaves the deferred lists, the current tasks and the stacks alone.
LEMMA DeferredFrame ==
    ASSUME DeferredInv, deferred' = deferred, cur' = cur, running' = running,
           \A d \in CPUs : pc[d] = "switch" => pc'[d] = "switch",
           \A d \in CPUs : pc'[d] \in {"pick", "scan"} => pc[d] \in {"pick", "scan"} \/ deferred[d] = <<>>,
           ~MayBlock => \A u \in Tasks : status[u] \in {"Switching", "Exited"} => status'[u] \in {status[u], "Exited"}
    PROVE  DeferredInv'
<1>1. \A d \in CPUs : Distinct(deferred'[d])
  BY Zenon DEF DeferredInv
<1>2. \A d, e \in CPUs, t \in Tasks : In(deferred'[d], t) /\ In(deferred'[e], t) => d = e
  BY Zenon DEF DeferredInv
<1>3. \A d, e \in CPUs, t \in Tasks : In(deferred'[d], t) =>
         cur'[e] # t /\ (running'[e] = t => e = d /\ pc'[d] = "switch")
  BY DEF DeferredInv
<1>4. \A d \in CPUs : pc'[d] \in {"pick", "scan"} => deferred'[d] = <<>>
  BY Zenon DEF DeferredInv
<1>5. ~MayBlock => \A d \in CPUs, t \in Tasks :
         In(deferred'[d], t) => status'[t] \in {"Switching", "Exited"}
  BY Zenon DEF DeferredInv
<1>. QED BY Zenon, <1>1, <1>2, <1>3, <1>4, <1>5 DEF DeferredInv

\* Leaving the code a CPU runs for the scheduler, and the system calls that change a
\* status without touching a queue.
LEMMA StartStep ==
    ASSUME Confined, QueueInv, ContextInv, NEW c \in CPUs,
           Yield(c) \/ ExitCurrentTask(c) \/ BlockCurrent(c)
             \/ (\E t \in Tasks : Reap(c, t))
             \/ (\E T \in SUBSET Tasks : Terminate(c, T) \/ Stop(c, T))
    PROVE  ContextInv'
<1> USE DEF QueueInv, ContextInv
<1>1. /\ pc[c] = "run"
      /\ UNCHANGED <<queue, deferred, cur, running, idle_sp>>
  BY Zenon DEF Yield, ExitCurrentTask, BlockCurrent, Reap, Terminate, Stop
<1>2. \A d \in CPUs \ {c} : pc'[d] = pc[d] /\ todo'[d] = todo[d]
  BY Zenon DEF Yield, ExitCurrentTask, BlockCurrent, Reap, Terminate, Stop, TypeOK
<1>3. pc'[c] \in {"flush", "remove", "remove_sched"}
  BY Zenon DEF Yield, ExitCurrentTask, BlockCurrent, Reap, Terminate, Stop, AfterRemove, TypeOK
<1>4. \A t \in Tasks : status'[t] = status[t]
                         \/ (status'[t] = "Exited" /\ status[t] # "Unborn")
                         \/ (MayBlock /\ status'[t] = "Blocked" /\ status[t] \notin {"Exited", "Unborn"})
  <2>1. CASE Yield(c) \/ \E t \in Tasks : Reap(c, t)
    BY Zenon, <2>1 DEF Yield, Reap
  <2>2. CASE ExitCurrentTask(c) \/ BlockCurrent(c)
    BY ZenonT(60), <2>2 DEF ExitCurrentTask, BlockCurrent, TypeOK, AwayInv
  <2>3. CASE \E T \in SUBSET Tasks : Terminate(c, T) \/ Stop(c, T)
    BY SMTT(30), <2>3 DEF Terminate, Stop
  <2>. QED BY Zenon, <2>1, <2>2, <2>3
<1>5. pc'[c] # "flush" => \A t \in todo'[c] :
          status'[t] = "Exited" \/ (MayBlock /\ status'[t] = "Blocked")
  <2>1. CASE Yield(c) \/ ExitCurrentTask(c) \/ BlockCurrent(c)
    BY Zenon, <2>1 DEF Yield, ExitCurrentTask, BlockCurrent, TypeOK
  <2>2. CASE \E t \in Tasks : Reap(c, t)
    BY SMTT(30), <2>2 DEF Reap, TypeOK
  <2>3. CASE \E T \in SUBSET Tasks : Terminate(c, T) \/ Stop(c, T)
    BY SMTT(30), <2>3 DEF Terminate, Stop, TypeOK
  <2>. QED BY Zenon, <2>1, <2>2, <2>3
<1>6. \A t \in Tasks : status'[t] = "Unborn" => t \notin todo'[c]
  <2>1. CASE Yield(c) \/ ExitCurrentTask(c) \/ BlockCurrent(c)
    BY Zenon, <1>4, <2>1 DEF Yield, ExitCurrentTask, BlockCurrent, AwayInv
  <2>2. CASE \E t \in Tasks : Reap(c, t)
    BY SMTT(30), <2>2 DEF Reap, TypeOK
  <2>3. CASE \E T \in SUBSET Tasks : Terminate(c, T) \/ Stop(c, T)
    BY SMTT(30), <2>3 DEF Terminate, Stop, TypeOK
  <2>. QED BY Zenon, <2>1, <2>2, <2>3
<1>7. pc'[c] = "remove" /\ cur[c] # NoTask => status'[cur[c]] = status[cur[c]]
  <2>1. CASE Yield(c) \/ ExitCurrentTask(c) \/ BlockCurrent(c)
    BY Zenon, <2>1 DEF Yield, ExitCurrentTask, BlockCurrent, TypeOK
  <2>2. CASE \E t \in Tasks : Reap(c, t)
    BY Zenon, <2>2 DEF Reap
  <2>3. CASE \E T \in SUBSET Tasks : Terminate(c, T) \/ Stop(c, T)
    BY Zenon, <2>3 DEF Terminate, Stop, AfterRemove, TypeOK
  <2>. QED BY Zenon, <2>1, <2>2, <2>3
<1>8. MayBlock => Solo
  BY Zenon DEF Confined
<1>9. StackInv'
  BY <1>1, <1>2, <1>3 DEF StackInv
<1>10. AwayInv'
  BY ZenonT(60), <1>1, <1>2, <1>4, <1>6 DEF AwayInv
<1>11. PlaceInv'
  <2>1. \A t \in Tasks : status'[t] \in {"Ready", "Switching", "Running"} => status'[t] = status[t]
    BY Zenon, <1>4
  <2>2. \A d \in CPUs, t \in Tasks : pc[d] = "wake" /\ t \in todo[d] => pc'[d] = "wake" /\ t \in todo'[d]
    BY Zenon, <1>1, <1>2
  <2>3. \A t : Queued(t)' <=> Queued(t)
    BY Zenon, <1>1, QueuedIn, QueuedInNext
  <2>. QED BY SMTT(30), <1>1, <2>1, <2>2, <2>3 DEF PlaceInv
<1>12. DeferredInv'
  <2>1. /\ \A d \in CPUs : pc[d] = "switch" => pc'[d] = "switch"
        /\ \A d \in CPUs : pc'[d] \in {"pick", "scan"} => pc[d] \in {"pick", "scan"} \/ deferred[d] = <<>>
    BY Zenon, <1>1, <1>2, <1>3
  <2>2. ~MayBlock => \A u \in Tasks : status[u] \in {"Switching", "Exited"} => status'[u] \in {status[u], "Exited"}
    BY Zenon, <1>4
  <2>3. deferred' = deferred /\ cur' = cur /\ running' = running
    BY Zenon, <1>1
  <2>. QED BY <2>1, <2>2, <2>3, DeferredFrame, Zenon
<1>13. TodoInv'
  <2>1. ASSUME NEW d \in CPUs, NEW t \in Tasks, pc'[d] \in {"remove", "remove_sched"}, t \in todo'[d]
        PROVE  status'[t] = "Exited" \/ (Solo /\ status'[t] = "Blocked")
    BY Zenon, <1>1, <1>2, <1>3, <1>4, <1>5, <1>8, <2>1 DEF TodoInv, Solo
  <2>2. ASSUME NEW d \in CPUs, NEW t \in Tasks, pc'[d] = "wake", t \in todo'[d]
        PROVE  FALSE
    BY SMTT(30), <1>1, <1>2, <1>3, <2>2 DEF TodoInv, Solo
  <2>. QED BY Zenon, <2>1, <2>2 DEF TodoInv
<1>14. SoloInv'
  BY Zenon, <1>1, <1>3, <1>7 DEF SoloInv, Solo
<1>. QED BY Zenon, <1>9, <1>10, <1>11, <1>12, <1>13, <1>14

\* A task becomes Ready and is queued: spawn, the stdin wake-up, SIGCONT.
LEMMA WakeStep ==
    ASSUME Confined, QueueInv, ContextInv, NEW c \in CPUs,
           \/ \E t \in Tasks : Spawn(c, t) \/ Wake(c, t)
           \/ \E T \in SUBSET Tasks : Cont(c, T)
           \/ ContEnqueue(c)
    PROVE  ContextInv'
<1> USE DEF QueueInv, ContextInv
<1>0. MayBlock => Solo
  BY Zenon DEF Confined
<1>1. ASSUME NEW t \in Tasks, Spawn(c, t) \/ Wake(c, t) PROVE ContextInv'
  <2>1. /\ pc[c] = "run" /\ status[t] \in {"Unborn", "Blocked"}
        /\ EnqueueOnCpu(c, t, [status EXCEPT ![t] = "Ready"])
        /\ UNCHANGED <<deferred, cur, running, idle_sp, pc, todo>>
    BY Zenon, <1>1 DEF Spawn, Wake
  <2>2. [status EXCEPT ![t] = "Ready"] \in [Tasks -> Statuses]
    BY Zenon DEF TypeOK, Statuses
  <2>3. \A u \in Tasks : status'[u] = IF u = t THEN "Ready" ELSE status[u]
    BY Zenon, <2>1 DEF EnqueueOnCpu, Schedulable, TypeOK
  <2>4. Queued(t)' /\ \A u \in Tasks : Queued(u) => Queued(u)'
    BY <2>1, <2>2, EnqueueQueue, Zenon DEF Schedulable, TypeOK
  <2>5. status[t] = "Blocked" => MayBlock
    BY Zenon DEF AwayInv
  <2>6. \A d \in CPUs : cur[d] # t /\ running[d] # t
    <3>1. CASE status[t] = "Unborn"
      BY Zenon, <3>1 DEF AwayInv
    <3>2. CASE status[t] = "Blocked"
      <4>1. Solo /\ cur[c] # t /\ running[c] = cur[c]
        BY Zenon, <1>0, <2>1, <2>5, <3>2, NoTaskAssumption DEF SoloInv, StackInv
      <4>. QED BY Zenon, <4>1 DEF Solo
    <3>. QED BY Zenon, <2>1, <3>1, <3>2
  <2>7. StackInv'
    BY Zenon, <2>1 DEF StackInv
  <2>8. AwayInv'
    BY Zenon, <2>1, <2>3, <2>6 DEF AwayInv
  <2>9. PlaceInv'
    BY ZenonT(60), <2>1, <2>3, <2>4 DEF PlaceInv
  <2>10. DeferredInv'
    <3>1. ~MayBlock => \A d \in CPUs : ~In(deferred[d], t)
      BY Zenon, <2>1, <2>5 DEF AwayInv
    <3>. QED BY <2>1, <2>3, <3>1 DEF DeferredInv
  <2>11. TodoInv'
    <3>1. \A d \in CPUs : pc[d] \in {"remove", "remove_sched", "wake"} => t \notin todo[d]
      BY Zenon, <1>0, <2>1, <2>5 DEF AwayInv, Solo
    <3>. QED BY <2>1, <2>3, <3>1 DEF TodoInv
  <2>12. SoloInv'
    BY Zenon, <2>1, <2>3, <2>6 DEF SoloInv, TypeOK
  <2>. QED BY Zenon, <2>7, <2>8, <2>9, <2>10, <2>11, <2>12
<1>2. ASSUME NEW T \in SUBSET Tasks, Cont(c, T) PROVE ContextInv'
  <2>1. /\ pc[c] = "run" /\ pc' = [pc EXCEPT ![c] = "wake"]
        /\ UNCHANGED <<queue, deferred, cur, running, idle_sp>>
        /\ \A t \in Tasks : status'[t] = IF t \in T /\ status[t] = "Blocked" THEN "Ready" ELSE status[t]
    BY Zenon, <1>2 DEF Cont
  <2>2. todo'[c] = {t \in T : status[t] = "Blocked"} /\ \A d \in CPUs \ {c} : todo'[d] = todo[d]
    BY Zenon, <1>2 DEF Cont, TypeOK
  <2>3. pc'[c] = "wake" /\ \A d \in CPUs \ {c} : pc'[d] = pc[d]
    BY Zenon, <2>1 DEF TypeOK
  <2>4. (\E t \in Tasks : status[t] = "Blocked") => Solo
    BY Zenon, <1>0 DEF AwayInv
  <2>5. \A t \in Tasks : status[t] = "Blocked" => \A d \in CPUs : cur[d] # t /\ running[d] # t
    BY SMTT(30), <2>1, <2>4, NoTaskAssumption DEF SoloInv, StackInv, Solo
  <2>6. StackInv'
    BY <2>1, <2>3, SMTT(30) DEF StackInv
  <2>7. AwayInv'
    BY Zenon, <2>1, <2>2, <2>5 DEF AwayInv
  <2>8. PlaceInv'
    <3>1. \A t : Queued(t)' <=> Queued(t)
      BY Zenon, <2>1, QueuedIn, QueuedInNext
    <3>. QED BY <2>1, <2>2, <2>3, <3>1 DEF PlaceInv
  <2>9. DeferredInv'
    <3>1. /\ \A d \in CPUs : pc[d] = "switch" => pc'[d] = "switch"
          /\ \A d \in CPUs : pc'[d] \in {"pick", "scan"} => pc[d] \in {"pick", "scan"} \/ deferred[d] = <<>>
      BY Zenon, <2>1, <2>3
    <3>2. ~MayBlock => \A u \in Tasks : status[u] \in {"Switching", "Exited"} => status'[u] \in {status[u], "Exited"}
      BY Zenon, <2>1
    <3>3. deferred' = deferred /\ cur' = cur /\ running' = running
      BY Zenon, <2>1
    <3>. QED BY <3>1, <3>2, <3>3, DeferredFrame, ZenonT(30)
  <2>10. TodoInv'
    BY SMTT(30), <2>1, <2>2, <2>3, <2>4 DEF TodoInv, Solo
  <2>11. SoloInv'
    BY Zenon, <2>1, <2>3, <2>5 DEF SoloInv, Solo, TypeOK
  <2>. QED BY Zenon, <2>6, <2>7, <2>8, <2>9, <2>10, <2>11
<1>3. ASSUME NEW t \in todo[c], pc[c] = "wake", EnqueueOnCpu(c, t, status),
             todo' = [todo EXCEPT ![c] = @ \ {t}],
             UNCHANGED <<pc, deferred, cur, running, idle_sp>>
      PROVE  ContextInv'
  <2>1. t \in Tasks /\ Solo /\ status[t] = "Ready"
    BY Zenon, <1>3 DEF TypeOK, TodoInv
  <2>2. \A u \in Tasks : status'[u] = status[u]
    BY Zenon, <1>3, <2>1 DEF EnqueueOnCpu, TypeOK
  <2>3. Queued(t)' /\ \A u \in Tasks : Queued(u) => Queued(u)'
    BY <1>3, <2>1, EnqueueQueue, Zenon DEF Schedulable, TypeOK
  <2>4. todo'[c] = todo[c] \ {t} /\ \A d \in CPUs \ {c} : todo'[d] = todo[d]
    BY Zenon, <1>3 DEF TypeOK
  <2>5. StackInv' /\ AwayInv'
    BY <1>3, <2>2, <2>4 DEF StackInv, AwayInv
  <2>6. PlaceInv'
    BY <1>3, <2>2, <2>3, <2>4 DEF PlaceInv
  <2>7. DeferredInv'
    <3>1. /\ \A d \in CPUs : pc[d] = "switch" => pc'[d] = "switch"
          /\ \A d \in CPUs : pc'[d] \in {"pick", "scan"} => pc[d] \in {"pick", "scan"} \/ deferred[d] = <<>>
      BY Zenon, <1>3
    <3>2. ~MayBlock => \A u \in Tasks : status[u] \in {"Switching", "Exited"} => status'[u] \in {status[u], "Exited"}
      BY Zenon, <2>2
    <3>3. deferred' = deferred /\ cur' = cur /\ running' = running
      BY Zenon, <1>3
    <3>. QED BY <3>1, <3>2, <3>3, DeferredFrame, Zenon
  <2>8. TodoInv' /\ SoloInv'
    BY SMTT(30), <1>3, <2>2, <2>4 DEF TodoInv, SoloInv, TypeOK
  <2>. QED BY Zenon, <2>5, <2>6, <2>7, <2>8
<1>4. ASSUME pc[c] = "wake", todo[c] = {}, pc' = [pc EXCEPT ![c] = "run"],
             UNCHANGED <<status, queue, todo, deferred, cur, running, idle_sp>>
      PROVE  ContextInv'
  <2>1. pc'[c] = "run" /\ \A d \in CPUs \ {c} : pc'[d] = pc[d]
    BY Zenon, <1>4 DEF TypeOK
  <2>2. \A t : Queued(t)' <=> Queued(t)
    BY Zenon, <1>4, QueuedIn, QueuedInNext
  <2>3. StackInv' /\ AwayInv'
    BY <1>4, <2>1 DEF StackInv, AwayInv
  <2>4. PlaceInv'
    BY ZenonT(60), <1>4, <2>1, <2>2 DEF PlaceInv
  <2>5. DeferredInv'
    <3>1. /\ \A d \in CPUs : pc[d] = "switch" => pc'[d] = "switch"
          /\ \A d \in CPUs : pc'[d] \in {"pick", "scan"} => pc[d] \in {"pick", "scan"} \/ deferred[d] = <<>>
      BY Zenon, <1>4, <2>1
    <3>2. ~MayBlock => \A u \in Tasks : status[u] \in {"Switching", "Exited"} => status'[u] \in {status[u], "Exited"}
      BY Zenon, <1>4
    <3>3. deferred' = deferred /\ cur' = cur /\ running' = running
      BY Zenon, <1>4
    <3>. QED BY <3>1, <3>2, <3>3, DeferredFrame, Zenon
  <2>6. TodoInv' /\ SoloInv'
    BY ZenonT(60), <1>4, <2>1 DEF TodoInv, SoloInv
  <2>. QED BY Zenon, <2>3, <2>4, <2>5, <2>6
<1>. QED BY Zenon, <1>1, <1>2, <1>3, <1>4 DEF ContEnqueue
=============================================================================
