------------------------------- MODULE Waiting -------------------------------
(***************************************************************************)
(* How threads wait for one another in kernel/src/sync: the condition      *)
(* variable, the barriers, the count-down latch, and the cell that is      *)
(* initialised once.                                                       *)
(***************************************************************************)
EXTENDS Threads

CONSTANTS Waiters,      \* the threads that meet
          LatchCount,   \* what a latch starts with
          LatchMax      \* u32::MAX

CallsMade(t) == MaxCalls[kind] - local[t].calls

(***************************************************************************)
(* CondVar with its mutex, as wait_while uses them: the condition is       *)
(* "ready", which a notifier sets under the mutex before it notifies.      *)
(***************************************************************************)
CvInit ==
    /\ kind = "condvar"
    /\ shared = [locked |-> FALSE, seq |-> 0, ready |-> FALSE]
    /\ local = [t \in Waiters |-> Idle("condvar")]

CvEnter(t) == \E call \in {"wait", "notify"} : Enter("condvar", t, call, "lock")

CvLock(t) ==
    /\ At("condvar", t, "lock") /\ ~shared.locked
    /\ Step("condvar", t, [shared EXCEPT !.locked = TRUE],
            Goto(local[t], IF local[t].call = "wait" THEN "test" ELSE "set"))

\* wait_while: the condition is tested with the mutex held.
CvTest(t) ==
    /\ At("condvar", t, "test")
    /\ Step("condvar", t, shared, Goto(local[t], IF shared.ready THEN "leave" ELSE "seq"))

CvUnlock(t) ==
    /\ At("condvar", t, "leave")
    /\ Step("condvar", t, [shared EXCEPT !.locked = FALSE],
            IF local[t].call = "wait" THEN Done(local[t]) ELSE Goto(local[t], "notify"))

\* wait: the sequence number is read before the mutex is dropped.
CvLoadSeq(t) ==
    /\ At("condvar", t, "seq")
    /\ Step("condvar", t, shared, [local[t] EXCEPT !.pc = "drop", !.seen = shared.seq])

CvDrop(t) ==
    /\ At("condvar", t, "drop")
    /\ Step("condvar", t, [shared EXCEPT !.locked = FALSE], Goto(local[t], "sleep"))

CvSleep(t) ==
    /\ At("condvar", t, "sleep") /\ shared.seq # local[t].seen
    /\ Step("condvar", t, shared, Goto(local[t], "lock"))

CvSet(t) ==
    /\ At("condvar", t, "set")
    /\ Step("condvar", t, [shared EXCEPT !.ready = TRUE], Goto(local[t], "leave"))

CvNotify(t) ==
    /\ At("condvar", t, "notify")
    /\ Step("condvar", t, [shared EXCEPT !.seq = @ + 1], Done(local[t]))

CvStep(t) ==
    \/ CvLock(t) \/ CvTest(t) \/ CvUnlock(t) \/ CvLoadSeq(t) \/ CvDrop(t) \/ CvSleep(t)
    \/ CvSet(t) \/ CvNotify(t)

(***************************************************************************)
(* Barrier and ResettableBarrier.  The last to arrive resets the count and *)
(* then opens the generation.                                              *)
(***************************************************************************)
BarInit ==
    /\ kind = "barrier"
    /\ shared = [count |-> 0, generation |-> 0]
    /\ local = [t \in Waiters |-> Idle("barrier")]

BarEnter(t) == Enter("barrier", t, "wait", "load")

BarLoad(t) ==
    /\ At("barrier", t, "load")
    /\ Step("barrier", t, shared, [local[t] EXCEPT !.pc = "arrive", !.seen = shared.generation])

BarArrive(t) ==
    LET arrived == shared.count + 1 IN
    /\ At("barrier", t, "arrive")
    /\ Step("barrier", t, [shared EXCEPT !.count = arrived],
            Goto(local[t], IF arrived = Cardinality(Waiters) THEN "reset" ELSE "wait"))

BarReset(t) ==
    /\ At("barrier", t, "reset")
    /\ Step("barrier", t, [shared EXCEPT !.count = 0], Goto(local[t], "open"))

BarOpen(t) ==
    /\ At("barrier", t, "open")
    /\ Step("barrier", t, [shared EXCEPT !.generation = @ + 1], Done(local[t]))

BarWait(t) ==
    /\ At("barrier", t, "wait") /\ shared.generation # local[t].seen
    /\ Step("barrier", t, shared, Done(local[t]))

BarStep(t) == BarLoad(t) \/ BarArrive(t) \/ BarReset(t) \/ BarOpen(t) \/ BarWait(t)

(***************************************************************************)
(* CountDownLatch, with the repair of a count that went below zero.        *)
(***************************************************************************)
LatchInit ==
    /\ kind = "latch"
    /\ shared = [count |-> LatchCount, downs |-> 0]
    /\ local = [t \in Waiters |-> Idle("latch")]

LatchEnter(t) ==
    Enter("latch", t, "count_down", "sub") \/ Enter("latch", t, "wait", "wait")

LatchSub(t) ==
    LET prev == shared.count IN
    /\ At("latch", t, "sub")
    /\ Step("latch", t, [count |-> (prev - 1) % (LatchMax + 1), downs |-> shared.downs + 1],
            IF prev = 0 THEN Goto(local[t], "repair") ELSE Done(local[t]))

LatchRepair(t) ==
    /\ At("latch", t, "repair")
    /\ Step("latch", t, [shared EXCEPT !.count = 0], Done(local[t]))

LatchWait(t) ==
    /\ At("latch", t, "wait") /\ shared.count = 0
    /\ Step("latch", t, shared, [Done(local[t]) EXCEPT !.seen = 1])

LatchStep(t) == LatchSub(t) \/ LatchRepair(t) \/ LatchWait(t)

(***************************************************************************)
(* Once and OnceCell.  "value" is the cell; "runs" counts the initialisers *)
(* that succeeded.  A thread that was told Ok has seen = 1.                *)
(***************************************************************************)
INCOMPLETE == 0
RUNNING    == 1
COMPLETE   == 2
NoValue    == 0

OnceInit ==
    /\ kind = "once"
    /\ shared = [state |-> INCOMPLETE, value |-> NoValue, runs |-> 0]
    /\ local = [t \in Waiters |-> Idle("once")]

\* call_once, set and get_or_init run an initialiser that cannot fail; the try
\* forms may; get only looks.
OnceEnter(t) == \E call \in {"init", "try_init", "get"} : Enter("once", t, call, "completed")

OnceOk(l) == [Done(l) EXCEPT !.seen = 1]

OnceLook(t) ==
    LET l == local[t] IN
    /\ At("once", t, "completed")
    /\ Step("once", t, shared,
         IF shared.state = COMPLETE THEN OnceOk(l)
         ELSE IF l.call = "get" THEN Done(l) ELSE Goto(l, "cas"))

OnceCas(t) ==
    LET l == local[t] IN
    /\ At("once", t, "cas")
    /\ CASE shared.state = INCOMPLETE ->
              Step("once", t, [shared EXCEPT !.state = RUNNING], Goto(l, "run"))
         [] shared.state = COMPLETE -> Step("once", t, shared, OnceOk(l))
         [] OTHER -> Step("once", t, shared, Goto(l, "spin"))

OnceSpin(t) ==
    /\ At("once", t, "spin") /\ shared.state # RUNNING
    /\ Step("once", t, shared, Goto(local[t], "recheck"))

OnceRecheck(t) ==
    /\ At("once", t, "recheck")
    /\ Step("once", t, shared,
            IF shared.state = COMPLETE THEN OnceOk(local[t]) ELSE Goto(local[t], "cas"))

OnceRun(t) ==
    /\ At("once", t, "run")
    /\ \/ Step("once", t, [shared EXCEPT !.value = @ + 1, !.runs = @ + 1], Goto(local[t], "complete"))
       \/ local[t].call = "try_init" /\ Step("once", t, shared, Goto(local[t], "rollback"))

\* Mutant of OnceRollback: a failed initialiser leaves the cell complete.
OnceRollbackCompletes(t) ==
    /\ At("once", t, "rollback")
    /\ Step("once", t, [shared EXCEPT !.state = COMPLETE], Done(local[t]))

\* The guard that is dropped without complete() gives the cell back.
OnceRollback(t) ==
    /\ At("once", t, "rollback")
    /\ Step("once", t, [shared EXCEPT !.state = INCOMPLETE], Done(local[t]))

OnceComplete(t) ==
    /\ At("once", t, "complete")
    /\ Step("once", t, [shared EXCEPT !.state = COMPLETE], OnceOk(local[t]))

OnceStep(t) ==
    \/ OnceLook(t) \/ OnceCas(t) \/ OnceSpin(t) \/ OnceRecheck(t)
    \/ OnceRun(t) \/ OnceRollback(t) \/ OnceComplete(t)

(***************************************************************************)
(* What a thread that was let through relies on.                           *)
(***************************************************************************)
BarrierMet ==
    \A t, u \in Waiters : local[t].pc = "idle" => CallsMade(u) >= CallsMade(t)
LatchOpened == (\E t \in Waiters : local[t].seen = 1) => shared.downs >= LatchCount
OnceValue ==
    /\ shared.runs <= 1
    /\ (\E t \in Waiters : local[t].pc = "idle" /\ local[t].seen = 1) => shared.value # NoValue
    /\ Cardinality({t \in Waiters : local[t].pc \in {"run", "complete", "rollback"}}) <= 1

\* What thread t waits for has happened, so that its call is due to return.
Due(t) ==
    CASE kind = "condvar" -> local[t].call = "wait" => shared.ready
      [] kind = "barrier" -> \A u \in Waiters : CallsMade(u) >= CallsMade(t)
      [] kind = "latch"   -> local[t].call = "wait" => shared.downs >= LatchCount
      [] OTHER -> TRUE
=============================================================================
