------------------------------ MODULE Semaphores ------------------------------
(***************************************************************************)
(* The two counting semaphores of kernel/src/sync/semaphore.rs, in the     *)
(* hands of the tasks that contend for the locks of Locks.                 *)
(***************************************************************************)
EXTENDS Locks, FiniteSetsExt, TLC

CONSTANT Permits      \* what a semaphore starts with

(***************************************************************************)
(* Semaphore, and BoundedSemaphore, which refuses a release beyond its     *)
(* maximum.  A thread keeps in "seen" the count it loaded; "wants" is how  *)
(* many permits the call is for.                                           *)
(***************************************************************************)
SemInit(k) ==
    /\ kind = k
    /\ shared = [count |-> Permits]
    /\ local = [t \in Tasks |-> [wants |-> 0] @@ Idle(k)]

SemEnter(k, t) ==
    \E n \in 1..Permits, call \in {"acquire", "try_acquire"} :
        /\ n > 1 => k = "semaphore" /\ call = "acquire"
        /\ At(k, t, "idle") /\ local[t].calls > 0
        /\ Step(k, t, shared,
             [local[t] EXCEPT !.call = call, !.pc = "load", !.wants = n, !.calls = @ - 1])

\* acquire and acquire_many load until there is enough; try_acquire gives up.
SemLoad(k, t) ==
    LET l == local[t] IN
    /\ At(k, t, "load")
    /\ \/ shared.count >= l.wants
          /\ Step(k, t, shared, [l EXCEPT !.pc = "cas", !.seen = shared.count])
       \/ shared.count < l.wants /\ l.call = "try_acquire" /\ Step(k, t, shared, Done(l))

SemCas(k, t) ==
    LET l == local[t] IN
    /\ At(k, t, "cas")
    /\ \/ shared.count = l.seen
          /\ Step(k, t, [shared EXCEPT !.count = @ - l.wants], Goto(l, "held"))
       \/ /\ shared.count # l.seen
          /\ Step(k, t, shared, IF l.call = "try_acquire" THEN Done(l) ELSE Goto(l, "load"))

SemRelease(t) ==
    /\ At("semaphore", t, "held")
    /\ Step("semaphore", t, [shared EXCEPT !.count = @ + local[t].wants],
            [Done(local[t]) EXCEPT !.wants = 0])

\* A bounded semaphore is also released by threads that hold nothing.
BoundedEnter(t) == Enter("bounded", t, "release", "give")

BoundedLoad(t) ==
    LET l == local[t] IN
    /\ At("bounded", t, "held") \/ At("bounded", t, "give")
    /\ Step("bounded", t, shared,
            IF shared.count >= Permits THEN Done(l)
            ELSE [l EXCEPT !.pc = "give_cas", !.seen = shared.count])

BoundedRelease(t) ==
    LET l == local[t] IN
    /\ At("bounded", t, "give_cas")
    /\ \/ shared.count = l.seen /\ Step("bounded", t, [shared EXCEPT !.count = @ + 1], Done(l))
       \/ shared.count # l.seen /\ Step("bounded", t, shared, Goto(l, "give"))

SemStep(k, t) == SemLoad(k, t) \/ SemCas(k, t)

\* The permits out and the permits left are those there were; a bounded count
\* never exceeds its maximum, and neither goes below zero.
SemaphoreBounds ==
    /\ shared.count \in 0..Permits
    /\ kind = "semaphore" =>
         shared.count + MapThenSumSet(LAMBDA t : IF local[t].pc = "held" THEN local[t].wants ELSE 0, Tasks) = Permits
=============================================================================
