--------------------------------- MODULE Rcu ---------------------------------
(***************************************************************************)
(* libs/rcu/rcu_impl.rs: readers that only count themselves, writers that  *)
(* publish a new value and give the old one back after a grace period, at  *)
(* once (update) or when a later grace period ends (update_async).  A      *)
(* value is the number of the allocation that holds it.  "overlap" records*)
(* that a grace period began before another had reclaimed what it ended    *)
(* for: synchronize_rcu, call_rcu and rcu_barrier take no lock.            *)
(***************************************************************************)
EXTENDS Threads

CONSTANTS RcuUsers,
          RcuBusy        \* those of them that make one more call

RcuInit ==
    /\ kind = "rcu"
    /\ shared = [current |-> 1, live |-> {1}, last |-> 1, gp |-> 0, readers |-> 0,
                 pending |-> {}, locked |-> FALSE, overlap |-> FALSE]
    /\ local = [t \in RcuUsers |-> [Idle("rcu") EXCEPT !.calls = IF t \in RcuBusy THEN @ + 1 ELSE @]]

\* update and update_with wait for the writer lock, try_update and update_async do
\* not; synchronize_rcu and call_rcu, and rcu_barrier, may be called by anybody.
RcuEnter(t) ==
    \/ Enter("rcu", t, "read", "count")
    \/ \E c \in {"update", "try_update", "async"} : Enter("rcu", t, c, "lock")
    \/ \E c \in {"synchronize", "barrier"} : Enter("rcu", t, c, "grace")

(* Readers. *)
RcuCount(t) ==
    /\ At("rcu", t, "count")
    /\ Step("rcu", t, [shared EXCEPT !.readers = @ + 1], Goto(local[t], "load"))

RcuLoad(t) ==
    /\ At("rcu", t, "load")
    /\ Step("rcu", t, shared, [local[t] EXCEPT !.pc = "hold", !.seen = shared.current])

RcuReadDrop(t) ==
    /\ At("rcu", t, "hold")
    /\ Step("rcu", t, [shared EXCEPT !.readers = @ - 1], Done(local[t]))

(* Writers. *)
RcuWriterLock(t) ==
    /\ At("rcu", t, "lock")
    /\ \/ ~shared.locked
          /\ Step("rcu", t, [shared EXCEPT !.locked = TRUE], Goto(local[t], "swap"))
       \/ shared.locked /\ local[t].call # "update" /\ Step("rcu", t, shared, Done(local[t]))

RcuSwap(t) ==
    LET new == shared.last + 1 IN
    /\ At("rcu", t, "swap")
    /\ Step("rcu", t,
            [shared EXCEPT !.current = new, !.last = new, !.live = @ \cup {new}],
            [local[t] EXCEPT !.pc = IF local[t].call = "async" THEN "stamp" ELSE "grace",
                             !.seen = shared.current])

\* The grace period is read after the old value is unreachable.
RcuStamp(t) ==
    /\ At("rcu", t, "stamp")
    /\ Step("rcu", t, shared, [local[t] EXCEPT !.pc = "push", !.seen = <<@, shared.gp>>])

RcuPush(t) ==
    /\ At("rcu", t, "push")
    /\ Step("rcu", t, [shared EXCEPT !.pending = @ \cup {local[t].seen}, !.locked = FALSE], Done(local[t]))

\* synchronize_rcu: a new grace period, no reader, then what is pending.
RcuGrace(t) ==
    /\ At("rcu", t, "grace")
    /\ Step("rcu", t, [shared EXCEPT !.gp = @ + 1,
                                     !.overlap = @ \/ \E u \in RcuUsers : local[u].pc \in {"wait", "reclaim", "again"}],
            Goto(local[t], "wait"))

RcuWait(t) ==
    /\ At("rcu", t, "wait") /\ shared.readers = 0
    /\ Step("rcu", t, shared, Goto(local[t], "reclaim"))

\* Mutant of Reclaimable: values retired in the running period go as well.
ReclaimableTooEarly == {item \in shared.pending : item[2] <= shared.gp}
Reclaimable == {item \in shared.pending : item[2] < shared.gp}

TryReclaimPending(t) ==
    /\ kind = "rcu" /\ local[t].pc \in {"reclaim", "again"}
    /\ Step("rcu", t,
            [shared EXCEPT !.pending = @ \ Reclaimable, !.live = @ \ {item[1] : item \in Reclaimable}],
            IF local[t].call \in {"update", "try_update"} THEN Goto(local[t], "free")
            ELSE IF local[t].call = "barrier" /\ local[t].pc = "reclaim" THEN Goto(local[t], "again")
            ELSE Done(local[t]))

\* The old value is moved out to the caller, its allocation freed.
RcuTakeOld(t) ==
    /\ At("rcu", t, "free")
    /\ Step("rcu", t, [shared EXCEPT !.live = @ \ {local[t].seen}, !.locked = FALSE], Done(local[t]))

RcuStep(t) ==
    \/ RcuCount(t) \/ RcuLoad(t) \/ RcuReadDrop(t) \/ RcuWriterLock(t) \/ RcuSwap(t) \/ RcuStamp(t)
    \/ RcuPush(t) \/ RcuGrace(t) \/ RcuWait(t) \/ TryReclaimPending(t) \/ RcuTakeOld(t)

\* What a read guard refers to is not freed while the guard is held
\* (rcu_impl.rs:370).
GuardKeepsValue == \A t \in RcuUsers : local[t].pc = "hold" => local[t].seen \in shared.live

\* What is published, what an update is about to move out and what is still to be
\* freed has not been freed, whatever overlaps; what a reader holds has not as
\* long as no two grace periods have overlapped.
RcuLive ==
    /\ shared.current \in shared.live
    /\ \A t \in RcuUsers : local[t].pc = "free" => local[t].seen \in shared.live
    /\ \A item \in shared.pending : item[1] \in shared.live
    /\ shared.readers = Cardinality({t \in RcuUsers : local[t].pc \in {"load", "hold"}})
    /\ ~shared.overlap => GuardKeepsValue
=============================================================================
