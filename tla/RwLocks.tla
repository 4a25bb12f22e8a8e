------------------------------- MODULE RwLocks -------------------------------
(***************************************************************************)
(* The reader-writer lock of kernel/src/sync/rwlock.rs: one word that      *)
(* counts readers or holds WRITER, and the number of writers that wait.    *)
(***************************************************************************)
EXTENDS Threads

CONSTANTS Users,     \* the threads that use the lock
          Writer     \* WRITER, one more than the largest number of readers

ASSUME WriterAssumption == Writer \in Nat \ {0} /\ IsFiniteSet(Users)
ASSUME RwCallsAssumption == MaxCalls["rwlock"] \in Nat

UNLOCKED == 0
MaxReaders == Writer - 1

RwInit ==
    /\ kind = "rwlock"
    /\ shared = [state |-> UNLOCKED, waiting |-> 0]
    /\ local = [t \in Users |-> Idle("rwlock")]

\* A reader that may not enter: try_read returns, read starts over.
ReadAgain(l) == IF l.call = "try_read" THEN Done(l) ELSE Goto(l, "load")

ReadLoad(t) ==
    /\ At("rwlock", t, "load")
    /\ Step("rwlock", t, shared, [local[t] EXCEPT !.pc = "check", !.seen = shared.state])

\* Mutant of ReadCheck: the last count of readers is not the limit.
ReadCheckNoLimit(t) ==
    LET l == local[t] IN
    /\ At("rwlock", t, "check")
    /\ Step("rwlock", t, shared,
         IF shared.waiting > 0 \/ l.seen >= Writer THEN ReadAgain(l) ELSE Goto(l, "cas"))

ReadCheck(t) ==
    LET l == local[t] IN
    /\ At("rwlock", t, "check")
    /\ Step("rwlock", t, shared,
         IF shared.waiting > 0 \/ l.seen >= Writer THEN ReadAgain(l)
         ELSE IF l.seen < MaxReaders THEN Goto(l, "cas")
         ELSE IF l.call = "try_read" THEN Done(l) ELSE Goto(l, "panic"))

ReadCas(t) ==
    LET l == local[t] IN
    /\ At("rwlock", t, "cas")
    /\ \/ shared.state = l.seen
          /\ Step("rwlock", t, [shared EXCEPT !.state = @ + 1], Goto(l, "reading"))
       \/ shared.state # l.seen /\ Step("rwlock", t, shared, ReadAgain(l))

ReadDrop(t) ==
    /\ At("rwlock", t, "reading")
    /\ Step("rwlock", t, [shared EXCEPT !.state = @ - 1], Done(local[t]))

WriteAnnounce(t) ==
    /\ At("rwlock", t, "announce")
    /\ Step("rwlock", t, [shared EXCEPT !.waiting = @ + 1], Goto(local[t], "acquire"))

WriteCas(t) ==
    /\ At("rwlock", t, "acquire") /\ shared.state = UNLOCKED
    /\ Step("rwlock", t, [shared EXCEPT !.state = Writer], Goto(local[t], "acquired"))

\* Mutant of WriteSettle: the writer that has the lock still counts as waiting.
WriteSettleForgets(t) ==
    /\ At("rwlock", t, "acquired")
    /\ Step("rwlock", t, shared, Goto(local[t], "writing"))

WriteSettle(t) ==
    /\ At("rwlock", t, "acquired")
    /\ Step("rwlock", t, [shared EXCEPT !.waiting = @ - 1], Goto(local[t], "writing"))

TryWrite(t) ==
    /\ At("rwlock", t, "probe")
    /\ Step("rwlock", t, shared,
         IF shared.waiting > 0 THEN Done(local[t]) ELSE Goto(local[t], "try_cas"))

TryWriteCas(t) ==
    /\ At("rwlock", t, "try_cas")
    /\ \/ shared.state = UNLOCKED
          /\ Step("rwlock", t, [shared EXCEPT !.state = Writer], Goto(local[t], "writing"))
       \/ shared.state # UNLOCKED /\ Step("rwlock", t, shared, Done(local[t]))

WriteDrop(t) ==
    /\ At("rwlock", t, "writing")
    /\ Step("rwlock", t, [shared EXCEPT !.state = UNLOCKED], Done(local[t]))

RwEnter(t) ==
    \/ \E call \in {"read", "try_read"} : Enter("rwlock", t, call, "load")
    \/ Enter("rwlock", t, "write", "announce")
    \/ Enter("rwlock", t, "try_write", "probe")

RwStep(t) ==
    \/ ReadLoad(t) \/ ReadCheck(t) \/ ReadCas(t) \/ ReadDrop(t)
    \/ WriteAnnounce(t) \/ WriteCas(t) \/ WriteSettle(t) \/ WriteDrop(t)
    \/ TryWrite(t) \/ TryWriteCas(t)

RwNext == \E t \in Users : RwEnter(t) \/ RwStep(t)
RwSpec == RwInit /\ [][RwNext]_protocol

Readers == {t \in Users : local[t].pc = "reading"}
Writers == {t \in Users : local[t].pc \in {"acquired", "writing"}}

\* A writer that holds the guard is alone, and the word says who holds one: it
\* is WRITER for one writer without readers, and the number of readers, never
\* WRITER, otherwise (rwlock.rs:56, 102, 121), at the limit of the count too.
RwExclusive ==
    IF Writers # {} THEN Readers = {} /\ Cardinality(Writers) = 1 /\ shared.state = Writer
    ELSE shared.state = Cardinality(Readers) /\ shared.state < Writer
=============================================================================
