---------------------------- MODULE MCProtocols ----------------------------
(***************************************************************************)
(* One run over everything that several threads execute at once: the first *)
(* step of a behaviour is the choice of the object, and the rest are the   *)
(* steps of its users.                                                     *)
(***************************************************************************)
EXTENDS RwLocks, Semaphores, Waiting, Rcu, CpuStart, BlockIo, Files, Xhci, Keyboard, StartUp

CONSTANTS u1, u2, u3

\* How many calls a thread makes on an object of each kind.
Calls == [mutex |-> 2, irqlock |-> 1, irqmutex |-> 1, semaphore |-> 2, bounded |-> 2, rwlock |-> 1,
          condvar |-> 1, barrier |-> 2, latch |-> 2, once |-> 1, rcu |-> 1,
          shootdown |-> 2, virtio |-> 1, keys |-> 2]

\* A device with every capability within reach, and one whose last is not.
Chains == {<<"other", "common", "notify", "device">>, <<"common", "other", "notify", "isr", "device">>}

\* Rings small enough to be full and to wrap.
KeyRingSizes == [event |-> 3, char |-> 3]

\* A device with one input endpoint, and behind it one that has none, or more
\* than the driver notes.
Configs == <<{[boots |-> 1, eps |-> <<3>>]}, {[boots |-> 0, eps |-> <<>>], [boots |-> 0, eps |-> <<3, 5, 7>>]}>>

Init ==
    \/ RwInit \/ LockInit
    \/ SemInit("semaphore") \/ SemInit("bounded")
    \/ CvInit \/ BarInit \/ LatchInit \/ OnceInit
    \/ RcuInit \/ SmpInit \/ TlbInit \/ VirtioInit \/ FilesInit
    \/ TrbInit \/ XhciInit \/ KeysInit \/ BootInit

\* A thread is free to call or not to call.
Calling ==
    \/ kind = "rwlock" /\ \E t \in Users : RwEnter(t)
    \/ kind \in LockKinds /\ \E t \in Contenders(kind) : LockEnter(t)
    \/ kind \in {"semaphore", "bounded"} /\ \E t \in Tasks : SemEnter(kind, t) \/ BoundedEnter(t)
    \/ kind \in {"condvar", "barrier", "latch", "once"}
       /\ \E t \in Waiters : CvEnter(t) \/ BarEnter(t) \/ LatchEnter(t) \/ OnceEnter(t)
    \/ kind = "rcu" /\ \E t \in RcuUsers : RcuEnter(t)
    \/ kind = "shootdown" /\ \E c \in TlbCpus : TlbFill(c) \/ ShootdownStart(c)
    \/ kind = "virtio" /\ (DeviceStep \/ \E t \in IoCallers : VirtioEnter(t))
    \/ kind = "files" /\ \E p \in FilePids : FilesEnter(p)
    \/ TrbPut \/ TrbServe \/ PollEvent
    \/ kind = "keys" /\ KeysEnter

\* What a thread does once it has called: the scheduler and the CPUs go on.
TaskStep(t) ==
    \/ kind = "rwlock" /\ t \in Users /\ RwStep(t)
    \/ kind \in {"condvar", "barrier", "latch", "once"} /\ t \in Waiters
       /\ (CvStep(t) \/ BarStep(t) \/ LatchStep(t) \/ OnceStep(t))
    \/ kind = "rcu" /\ t \in RcuUsers /\ RcuStep(t)
    \/ kind = "virtio" /\ t \in IoCallers /\ VirtioStep(t)
HolderStep(t) ==
    \/ kind \in LockKinds /\ t \in Contenders(kind) /\ LockStep(t)
    \/ kind \in {"semaphore", "bounded"} /\ t \in Tasks
       /\ (SemStep(kind, t) \/ SemRelease(t) \/ BoundedLoad(t) \/ BoundedRelease(t))
CpuStep(c) ==
    \/ kind = "smp" /\ c \in Aps \cup {Bsp} /\ (IF c = Bsp THEN BootStep ELSE ApStep(c))
    \/ kind = "shootdown" /\ c \in TlbCpus /\ TlbStep(c)
\* The drivers' own work: start-up, the USB controller and its driver.
DriverSteps ==
    \/ RunComponent
    \/ kind = "xhci" /\ DriverStep
\* The steps inside a system call on a file and around the keyboard's rings,
\* of which nothing is claimed that needs them to be taken.
OtherSteps ==
    \/ kind = "files" /\ \E p \in FilePids : FilesStep(p)
    \/ kind = "keys" /\ (KeysDriverStep \/ \E t \in KeyReaders : KeysReaderStep(t))

\* The objects of a behaviour are of one kind, so that the n-th user, the n-th
\* contender for a lock and the n-th CPU can be one actor, and the fairness of
\* each the fairness of the actor.
Actors == 1..4
User == <<u1, u2, u3>>
Contender == <<<<1, "task">>, <<2, "task">>, <<1, "irq">>, <<2, "irq">>>>
ActorStep(n) ==
    \/ n \in DOMAIN User /\ TaskStep(User[n])
    \/ HolderStep(Contender[n])
    \/ CpuStep(n - 1)
    \/ n = 1 /\ DriverSteps
    \/ n = 2 /\ ControllerStep

Next == Calling \/ OtherSteps \/ \E n \in Actors : ActorStep(n)
Spec == Init /\ [][Next]_protocol /\ \A n \in Actors : WF_protocol(ActorStep(n))

\* Whatever the interleaving of loads, compare-and-exchanges and stores: one
\* holder of a lock, an interrupt handler on the holder's CPU included
\* (sync/spinlock.rs:50, 179, mutex.rs:48, 243), no writer beside a reader at any
\* number of readers (rwlock.rs:47, 98), and as many permits as there were
\* (semaphore.rs:32, 224).
LocksExclude ==
    CASE kind \in LockKinds -> LockExclusive
      [] kind = "rwlock" -> RwExclusive
      [] kind \in {"semaphore", "bounded"} -> SemaphoreBounds
      [] OTHER -> TRUE

\* Nobody is let through a barrier before everybody has come to it, through a
\* latch before its count of calls, or to a cell before it has a value; one
\* initialiser runs and at most one succeeds (sync/barrier.rs:35, 181,
\* once.rs:71).
NobodyPassesEarly ==
    CASE kind = "barrier" -> BarrierMet
      [] kind = "latch" -> LatchOpened
      [] kind = "once" -> OnceValue
      [] OTHER -> TRUE

\* A value that is published or still to be freed is not freed, and none is
\* freed twice, whoever reads, updates and waits at once (libs/rcu/rcu_impl.rs:234,
\* 326).  A value that a reader's guard holds is not freed as long as no two grace
\* periods have overlapped; nothing in the code keeps two from overlapping, and
\* then rcu_impl.rs:370 does not hold.
ReadersKeepValues == kind = "rcu" => RcuLive

\* No two processors have one number, and as many are online as boot_ap reports;
\* as long as the fallback has restarted none that was already under way, no two
\* have one stack and each that is reported takes part in shootdowns
\* (smp/arch/x86_64/mod.rs:91).  When a shootdown has returned without a time-out,
\* and neither another one nor a late acknowledgement of an earlier one came
\* beside it, no CPU has the old entry (mm/arch/x86_64/paging.rs:522).
CpusCoordinate == (kind = "smp" => CpusApart) /\ (kind = "shootdown" => NoStaleEntry)

\* A pipe's counts are the descriptors that refer to it, through dup, dup2,
\* close and exit, and poll reports what read and write would do
\* (fs/runtime/manager.rs:483, 653, 987, 1060).
DescriptorsAgree == kind = "files" => PipesCounted /\ PollTells


\* No call stays pending for ever once what it waits for has happened: as every
\* thread makes a few calls only, there comes a time again and again when none is
\* (calls on files and at the keyboard's rings aside).  Nobody misses a
\* notification, an opened barrier or a released lock (sync/condvar.rs:21,
\* barrier.rs:35, mutex.rs:92, rwlock.rs:98, rcu_impl.rs:234, paging.rs:551,
\* smp/mod.rs:141), and a disk request returns, by its time-out if need be,
\* whatever the requests that overlap it do to the queue (virtio_blk.rs:683).
\* Start-up goes to its end whichever optional component fails, none is rejected
\* (init.rs:130, component.rs:164), and the USB driver to a controller that is
\* published or given up (xhci.rs:1295).
Pending(t) ==
    /\ kind \notin {"files", "keys"} /\ local[t].pc \notin {"idle", "panic", "off", "given_up"}
    /\ kind \in {"condvar", "barrier", "latch", "once"} => Due(t)
CallsReturn == []<>(\A t \in DOMAIN local : ~Pending(t))
=============================================================================
