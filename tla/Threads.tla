------------------------------- MODULE Threads -------------------------------
(***************************************************************************)
(* Code that several CPUs execute at once: one object they share and, for  *)
(* each thread, where it is in the call it makes.  A step is one atomic    *)
(* operation on the object, or the local work up to the next one, so the   *)
(* interleavings are those of the code.  The build is for x86-64, whose    *)
(* compare-and-exchange does not fail without cause.                       *)
(***************************************************************************)
EXTENDS Integers, FiniteSets

CONSTANT MaxCalls      \* kind of object |-> how many calls a thread makes

VARIABLES
    kind,     \* which object it is
    shared,   \* the object
    local     \* thread |-> its call, its place in it and what it has loaded

protocol == <<kind, shared, local>>

\* Thread t takes a step of an object of kind k.
Step(k, t, s, l) ==
    kind = k /\ shared' = s /\ local' = [local EXCEPT ![t] = l] /\ UNCHANGED kind

Idle(k)     == [call |-> "none", pc |-> "idle", seen |-> 0, calls |-> MaxCalls[k]]
Goto(l, pc) == [l EXCEPT !.pc = pc]
Done(l)     == [l EXCEPT !.call = "none", !.pc = "idle", !.seen = 0]

\* Thread t of an object of kind k is at pc.
At(k, t, pc) == kind = k /\ local[t].pc = pc

\* Thread t makes a call.
Enter(k, t, call, pc) ==
    /\ At(k, t, "idle") /\ local[t].calls > 0
    /\ Step(k, t, shared, [local[t] EXCEPT !.call = call, !.pc = pc, !.calls = @ - 1])
=============================================================================
