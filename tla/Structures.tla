----------------------------- MODULE Structures -----------------------------
(***************************************************************************)
(* A data structure of the kernel under test: one object, driven through   *)
(* the calls its interface offers, beside the value that a plain           *)
(* definition of the same calls gives.  Every sequential structure of      *)
(* kernel/src/libs and every allocator of kernel/src/mm is a module over   *)
(* these three variables, so that one run can go through all of them.      *)
(***************************************************************************)
EXTENDS Integers, Sequences, FiniteSets, FiniteSetsExt

VARIABLES
    kind,   \* which structure the object is
    obj,    \* the structure, as the code lays it out
    ref     \* what it should contain

structure == <<kind, obj, ref>>

\* A call on a structure of kind k that takes it to o while its plain
\* definition goes to r.
Call(k, o, r) == kind = k /\ obj' = o /\ ref' = r /\ UNCHANGED kind

\* Finite maps, the contents of most of them.
Nil == 0    \* the null pointer and the absent key
Updated(f, k, v) == [x \in DOMAIN f \cup {k} |-> IF x = k THEN v ELSE f[x]]
Without(f, gone) == [x \in DOMAIN f \ gone |-> f[x]]
Least(S)    == IF S = {} THEN Nil ELSE Min(S)
Greatest(S) == IF S = {} THEN Nil ELSE Max(S)
=============================================================================
