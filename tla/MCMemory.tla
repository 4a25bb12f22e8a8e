------------------------------ MODULE MCMemory ------------------------------
(* Instances of AddressSpaces for TLC. *)
EXTENDS AddressSpaces, TLC

AllMappings == {[prot |-> {"r", "w"}, kind |-> "anon"],
                [prot |-> {"r", "w"}, kind |-> "shared"],
                [prot |-> {"r"}, kind |-> "file"]}

None == [fork |-> 0, mmap |-> 0, fixed |-> 0, unmap |-> 0, protect |-> 0, brk |-> 0, exec |-> 0, kill |-> 0,
         recorded |-> FALSE]

\* Bounds on the calls: forks around every other call, the calls on one address
\* space, and programs that load others.
CheckedBudgets ==
    {[None EXCEPT !.fork = 1, !.unmap = 1],
     [None EXCEPT !.fork = 1, !.mmap = 1],
     [None EXCEPT !.fork = 1, !.protect = 1, !.kill = 1],
     [None EXCEPT !.fixed = 1, !.unmap = 1],
     [None EXCEPT !.mmap = 1, !.brk = 2],
     [None EXCEPT !.exec = 2, !.mmap = 1, !.brk = 1, !.recorded = TRUE]}

\* A program that execve loaded forks.
ImageBudgets == {[None EXCEPT !.fork = 1, !.recorded = TRUE]}

\* A process calls mprotect after a fork.
ProtectBudgets == {[None EXCEPT !.fork = 1, !.protect = 1]}

FrameSymmetry == Permutations(Frames)
=============================================================================
