---------------------------- MODULE MCPkKernel -----------------------------
(***************************************************************************)
(* Instances of PkKernel for TLC.                                          *)
(***************************************************************************)
EXTENDS PkKernel, TLC

CONSTANTS t1, t2, t3, s1

\* main() creates the threads at distinct priorities, or at the same one.
DistinctPriorities == [t \in Threads |-> IF t = t1 THEN 0 ELSE 1]
SamePriority == [t \in Threads |-> 0]

\* Threads with the same initial priority are interchangeable.
Twins == Permutations({t2, t3})
Alike == Permutations(Threads)
NoCount == [s \in Semaphores |-> 0]
MaxOne == [s \in Semaphores |-> 1]
Priorities == PkPriority
PrioritiesAndIdle == 0 .. PK_THREADS
WaitForever == {"WAIT_FOREVER"}
AllTimeouts == TimeoutKinds
=============================================================================
