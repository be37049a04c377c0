---------------------- MODULE MCExecutionCoordinator ----------------------
(***************************************************************************)
(* Instances of ExecutionCoordinator: a shared read with a joining request,  *)
(* and two mutations whose task ids collide, over several epochs.            *)
(***************************************************************************)
EXTENDS ExecutionCoordinator

\* "r" runs; "j" repeats its request under ids of its own.
JoinIds == [k \in Key |-> IF k = "r" THEN 1 ELSE 2]
SameRequest == [k \in Key |-> 1]

\* "a" and "b" have invocations of their own and share a task id.
DistinctInv == [k \in Key |-> IF k = "a" THEN 1 ELSE 2]
SameTask == [k \in Key |-> 1]
=============================================================================
