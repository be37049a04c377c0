------------------------ MODULE MCExecutionDelivery ------------------------
(***************************************************************************)
(* A read "r" with a joining request "j", and the delivery of its result.    *)
(***************************************************************************)
EXTENDS ExecutionDelivery

JoinIds == [k \in Key |-> IF k = "r" THEN 1 ELSE 2]
SameRequest == [k \in Key |-> 1]
=============================================================================
