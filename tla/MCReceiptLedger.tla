-------------------------- MODULE MCReceiptLedger --------------------------
(***************************************************************************)
(* Instances of ReceiptLedger: unrelated keys, and three keys of which "a"   *)
(* and "b" share a task id, "b" and "c" an invocation id.                   *)
(***************************************************************************)
EXTENDS ReceiptLedger

DistinctIds == [k \in Key |-> k]
SharedTask == [k \in Key |-> IF k = "b" THEN "a" ELSE k]
SharedInvocation == [k \in Key |-> IF k = "c" THEN "b" ELSE k]
=============================================================================
