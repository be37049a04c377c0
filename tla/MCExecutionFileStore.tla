-------------------------- MODULE MCExecutionFileStore --------------------------
(* Small instances of the execution file store.                            *)
EXTENDS ExecutionFileStore, TLC

ProcessSymmetry == Permutations(Process)
=============================================================================
