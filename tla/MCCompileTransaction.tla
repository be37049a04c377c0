-------------------------- MODULE MCCompileTransaction --------------------------
(* Small plans for the compile transaction.                                *)
EXTENDS CompileTransaction

CONSTANTS form, root, config, old, guard

OneEach == <<form>>
TwoRegistrations == <<root, config>>
OneRemoval == <<old>>
OneGuard == <<guard>>
=============================================================================
