------------------------ MODULE MCProtectedDispatch ------------------------
(* Two protected calls for TLC.                                             *)
EXTENDS ProtectedDispatch

CONSTANTS c1, c2

TwoCalls == {c1, c2}
=============================================================================
