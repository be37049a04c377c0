---------------------------- MODULE MCSharedWork ----------------------------
(* A small instance of SharedWork for TLC. *)
EXTENDS SharedWorkRefinement

CONSTANTS c1, c2, e1, e2, k1

TwoClients == {c1, c2}
OneKey == {k1}
TwoEntries == {e1, e2}
=============================================================================
