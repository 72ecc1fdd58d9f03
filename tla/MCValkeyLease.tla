---------------------------- MODULE MCValkeyLease ----------------------------
(* Two calls of Lock.                                                      *)
EXTENDS ValkeyLease

CONSTANTS c1, c2
MCCall == {c1, c2}
=============================================================================
