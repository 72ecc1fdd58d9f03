------------------------------ MODULE MCLibrary ------------------------------
(* Model-checking instance of Library: a watched folder of one file, and a   *)
(* volume of four that is not watched.                                       *)
EXTENDS Library, TLC

CONSTANTS p1, p2
MCPath == {p1, p2}
MCWeight == p1 :> 1 @@ p2 :> 4
MCWatched == {p1}
=============================================================================
