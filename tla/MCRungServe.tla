----------------------------- MODULE MCRungServe -----------------------------
(* Two requests on a short film, on one API instance.                       *)
EXTENDS RungServe, TLC

CONSTANTS q1, q2
MCReq == {q1, q2}
MCInstOf == [q \in MCReq |-> 1]
=============================================================================
