----------------------------- MODULE MCRungChild -----------------------------
(* Model-checking instance of RungChild: two API instances, the first with  *)
(* an embedded worker, and one remote worker.                               *)
EXTENDS RungChild, TLC

CONSTANTS r1, r2, r3, i1, i2, w1, w2

MCReq == {r1, r2, r3}
TwoReq == {r1, r2}
MCInst == {i1, i2}
MCWorker == {w1, w2}
OneWorker == {w1}
MCInstOf == [r \in Req |-> IF r = r2 THEN i2 ELSE i1]
SameInst == [r \in Req |-> i1]
MCEmbedded == [i \in Inst |-> IF i = i1 THEN w1 ELSE NoWorker]
\* r1 and r3 run on the same instance and are interchangeable.
Symmetry == Permutations({r1, r3})
=============================================================================
