----------------------------- MODULE MCDispatch ------------------------------
(* Two jobs, a converted download, an embedded worker and another one.     *)
EXTENDS Dispatch

CONSTANTS j1, j2, w1, w2, d1
MCJob == {j1, j2}
MCWorker == {w1, w2}
MCRsv == {d1}
=============================================================================
