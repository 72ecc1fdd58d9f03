------------------------------ MODULE MCPlayback ------------------------------
(* A user's way to a stream, in two parts that share nothing: three Starts  *)
(* of one user, and two requests for segments of a short film, each on its  *)
(* own API instance.  s1 and s2 play the same item, s2 and s3 are adaptive. *)
EXTENDS UserCap, RungServe, TLC

CONSTANTS s1, s2, s3, q1, q2
MCStart == {s1, s2, s3}
MCABR == {s2, s3}
MCItemOf == (s1 :> 1) @@ (s2 :> 1) @@ (s3 :> 3)
MCReq == {q1, q2}
MCInstOf == (q1 :> 1) @@ (q2 :> 2)

VARIABLE part
allVars == <<vars, serveVars, part>>

Starting(A) == part = "start" /\ A /\ UNCHANGED <<serveVars, part>>
Serving(A) == part = "serve" /\ A /\ UNCHANGED <<vars, part>>

PlaybackInit == Init /\ ServeInit /\ part \in {"start", "serve"}
PlaybackNext == Starting(Next) \/ Serving(ServeNext)

\* The fairness of UserCap and of RungServe.  Only one part moves in a behaviour,
\* so one formula is fair to an actor of each.
PlaybackSpec ==
    /\ PlaybackInit /\ [][PlaybackNext]_allVars
    /\ WF_allVars(Starting(LockExpires) \/ Serving(Step(q1)))
    /\ WF_allVars(Starting(Runs(s1)) \/ Serving(Step(q2)))
    /\ WF_allVars(Starting(Runs(s2)))
    /\ WF_allVars(Starting(Runs(s3)))
=============================================================================
