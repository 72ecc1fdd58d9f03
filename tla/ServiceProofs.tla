---------------------------- MODULE ServiceProofs -----------------------------
(***************************************************************************)
(* The services, for instances of any size:                                *)
(*                                                                         *)
(*   H  LiveHLS        tuners are bounded, one per channel, and counted    *)
(*   D  DVR            captures are attended, and filed once               *)
(*   P  PostProcess    the recording survives, and runs own their files    *)
(*   L  Downloads      one encode per file, ready means there              *)
(*   R  RefreshTokens  a token is exchanged once                           *)
(*                                                                         *)
(* Each part has an inductive invariant, a lemma per action or kind of     *)
(* action, and its theorems.                                               *)
(***************************************************************************)
EXTENDS Services, FiniteSetTheorems, TLAPS

\* A step of the services is a step of each or leaves it alone.
LEMMA Parts ==
    ASSUME [Next]_vars
    PROVE  /\ [H!Next]_(H!hlsVars) /\ [D!Next]_(D!dvrVars) /\ [P!Next]_(P!ppVars)
           /\ [L!Next]_(L!dlVars) /\ [R!Next]_(R!authVars)
  BY DEF Next, vars, hlsVars, dvrVars, postVars, downVars, authVars, Hls, Dvr, Post,
         Down, Auth, Task, Trick, Plug, Lib, H!hlsVars, D!dvrVars, P!ppVars, L!dlVars,
         R!authVars

\* The instances count the elements of a set as this module does.
LEMMA SameCardinality ==
    \A X : H!Cardinality(X) = Cardinality(X) /\ D!Cardinality(X) = Cardinality(X)
  BY DEF H!Cardinality, D!Cardinality, Cardinality

-----------------------------------------------------------------------------
(* LiveHLS: tuners and viewers.                                            *)

\* The reservation of a channel is held by the request that creates its session, and
\* by it only as long as the channel has no live one.
ReserveInv ==
    /\ \A r \in Req : pc[r] \in {"tune", "start", "publish"} => creating[chan[r]] = r
    /\ \A c \in Channel : creating[c] # None =>
          /\ chan[creating[c]] = c /\ pc[creating[c]] \in {"tune", "start", "publish"}
          /\ ~H!Live(c)

\* A session that was not published is known to its creator alone; it has a tuner
\* from the tune to the publication and the creator as its viewer.
PrivateInv ==
    \A s \in Req : reap[s] = "none" =>
        /\ \A c \in Channel : sessions[c] # s
        /\ \A r \in Req : mine[r] # s
        /\ ses[s].down = "no" /\ ~ses[s].armed /\ ses[s].late = 0
        /\ ses[s].up <=> pc[s] \in {"start", "publish"}
        /\ ses[s].ff = "run" => pc[s] = "publish"
        /\ pc[s] = "publish" => ses[s].ref = 1 /\ ses[s].dir

\* A published session is its channel's, with its tuner and its directory, until a
\* teardown closes it.
PublicInv ==
    /\ \A c \in Channel : sessions[c] # None =>
          chan[sessions[c]] = c /\ reap[sessions[c]] # "none"
    /\ \A s \in Req : reap[s] # "none" =>
          /\ pc[s] \in {"hold", "done"}
          /\ ses[s].down = "no" => sessions[chan[s]] = s /\ ses[s].up /\ ses[s].dir

\* A request refers to a session as long as it writes its answer.
HoldInv == \A r \in Req : pc[r] = "hold" <=> mine[r] # None

\* The channels that have a session, live or not, or a reservation.
Busy == {c \in Channel : sessions[c] # None \/ creating[c] # None}
BusyInv == Cardinality(Busy) <= MaxSessions

\* A session whose ffmpeg runs counts its viewers until a teardown closes it, and is
\* not closed while it has one.
Viewers(s) == {r \in Req : mine[r] = s}
CountInv ==
    \A s \in Req : ses[s].ff = "run" /\ reap[s] = "wait" =>
        IF ses[s].down = "no" THEN ses[s].ref = Cardinality(Viewers(s))
                              ELSE Viewers(s) = {}

TunerInv == /\ H!TypeOK /\ ReserveInv /\ PrivateInv /\ PublicInv /\ HoldInv
            /\ BusyInv /\ CountInv

SesRec == [ref : Int, up : BOOLEAN, dir : BOOLEAN, ff : {"none", "run", "dead"},
           armed : BOOLEAN, late : Nat, down : {"no", "closed", "released", "gone"}]

\* A step that changes one session leaves the others alone.
LEMMA OneSession ==
    ASSUME H!TypeOK, NEW s \in Req, NEW v \in SesRec, ses' = [ses EXCEPT ![s] = v]
    PROVE  /\ ses' \in [Req -> SesRec]
           /\ ses'[s] = v /\ \A t \in Req \ {s} : ses'[t] = ses[t]
  BY DEF H!TypeOK, SesRec

\* One more viewer.
LEMMA AttachRec ==
    ASSUME NEW a \in SesRec
    PROVE  LET v == [a EXCEPT !.ref = @ + 1, !.armed = FALSE]
           IN  /\ v \in SesRec /\ v.ref = a.ref + 1 /\ v.up = a.up /\ v.dir = a.dir
               /\ v.ff = a.ff /\ v.down = a.down
<1> DEFINE i == a.ref + 1
<1>1. i \in Int
  BY DEF SesRec
<1> HIDE DEF i
<1>2. [a EXCEPT !.ref = i, !.armed = FALSE] \in SesRec
  BY <1>1 DEF SesRec
<1>3. [a EXCEPT !.ref = @ + 1, !.armed = FALSE] \in SesRec
  BY <1>2 DEF i
<1> QED
  BY <1>3 DEF SesRec

\* A session with its stream.
LEMMA OnAir ==
    ASSUME NEW a \in SesRec
    PROVE  LET v == [a EXCEPT !.up = TRUE]
           IN  /\ v \in SesRec /\ v.down = a.down /\ v.armed = a.armed
               /\ v.late = a.late /\ v.ff = a.ff /\ v.up
  BY DEF SesRec

\* A session with its ffmpeg, for one viewer.
LEMMA Encoding ==
    ASSUME NEW a \in SesRec, a.up
    PROVE  LET v == [a EXCEPT !.dir = TRUE, !.ff = "run", !.ref = 1]
           IN  /\ v \in SesRec /\ v.down = a.down /\ v.armed = a.armed
               /\ v.late = a.late /\ v.ref = 1 /\ v.dir /\ v.up
<1> DEFINE i == 1
<1>1. i \in Int
  OBVIOUS
<1> HIDE DEF i
<1>4. [a EXCEPT !.dir = TRUE, !.ff = "run", !.ref = i] \in SesRec
  BY <1>1 DEF SesRec
<1>2. [a EXCEPT !.dir = TRUE, !.ff = "run", !.ref = 1] \in SesRec
  BY <1>4 DEF i
<1>3. [a EXCEPT !.dir = TRUE, !.ff = "run", !.ref = 1].up
  BY DEF SesRec
<1> QED
  BY <1>2, <1>3 DEF SesRec

\* A session that lost its stream before it had an ffmpeg.
LEMMA OffAir ==
    ASSUME NEW a \in SesRec
    PROVE  LET v == [a EXCEPT !.up = FALSE]
           IN  /\ v \in SesRec /\ v.down = a.down /\ v.armed = a.armed
               /\ v.late = a.late /\ v.ff = a.ff /\ ~v.up
  BY DEF SesRec

\* Requests that only move on, and touch no session, keep the invariant.
LEMMA MoveStep ==
    ASSUME TunerConstants, TunerInv, NEW r \in Req,
           NEW x \in {"lookup", "join", "wait", "done"},
           pc[r] \in {"idle", "lookup", "join", "wait", "poll"},
           pc' = [pc EXCEPT ![r] = x], pend' \in [Req -> Req \cup {None}],
           UNCHANGED <<mine, sessions, creating, ses, reap>>
    PROVE  TunerInv'
<1>1. H!TypeOK'
  BY DEF TunerInv, H!TypeOK
<1>2. ReserveInv'
  BY DEF TunerInv, H!TypeOK, ReserveInv, H!Live, TunerConstants
<1>3. PrivateInv'
  BY DEF TunerInv, H!TypeOK, PrivateInv
<1>4. PublicInv' /\ HoldInv'
  BY DEF TunerInv, H!TypeOK, PublicInv, HoldInv
<1>5. BusyInv' /\ CountInv'
  BY DEF TunerInv, BusyInv, Busy, CountInv, Viewers
<1> QED
  BY <1>1, <1>2, <1>3, <1>4, <1>5 DEF TunerInv

LEMMA JoinStep ==
    ASSUME TunerConstants, TunerInv, NEW r \in Req,
           pc[r] \in {"lookup", "join", "poll"},
           pc' = [pc EXCEPT ![r] = "hold"], H!JoinLive(r)
    PROVE  TunerInv'
<1> DEFINE s == sessions[chan[r]]
           v == [ses[s] EXCEPT !.ref = @ + 1, !.armed = FALSE]
<1>1. /\ s \in Req /\ ses[s].down = "no" /\ ses[s] \in SesRec
      /\ chan[r] \in Channel /\ reap[s] # "none"
  BY DEF H!JoinLive, H!Live, TunerInv, H!TypeOK, TunerConstants, SesRec, PublicInv
<1>2. /\ ses' = [ses EXCEPT ![s] = v] /\ mine' = [mine EXCEPT ![r] = s]
      /\ UNCHANGED <<pend, sessions, creating, reap>>
  BY DEF H!JoinLive, H!Attach
<1>3. /\ v \in SesRec /\ v.ref = ses[s].ref + 1 /\ v.up = ses[s].up /\ v.dir = ses[s].dir
      /\ v.ff = ses[s].ff /\ v.down = ses[s].down
  BY <1>1, AttachRec
<1> HIDE DEF s, v
<1>4. /\ ses' \in [Req -> SesRec]
      /\ ses'[s] = v /\ \A t \in Req \ {s} : ses'[t] = ses[t]
  BY <1>1, <1>2, <1>3, OneSession DEF TunerInv
<1>5. H!TypeOK'
  BY <1>1, <1>2, <1>4 DEF TunerInv, H!TypeOK, SesRec
<1>6. \A t \in Req : ses'[t].down = ses[t].down /\ ses'[t].ff = ses[t].ff
                     /\ ses'[t].up = ses[t].up /\ ses'[t].dir = ses[t].dir
  BY <1>3, <1>4
<1>7. ReserveInv'
  BY <1>2, <1>6 DEF TunerInv, H!TypeOK, ReserveInv, H!Live, TunerConstants
<1>8. PrivateInv'
  BY <1>1, <1>2, <1>4 DEF TunerInv, H!TypeOK, PrivateInv
<1>9. PublicInv'
  BY <1>1, <1>2, <1>6 DEF TunerInv, H!TypeOK, PublicInv, TunerConstants
<1>10. HoldInv'
  BY <1>1, <1>2 DEF TunerInv, H!TypeOK, HoldInv, TunerConstants
<1>11. BusyInv'
  BY <1>2 DEF TunerInv, BusyInv, Busy
<1>12. CountInv'
  <2> SUFFICES ASSUME NEW t \in Req, ses[t].ff = "run", reap[t] = "wait"
               PROVE  IF ses[t].down = "no" THEN ses'[t].ref = Cardinality(Viewers(t)')
                                            ELSE Viewers(t)' = {}
    BY <1>2, <1>6 DEF CountInv
  <2>1. IF ses[t].down = "no" THEN ses[t].ref = Cardinality(Viewers(t))
                              ELSE Viewers(t) = {}
    BY DEF TunerInv, CountInv
  <2>2. CASE t = s
    <3>1. r \notin Viewers(t) /\ Viewers(t)' = Viewers(t) \cup {r}
      BY <1>2, <2>2 DEF TunerInv, H!TypeOK, HoldInv, TunerConstants, Viewers
    <3>2. IsFiniteSet(Viewers(t))
      BY FS_Subset DEF TunerConstants, Viewers
    <3>3. Cardinality(Viewers(t)') = Cardinality(Viewers(t)) + 1
      BY <3>1, <3>2, FS_AddElement
    <3> QED
      BY <1>1, <1>3, <1>4, <2>1, <2>2, <3>3
  <2>3. CASE t # s
    <3>1. Viewers(t)' = Viewers(t)
      BY <1>2, <2>3 DEF TunerInv, H!TypeOK, HoldInv, TunerConstants, Viewers
    <3> QED
      BY <1>4, <2>1, <2>3, <3>1
  <2> QED
    BY <2>2, <2>3
<1> QED
  BY <1>5, <1>7, <1>8, <1>9, <1>10, <1>11, <1>12 DEF TunerInv

\* joinOrReserve reserves a channel: there was room for one more.
LEMMA ReserveStep ==
    ASSUME TunerConstants, TunerInv, NEW r \in Req, H!Reserve(r)
    PROVE  TunerInv'
<1> DEFINE c == chan[r]
<1>1. /\ c \in Channel /\ pc[r] = "join" /\ pc' = [pc EXCEPT ![r] = "tune"]
      /\ ~H!Live(c) /\ creating[c] = None /\ H!Occupied(c) < MaxSessions
      /\ creating' = [creating EXCEPT ![c] = r]
      /\ UNCHANGED <<mine, pend, sessions, ses, reap>>
  BY DEF H!Reserve, H!At, TunerConstants
<1> HIDE DEF c
<1>2. H!TypeOK'
  BY <1>1 DEF TunerInv, H!TypeOK
<1>3. ReserveInv'
  BY <1>1 DEF TunerInv, H!TypeOK, ReserveInv, H!Live, TunerConstants, c
<1>4. PrivateInv'
  BY <1>1 DEF TunerInv, H!TypeOK, PrivateInv
<1>5. PublicInv' /\ HoldInv'
  BY <1>1 DEF TunerInv, H!TypeOK, PublicInv, HoldInv
<1>6. CountInv'
  BY <1>1 DEF TunerInv, CountInv, Viewers
<1>7. BusyInv'
  <2> DEFINE A == {d \in Channel : sessions[d] # None}
             E == {d \in Channel : creating[d] # None}
             n == IF sessions[c] # None THEN 1 ELSE 0
  <2>1. /\ IsFiniteSet(A) /\ IsFiniteSet(E) /\ IsFiniteSet(A \ {c})
    BY FS_Subset DEF TunerConstants
  <2>2. Cardinality(A \ {c}) = Cardinality(A) - n
    BY <1>1, <2>1, FS_RemoveElement, FS_CardinalityType, SMTT(30)
  <2> DEFINE K == (A \ {c}) \cup E
  <2>3. Busy' \subseteq K \cup {c}
    BY <1>1 DEF Busy, TunerInv, H!TypeOK
  <2>4. /\ Cardinality(A) \in Nat /\ Cardinality(E) \in Nat
        /\ Cardinality(A \ {c}) \in Nat
    BY <2>1, FS_CardinalityType
  <2>5. H!Occupied(c) = Cardinality(A) + Cardinality(E) - n
    BY <2>4, SameCardinality DEF H!Occupied
  <2> HIDE DEF A, E, n
  <2>6. /\ IsFiniteSet(K) /\ Cardinality(K) \in Nat
        /\ Cardinality(K) <= Cardinality(A \ {c}) + Cardinality(E)
    <3>1. Cardinality((A \ {c}) \cap E) \in Nat
      BY <2>1, FS_Intersection, FS_CardinalityType
    <3>2. /\ IsFiniteSet(K)
          /\ Cardinality(K) = Cardinality(A \ {c}) + Cardinality(E)
                              - Cardinality((A \ {c}) \cap E)
      BY <2>1, FS_Union
    <3> HIDE DEF K
    <3> QED
      BY <2>4, <3>1, <3>2, FS_CardinalityType
  <2> HIDE DEF K
  <2>7. /\ IsFiniteSet(K \cup {c}) /\ Cardinality(K \cup {c}) \in Nat
        /\ Cardinality(K \cup {c}) <= Cardinality(K) + 1
    <3>1. /\ IsFiniteSet(K \cup {c})
          /\ Cardinality(K \cup {c}) =
                IF c \in K THEN Cardinality(K) ELSE Cardinality(K) + 1
      BY <2>6, FS_AddElement
    <3> QED
      BY <2>6, <3>1
  <2>8. Cardinality(Busy') \in Nat /\ Cardinality(Busy') <= Cardinality(K \cup {c})
    BY <2>3, <2>7, FS_Subset, FS_CardinalityType
  <2>9. n \in Nat
    BY DEF n
  <2> QED
    BY <1>1, <2>2, <2>4, <2>5, <2>6, <2>7, <2>8, <2>9 DEF BusyInv, TunerConstants
<1> QED
  BY <1>2, <1>3, <1>4, <1>5, <1>6, <1>7 DEF TunerInv

\* The creator works on its session, which stays its own.
LEMMA OwnStep ==
    ASSUME TunerConstants, TunerInv, NEW r \in Req, NEW v \in SesRec,
           ses' = [ses EXCEPT ![r] = v],
           v.down = ses[r].down, v.armed = ses[r].armed, v.late = ses[r].late, v.up,
           \/ /\ pc[r] = "tune" /\ pc' = [pc EXCEPT ![r] = "start"]
              /\ v.ff = ses[r].ff
           \/ /\ pc[r] = "start" /\ pc' = [pc EXCEPT ![r] = "publish"]
              /\ v.ref = 1 /\ v.dir,
           UNCHANGED <<mine, pend, sessions, creating, reap>>
    PROVE  TunerInv'
<1>1. reap[r] = "none"
  BY DEF TunerInv, H!TypeOK, PublicInv
<1>2. /\ ses' \in [Req -> SesRec]
      /\ ses'[r] = v /\ \A t \in Req \ {r} : ses'[t] = ses[t]
  BY OneSession DEF TunerInv
<1>3. H!TypeOK'
  BY <1>2 DEF TunerInv, H!TypeOK, SesRec
<1>4. ReserveInv'
  <2>1. \A t \in Req : ses'[t].down = ses[t].down
    BY <1>2
  <2> QED
    BY <2>1 DEF TunerInv, H!TypeOK, ReserveInv, H!Live, TunerConstants
<1>5. PrivateInv'
  BY <1>1, <1>2 DEF TunerInv, H!TypeOK, PrivateInv
<1>6. PublicInv' /\ HoldInv'
  BY <1>1, <1>2 DEF TunerInv, H!TypeOK, PublicInv, HoldInv
<1>7. BusyInv'
  BY DEF TunerInv, BusyInv, Busy
<1>8. CountInv'
  BY <1>1, <1>2 DEF TunerInv, CountInv, Viewers
<1> QED
  BY <1>3, <1>4, <1>5, <1>6, <1>7, <1>8 DEF TunerInv

\* The tuner answers: the session has its stream.
LEMMA TuneStep ==
    ASSUME TunerConstants, TunerInv, NEW r \in Req, H!Tune(r)
    PROVE  TunerInv'
<1> DEFINE v == [ses[r] EXCEPT !.up = TRUE]
<1>1. ses[r] \in SesRec
  BY DEF TunerInv, H!TypeOK, SesRec
<1>2. /\ v \in SesRec /\ v.down = ses[r].down /\ v.armed = ses[r].armed
      /\ v.late = ses[r].late /\ v.ff = ses[r].ff /\ v.up
  BY <1>1, OnAir
<1>3. /\ ses' = [ses EXCEPT ![r] = v] /\ pc[r] = "tune" /\ pc' = [pc EXCEPT ![r] = "start"]
      /\ UNCHANGED <<mine, pend, sessions, creating, reap>>
  BY <1>1 DEF H!Tune, H!At
<1> HIDE DEF v
<1> QED
  BY <1>2, <1>3, OwnStep

\* The directory is made and ffmpeg started, for one viewer.
LEMMA StartStep ==
    ASSUME TunerConstants, TunerInv, NEW r \in Req, H!StartFFmpeg(r)
    PROVE  TunerInv'
<1> DEFINE v == [ses[r] EXCEPT !.dir = TRUE, !.ff = "run", !.ref = 1]
<1>1. ses[r] \in SesRec
  BY DEF TunerInv, H!TypeOK, SesRec
<1>2. /\ ses' = [ses EXCEPT ![r] = v] /\ pc[r] = "start"
      /\ pc' = [pc EXCEPT ![r] = "publish"]
      /\ UNCHANGED <<mine, pend, sessions, creating, reap>>
  BY <1>1 DEF H!StartFFmpeg, H!At
<1>3. ses[r].up
  BY <1>2 DEF TunerInv, H!TypeOK, PrivateInv, PublicInv
<1>4. /\ v \in SesRec /\ v.down = ses[r].down /\ v.armed = ses[r].armed
      /\ v.late = ses[r].late /\ v.ref = 1 /\ v.dir /\ v.up
  BY <1>1, <1>3, Encoding
<1> HIDE DEF v
<1> QED
  BY <1>2, <1>4, OwnStep

\* A tune or a start that fails gives the reservation back, and the tuner.
LEMMA AbandonStep ==
    ASSUME TunerConstants, TunerInv, NEW r \in Req, H!TuneFails(r) \/ H!StartFails(r)
    PROVE  TunerInv'
<1> DEFINE v == IF pc[r] = "start" THEN [ses[r] EXCEPT !.up = FALSE] ELSE ses[r]
<1>1. /\ \/ pc[r] = "tune" /\ pc' = [pc EXCEPT ![r] = "poll"]
         \/ pc[r] = "start" /\ pc' = [pc EXCEPT ![r] = "done"]
      /\ creating' = [creating EXCEPT ![chan[r]] = None]
      /\ UNCHANGED <<mine, pend, sessions, reap>>
  BY DEF H!TuneFails, H!StartFails, H!At, H!endReservation, TunerInv, ReserveInv
<1>2. /\ reap[r] = "none" /\ creating[chan[r]] = r /\ chan[r] \in Channel
      /\ ses[r] \in SesRec /\ (pc[r] = "tune" => ~ses[r].up)
  BY <1>1 DEF TunerInv, H!TypeOK, PublicInv, PrivateInv, ReserveInv, TunerConstants,
     SesRec
<1>3. /\ v \in SesRec /\ v.down = ses[r].down /\ v.armed = ses[r].armed
      /\ v.late = ses[r].late /\ v.ff = ses[r].ff /\ ~v.up
  BY <1>1, <1>2, OffAir
<1>4. ses' = [ses EXCEPT ![r] = v]
  BY <1>1, <1>2 DEF H!TuneFails, H!StartFails, H!At, TunerInv, H!TypeOK
<1> HIDE DEF v
<1>5. /\ ses' \in [Req -> SesRec]
      /\ ses'[r] = v /\ \A t \in Req \ {r} : ses'[t] = ses[t]
  BY <1>3, <1>4, OneSession DEF TunerInv
<1>6. H!TypeOK'
  BY <1>1, <1>5 DEF TunerInv, H!TypeOK, SesRec
<1>7. ReserveInv'
  <2>1. \A t \in Req : ses'[t].down = ses[t].down
    BY <1>3, <1>5
  <2> QED
    BY <1>1, <1>2, <2>1 DEF TunerInv, H!TypeOK, ReserveInv, H!Live, TunerConstants
<1>8. PrivateInv'
  BY <1>1, <1>2, <1>3, <1>5 DEF TunerInv, H!TypeOK, PrivateInv
<1>9. PublicInv' /\ HoldInv'
  BY <1>1, <1>2, <1>5 DEF TunerInv, H!TypeOK, PublicInv, HoldInv
<1>10. BusyInv'
  <2>1. Busy' \subseteq Busy /\ IsFiniteSet(Busy)
    BY <1>1, FS_Subset DEF TunerInv, H!TypeOK, Busy, TunerConstants
  <2>2. Cardinality(Busy') <= Cardinality(Busy)
    BY <2>1, FS_Subset
  <2> QED
    BY <2>1, <2>2, FS_Subset, FS_CardinalityType DEF TunerInv, BusyInv, TunerConstants
<1>11. CountInv'
  BY <1>1, <1>2, <1>5 DEF TunerInv, CountInv, Viewers
<1> QED
  BY <1>6, <1>7, <1>8, <1>9, <1>10, <1>11 DEF TunerInv

\* The session is published in the place of its reservation.  No live session is there.
LEMMA PublishStep ==
    ASSUME TunerConstants, TunerInv, NEW r \in Req, H!Publish(r)
    PROVE  TunerInv'
<1> DEFINE c == chan[r]
<1>1. pc[r] = "publish" /\ pc' = [pc EXCEPT ![r] = "hold"] /\ UNCHANGED pend
  BY DEF H!Publish, H!At
<1>2. /\ c \in Channel /\ creating[c] = r /\ ~H!Live(c) /\ reap[r] = "none"
  BY <1>1 DEF TunerInv, ReserveInv, PublicInv, H!TypeOK, TunerConstants
<1>3. /\ sessions' = [sessions EXCEPT ![c] = r] /\ creating' = [creating EXCEPT ![c] = None]
      /\ mine' = [mine EXCEPT ![r] = r] /\ reap' = [reap EXCEPT ![r] = "wait"]
      /\ ses' = ses
  BY <1>2 DEF H!Publish, H!endReservation
<1>4. /\ ses[r].up /\ ses[r].dir /\ ses[r].ref = 1 /\ ses[r].down = "no"
      /\ \A t \in Req : mine[t] # r
  BY <1>1, <1>2 DEF TunerInv, PrivateInv
<1> HIDE DEF c
<1>5. H!TypeOK'
  BY <1>1, <1>2, <1>3 DEF TunerInv, H!TypeOK
<1>6. ReserveInv'
  BY <1>1, <1>2, <1>3 DEF TunerInv, H!TypeOK, ReserveInv, H!Live, TunerConstants, c
<1>7. PrivateInv'
  BY <1>1, <1>2, <1>3 DEF TunerInv, H!TypeOK, PrivateInv
<1>8. PublicInv'
  <2>1. \A t \in Req : reap[t] # "none" /\ ses[t].down = "no" => sessions'[chan[t]] = t
    BY <1>2, <1>3 DEF TunerInv, H!TypeOK, PublicInv, H!Live, TunerConstants, c
  <2> QED
    BY <1>1, <1>2, <1>3, <1>4, <2>1 DEF TunerInv, H!TypeOK, PublicInv, TunerConstants, c
<1>9. HoldInv'
  BY <1>1, <1>3 DEF TunerInv, H!TypeOK, HoldInv, TunerConstants
<1>10. BusyInv'
  <2>1. Busy' = Busy
    BY <1>2, <1>3 DEF TunerInv, H!TypeOK, Busy, TunerConstants
  <2> QED
    BY <2>1 DEF TunerInv, BusyInv
<1>11. CountInv'
  <2>1. Viewers(r)' = {r} /\ \A t \in Req \ {r} : Viewers(t)' = Viewers(t)
    BY <1>1, <1>3, <1>4 DEF TunerInv, H!TypeOK, HoldInv, Viewers, TunerConstants
  <2>2. Cardinality({r}) = 1
    BY FS_Singleton
  <2>3. ses'[r].ref = Cardinality(Viewers(r)')
    BY <1>3, <1>4, <2>1, <2>2
  <2>4. \A t \in Req \ {r} : reap'[t] = reap[t]
    BY <1>3 DEF TunerInv, H!TypeOK
  <2> QED
    BY <1>3, <1>4, <2>1, <2>3, <2>4, ZenonT(60) DEF TunerInv, CountInv
<1> QED
  BY <1>5, <1>6, <1>7, <1>8, <1>9, <1>10, <1>11 DEF TunerInv

\* A viewer leaves.
LEMMA ReleaseStep ==
    ASSUME TunerConstants, TunerInv, NEW r \in Req, H!Release(r)
    PROVE  TunerInv'
<1>1. /\ pc[r] = "hold" /\ pc' = [pc EXCEPT ![r] = "done"]
      /\ mine' = [mine EXCEPT ![r] = None]
      /\ UNCHANGED <<pend, sessions, creating, reap>>
  BY DEF H!Release, H!At
<1>2. PICK s \in Req : s = mine[r] /\ ses[s] \in SesRec /\ reap[s] # "none"
  BY <1>1 DEF TunerInv, H!TypeOK, HoldInv, PrivateInv, TunerConstants, SesRec
<1>3. PICK v \in SesRec :
         /\ ses' = [ses EXCEPT ![s] = v]
         /\ v.up = ses[s].up /\ v.dir = ses[s].dir /\ v.ff = ses[s].ff
         /\ v.down = ses[s].down
         /\ v.down = "no" => v.ref = ses[s].ref - 1
  <2> DEFINE a == ses[s]
             left == a.ref - 1
             n == IF a.armed THEN a.late + 1 ELSE a.late
             x == [a EXCEPT !.ref = left, !.armed = TRUE, !.late = n]
             y == [a EXCEPT !.ref = left]
  <2>1. left \in Int /\ n \in Nat /\ a \in SesRec
    BY <1>2 DEF SesRec
  <2>2. a.down = "no" => ses' = [ses EXCEPT ![s] = x] \/ ses' = [ses EXCEPT ![s] = y]
    BY <1>2 DEF H!Release, TunerInv, H!TypeOK
  <2>3. a.down # "no" => ses' = [ses EXCEPT ![s] = a]
    BY <1>2 DEF H!Release, TunerInv, H!TypeOK
  <2> HIDE DEF a, left, n
  <2>4. /\ x \in SesRec /\ x.up = a.up /\ x.dir = a.dir /\ x.ff = a.ff
        /\ x.down = a.down /\ x.ref = left
    BY <2>1 DEF SesRec
  <2>5. /\ y \in SesRec /\ y.up = a.up /\ y.dir = a.dir /\ y.ff = a.ff
        /\ y.down = a.down /\ y.ref = left
    BY <2>1 DEF SesRec
  <2> HIDE DEF x, y
  <2>6. CASE a.down # "no"
    BY <2>1, <2>3, <2>6 DEF a
  <2>7. CASE a.down = "no" /\ ses' = [ses EXCEPT ![s] = x]
    BY <2>4, <2>7 DEF a, left
  <2>8. CASE a.down = "no" /\ ses' = [ses EXCEPT ![s] = y]
    BY <2>5, <2>8 DEF a, left
  <2> QED
    BY <2>2, <2>6, <2>7, <2>8
<1>4. /\ ses' \in [Req -> SesRec]
      /\ ses'[s] = v /\ \A t \in Req \ {s} : ses'[t] = ses[t]
  BY <1>2, <1>3, OneSession DEF TunerInv
<1>5. H!TypeOK'
  BY <1>1, <1>4 DEF TunerInv, H!TypeOK, SesRec
<1>6. \A t \in Req : ses'[t].down = ses[t].down /\ ses'[t].ff = ses[t].ff
                     /\ ses'[t].up = ses[t].up /\ ses'[t].dir = ses[t].dir
  BY <1>3, <1>4
<1>7. ReserveInv'
  BY <1>1, <1>6 DEF TunerInv, H!TypeOK, ReserveInv, H!Live, TunerConstants
<1>8. PrivateInv'
  BY <1>1, <1>2, <1>4 DEF TunerInv, H!TypeOK, PrivateInv, TunerConstants
<1>9. PublicInv'
  BY <1>1, <1>6 DEF TunerInv, H!TypeOK, PublicInv, TunerConstants
<1>10. HoldInv'
  BY <1>1 DEF TunerInv, H!TypeOK, HoldInv
<1>11. BusyInv'
  BY <1>1 DEF TunerInv, BusyInv, Busy
<1>12. CountInv'
  <2>1. /\ r \in Viewers(s) /\ Viewers(s)' = Viewers(s) \ {r}
        /\ \A t \in Req \ {s} : Viewers(t)' = Viewers(t)
    BY <1>1, <1>2 DEF TunerInv, H!TypeOK, Viewers, TunerConstants
  <2>2. IsFiniteSet(Viewers(s))
    BY FS_Subset DEF TunerConstants, Viewers
  <2>3. Cardinality(Viewers(s)') = Cardinality(Viewers(s)) - 1
    BY <2>1, <2>2, FS_RemoveElement
  <2> SUFFICES ASSUME NEW t \in Req, ses[t].ff = "run", reap[t] = "wait"
               PROVE  IF ses[t].down = "no" THEN ses'[t].ref = Cardinality(Viewers(t)')
                                            ELSE Viewers(t)' = {}
    BY <1>1, <1>6 DEF CountInv
  <2>4. IF ses[t].down = "no" THEN ses[t].ref = Cardinality(Viewers(t))
                              ELSE Viewers(t) = {}
    BY DEF TunerInv, CountInv
  <2>5. CASE t = s
    BY <1>3, <1>4, <2>1, <2>3, <2>4, <2>5
  <2>6. CASE t # s
    BY <1>4, <2>1, <2>4, <2>6
  <2> QED
    BY <2>5, <2>6
<1> QED
  BY <1>5, <1>7, <1>8, <1>9, <1>10, <1>11, <1>12 DEF TunerInv

\* The end of a session: what changes a session outside of the requests.
LEMMA EndStep ==
    ASSUME TunerConstants, TunerInv, NEW s \in Req, NEW v \in SesRec,
           ses' = [ses EXCEPT ![s] = v], UNCHANGED <<pc, mine, pend, creating>>,
           \A t \in Req \ {s} : reap'[t] = reap[t],
           reap' \in [Req -> {"none", "wait", "zeroed", "over"}],
           reap[s] = "none" <=> reap'[s] = "none",
           sessions' \in [Channel -> Req \cup {None}],
           \A c \in Channel : sessions'[c] # sessions[c] =>
                sessions[c] = s /\ sessions'[c] = None /\ ses[s].down # "no",
           v.down = "no" => ses[s].down = "no" /\ v.up = ses[s].up /\ v.dir = ses[s].dir,
           reap[s] = "none" => /\ v.down = "no" /\ v.armed = ses[s].armed
                               /\ v.late = ses[s].late /\ v.ref = ses[s].ref
                               /\ v.ff # "run",
           v.ff = "run" /\ reap'[s] = "wait" =>
                /\ ses[s].ff = "run" /\ reap[s] = "wait"
                /\ v.down = "no" => v.ref = ses[s].ref
                /\ v.down # "no" => ses[s].down # "no" \/ ses[s].ref <= 0
    PROVE  TunerInv'
<1>1. /\ ses' \in [Req -> SesRec]
      /\ ses'[s] = v /\ \A t \in Req \ {s} : ses'[t] = ses[t]
  BY OneSession DEF TunerInv
<1>2. H!TypeOK'
  BY <1>1 DEF TunerInv, H!TypeOK, SesRec
<1>3. ReserveInv'
  <2>1. \A t \in Req : ses'[t].down = "no" => ses[t].down = "no"
    BY <1>1
  <2> QED
    BY <2>1 DEF TunerInv, H!TypeOK, ReserveInv, H!Live, TunerConstants
<1>4. PrivateInv'
  BY <1>1 DEF TunerInv, H!TypeOK, PrivateInv, TunerConstants
<1>5. PublicInv'
  <2>1. \A t \in Req : ses'[t].down = "no" =>
           ses[t].down = "no" /\ ses'[t].up = ses[t].up /\ ses'[t].dir = ses[t].dir
    BY <1>1
  <2>2. \A t \in Req : reap[t] = "none" <=> reap'[t] = "none"
    OBVIOUS
  <2>3. \A t \in Req : ses'[t].down = "no" => sessions'[chan[t]] = sessions[chan[t]]
                                              \/ sessions[chan[t]] # t
    BY <2>1 DEF TunerConstants
  <2> QED
    BY <2>1, <2>2, <2>3 DEF TunerInv, H!TypeOK, PublicInv, TunerConstants
<1>6. HoldInv'
  BY DEF TunerInv, HoldInv
<1>7. BusyInv'
  <2>1. Busy' \subseteq Busy /\ IsFiniteSet(Busy)
    BY FS_Subset DEF Busy, TunerConstants
  <2>2. Cardinality(Busy') <= Cardinality(Busy)
    BY <2>1, FS_Subset
  <2> QED
    BY <2>1, <2>2, FS_Subset, FS_CardinalityType DEF TunerInv, BusyInv, TunerConstants
<1>8. CountInv'
  <2>1. \A t \in Req : Viewers(t)' = Viewers(t) /\ IsFiniteSet(Viewers(t))
    BY FS_Subset DEF Viewers, TunerConstants
  <2>2. ASSUME Cardinality(Viewers(s)) <= 0
        PROVE  Viewers(s) = {}
    BY <2>1, <2>2, FS_CardinalityType, FS_EmptySet
  <2>3. CASE v.ff = "run" /\ reap'[s] = "wait"
    BY <1>1, <2>1, <2>2, <2>3 DEF TunerInv, CountInv
  <2>4. CASE ~(v.ff = "run" /\ reap'[s] = "wait")
    BY <1>1, <2>1, <2>4 DEF TunerInv, CountInv
  <2> QED
    BY <2>3, <2>4
<1> QED
  BY <1>2, <1>3, <1>4, <1>5, <1>6, <1>7, <1>8 DEF TunerInv

\* The grace timer goes off, or its teardown comes to its turn: it may close the
\* session if nobody is counted any more.
LEMMA TimerStep ==
    ASSUME TunerConstants, TunerInv, NEW s \in Req, H!TimerFires(s) \/ H!TimerTeardown(s)
    PROVE  TunerInv'
<1> DEFINE a == ses[s]
           up == a.late + 1
           dn == a.late - 1
           d == H!Closed(s)
           x == [a EXCEPT !.armed = FALSE, !.late = up]
           y == [a EXCEPT !.late = dn, !.down = d]
<1>1. a \in SesRec /\ (reap[s] = "none" => ~a.armed /\ a.late = 0)
  BY DEF TunerInv, H!TypeOK, PrivateInv, SesRec
<1>2. /\ \/ a.armed /\ ses' = [ses EXCEPT ![s] = x]
         \/ a.late > 0 /\ ses' = [ses EXCEPT ![s] = y]
      /\ UNCHANGED <<pc, mine, pend, sessions, creating, reap>>
  BY DEF H!TimerFires, H!TimerTeardown
<1>3. reap[s] # "none"
  BY <1>1, <1>2
<1>4. /\ up \in Nat /\ (a.late > 0 => dn \in Nat)
      /\ d \in {"no", "closed", "released", "gone"}
      /\ d = a.down \/ (a.down = "no" /\ a.ref <= 0 /\ d = "closed")
  BY <1>1 DEF SesRec, H!Closed
<1> HIDE DEF a, up, dn, d
<1>5. /\ x \in SesRec /\ x.down = a.down /\ x.up = a.up /\ x.dir = a.dir
      /\ x.ff = a.ff /\ x.ref = a.ref
  BY <1>1, <1>4 DEF SesRec
<1>6. a.late > 0 => /\ y \in SesRec /\ y.down = d /\ y.up = a.up /\ y.dir = a.dir
                    /\ y.ff = a.ff /\ y.ref = a.ref
  BY <1>1, <1>4 DEF SesRec
<1> HIDE DEF x, y
<1>7. /\ sessions \in [Channel -> Req \cup {None}]
      /\ reap \in [Req -> {"none", "wait", "zeroed", "over"}]
  BY DEF TunerInv, H!TypeOK
<1>8. CASE a.armed /\ ses' = [ses EXCEPT ![s] = x]
  BY <1>2, <1>3, <1>5, <1>7, <1>8, EndStep DEF a
<1>9. CASE a.late > 0 /\ ses' = [ses EXCEPT ![s] = y]
  BY <1>2, <1>3, <1>4, <1>6, <1>7, <1>9, EndStep DEF a
<1> QED
  BY <1>2, <1>8, <1>9

\* A teardown releases what a closed session held, and then its place.
LEMMA TeardownStep ==
    ASSUME TunerConstants, TunerInv, NEW s \in Req,
           H!TeardownReleases(s) \/ H!TeardownUnmaps(s)
    PROVE  TunerInv'
<1> DEFINE a == ses[s]
           x == [a EXCEPT !.down = "released", !.ff = "dead", !.up = FALSE, !.dir = FALSE]
           y == [a EXCEPT !.down = "gone"]
<1>1. /\ a \in SesRec /\ (reap[s] = "none" => a.down = "no")
      /\ sessions \in [Channel -> Req \cup {None}]
      /\ reap \in [Req -> {"none", "wait", "zeroed", "over"}]
  BY DEF TunerInv, H!TypeOK, PrivateInv, SesRec
<1>2. /\ a.down # "no" /\ UNCHANGED <<pc, mine, pend, creating, reap>>
      /\ \/ ses' = [ses EXCEPT ![s] = x] /\ UNCHANGED sessions
         \/ /\ ses' = [ses EXCEPT ![s] = y]
            /\ sessions' = [c \in Channel |-> IF sessions[c] = s THEN None ELSE sessions[c]]
  BY DEF H!TeardownReleases, H!TeardownUnmaps
<1> HIDE DEF a
<1>3. x \in SesRec /\ x.down = "released" /\ x.ff = "dead"
  BY <1>1 DEF SesRec
<1>4. y \in SesRec /\ y.down = "gone" /\ y.ff = a.ff
  BY <1>1 DEF SesRec
<1> HIDE DEF x, y
<1>5. /\ sessions' \in [Channel -> Req \cup {None}]
      /\ \A c \in Channel : sessions'[c] # sessions[c] =>
                               sessions[c] = s /\ sessions'[c] = None
  BY <1>1, <1>2
<1>6. CASE ses' = [ses EXCEPT ![s] = x]
  BY <1>1, <1>2, <1>3, <1>5, <1>6, EndStep DEF a
<1>7. CASE ses' = [ses EXCEPT ![s] = y]
  BY <1>1, <1>2, <1>4, <1>5, <1>7, EndStep DEF a
<1> QED
  BY <1>2, <1>6, <1>7

\* ffmpeg exits, the reaper finds it dead, stops counting and tears the session down.
LEMMA ReaperStep ==
    ASSUME TunerConstants, TunerInv, NEW s \in Req,
           H!FFmpegExits(s) \/ H!ReaperZeroes(s) \/ H!ReaperTeardown(s)
    PROVE  TunerInv'
<1> DEFINE a == ses[s]
           d == H!Closed(s)
           z == 0
           x == [a EXCEPT !.ff = "dead"]
           y == [a EXCEPT !.ref = z]
           w == [a EXCEPT !.down = d]
<1>1. /\ a \in SesRec /\ sessions \in [Channel -> Req \cup {None}]
      /\ reap \in [Req -> {"none", "wait", "zeroed", "over"}]
      /\ reap[s] = "none" => a.down = "no"
  BY DEF TunerInv, H!TypeOK, PrivateInv, SesRec
<1>2. /\ d \in {"no", "closed", "released", "gone"} /\ (d = "no" => a.down = "no")
      /\ z \in Int
  BY <1>1 DEF SesRec, H!Closed
<1>3. /\ UNCHANGED <<pc, mine, pend, sessions, creating>>
      /\ \/ ses' = [ses EXCEPT ![s] = x] /\ UNCHANGED reap
         \/ /\ ses' = [ses EXCEPT ![s] = y] /\ reap[s] = "wait"
            /\ reap' = [reap EXCEPT ![s] = "zeroed"]
         \/ /\ ses' = [ses EXCEPT ![s] = w] /\ reap[s] = "zeroed"
            /\ reap' = [reap EXCEPT ![s] = "over"]
  BY DEF H!FFmpegExits, H!ReaperZeroes, H!ReaperTeardown
<1> HIDE DEF a, d, z
<1>4. /\ x \in SesRec /\ x.ff = "dead" /\ x.down = a.down /\ x.up = a.up /\ x.dir = a.dir
      /\ x.armed = a.armed /\ x.late = a.late /\ x.ref = a.ref
  BY <1>1 DEF SesRec
<1>5. y \in SesRec /\ y.down = a.down /\ y.up = a.up /\ y.dir = a.dir
  BY <1>1, <1>2 DEF SesRec
<1>6. w \in SesRec /\ w.down = d /\ w.up = a.up /\ w.dir = a.dir
  BY <1>1, <1>2 DEF SesRec
<1> HIDE DEF x, y, w
<1>7. CASE ses' = [ses EXCEPT ![s] = x] /\ UNCHANGED reap
  BY <1>1, <1>3, <1>4, <1>7, EndStep DEF a
<1>8. CASE /\ ses' = [ses EXCEPT ![s] = y] /\ reap[s] = "wait"
           /\ reap' = [reap EXCEPT ![s] = "zeroed"]
  BY <1>1, <1>3, <1>5, <1>8, EndStep DEF a
<1>9. CASE /\ ses' = [ses EXCEPT ![s] = w] /\ reap[s] = "zeroed"
           /\ reap' = [reap EXCEPT ![s] = "over"]
  BY <1>1, <1>2, <1>3, <1>6, <1>9, EndStep DEF a
<1> QED
  BY <1>3, <1>7, <1>8, <1>9

\* Every step keeps the invariant.
LEMMA TunerStep ==
    ASSUME TunerConstants, TunerInv, [H!Next]_(H!hlsVars)
    PROVE  TunerInv'
<1>1. ASSUME NEW r \in Req, \/ H!Begin(r) \/ H!LookupMiss(r) \/ H!JoinWaits(r)
                            \/ H!JoinBusy(r) \/ H!WaitOver(r) \/ H!WaitCancelled(r)
                            \/ H!PollGivesUp(r)
      PROVE  TunerInv'
  <2>1. pend' \in [Req -> Req \cup {None}]
    BY <1>1 DEF TunerInv, H!TypeOK, H!Begin, H!LookupMiss, H!JoinWaits, H!JoinBusy,
                H!WaitOver, H!WaitCancelled, H!PollGivesUp, TunerConstants
  <2>2. /\ pc[r] \in {"idle", "lookup", "join", "wait", "poll"}
        /\ \E x \in {"lookup", "join", "wait", "done"} : pc' = [pc EXCEPT ![r] = x]
        /\ UNCHANGED <<mine, sessions, creating, ses, reap>>
    BY <1>1 DEF H!At, H!Begin, H!LookupMiss, H!JoinWaits, H!JoinBusy,
                H!WaitOver, H!WaitCancelled, H!PollGivesUp
  <2> QED
    BY <2>1, <2>2, MoveStep
<1>2. ASSUME NEW r \in Req, H!LookupHit(r) \/ H!Join(r) \/ H!PollHit(r)
      PROVE  TunerInv'
  BY <1>2, JoinStep DEF H!LookupHit, H!Join, H!PollHit, H!At
<1>3. ASSUME NEW r \in Req, \/ H!Reserve(r) \/ H!Tune(r) \/ H!TuneFails(r)
                            \/ H!StartFFmpeg(r) \/ H!StartFails(r) \/ H!Publish(r)
                            \/ H!Release(r)
      PROVE  TunerInv'
  BY <1>3, ReserveStep, TuneStep, StartStep, AbandonStep, PublishStep, ReleaseStep
<1>4. ASSUME NEW s \in Req, H!Ends(s) \/ H!FFmpegExits(s)
      PROVE  TunerInv'
  BY <1>4, TimerStep, TeardownStep, ReaperStep DEF H!Ends
<1>5. CASE UNCHANGED H!hlsVars
  <2> USE <1>5 DEF H!hlsVars, TunerInv
  <2>1. H!TypeOK' /\ HoldInv'
    BY DEF H!TypeOK, HoldInv
  <2>2. ReserveInv'
    BY DEF ReserveInv, H!Live
  <2>3. PrivateInv'
    BY DEF PrivateInv
  <2>4. PublicInv'
    BY DEF PublicInv
  <2>5. BusyInv' /\ CountInv'
    BY DEF BusyInv, Busy, CountInv, Viewers
  <2> QED
    BY <2>1, <2>2, <2>3, <2>4, <2>5
<1> QED
  BY <1>1, <1>2, <1>3, <1>4, <1>5 DEF H!Next, H!Steps

\* Nothing is there to begin with.
LEMMA TunerInit ==
    ASSUME TunerConstants, H!Init
    PROVE  TunerInv
<1>1. /\ \A r \in Req : /\ pc[r] = "idle" /\ mine[r] = None /\ reap[r] = "none"
                        /\ ses[r] = H!NewSession
      /\ \A c \in Channel : sessions[c] = None /\ creating[c] = None
  BY DEF H!Init
<1>2. H!TypeOK
  BY DEF H!Init, H!TypeOK, H!NewSession
<1>3. ReserveInv /\ PublicInv /\ HoldInv /\ CountInv
  BY <1>1 DEF ReserveInv, PublicInv, HoldInv, CountInv
<1>4. PrivateInv
  BY <1>1 DEF PrivateInv, H!NewSession, TunerConstants
<1>5. Busy = {}
  BY <1>1 DEF Busy
<1>6. BusyInv
  BY <1>5, FS_EmptySet DEF BusyInv, TunerConstants
<1> QED
  BY <1>2, <1>3, <1>4, <1>6 DEF TunerInv

\* What the invariant says of the tuners.
LEMMA TunersFollow ==
    ASSUME TunerConstants, TunerInv
    PROVE  H!TunersAccounted
<1>1. H!TunedIsReachable
  BY DEF TunerInv, H!TypeOK, PrivateInv, PublicInv, ReserveInv, H!TunedIsReachable,
     H!Tuned
<1>2. H!OneTunePerChannel
  <2> SUFFICES ASSUME NEW s \in H!Tuned, NEW t \in H!Tuned, chan[s] = chan[t]
               PROVE  s = t
    BY DEF H!OneTunePerChannel
  <2>1. /\ s \in {sessions[chan[s]], creating[chan[s]]}
        /\ t \in {sessions[chan[s]], creating[chan[s]]}
    BY <1>1 DEF H!TunedIsReachable
  <2>2. sessions[chan[s]] \in {s, t} => creating[chan[s]] = None
    BY DEF TunerInv, ReserveInv, H!Live, H!Tuned, TunerConstants
  <2> QED
    BY <2>1, <2>2 DEF H!Tuned, TunerConstants
<1>3. H!TunersBounded
  <2> DEFINE f == [s \in H!Tuned |-> chan[s]]
  <2>1. IsFiniteSet(H!Tuned) /\ IsFiniteSet(Busy)
    BY FS_Subset DEF H!Tuned, Busy, TunerConstants
  <2>2. \A s \in H!Tuned : chan[s] \in Busy
    BY <1>1 DEF H!TunedIsReachable, H!Tuned, Busy, TunerConstants
  <2>3. f \in Injection(H!Tuned, Busy)
    BY <1>2, <2>2 DEF H!OneTunePerChannel, Injection, IsInjective
  <2>4. Cardinality(H!Tuned) <= Cardinality(Busy)
    BY <2>1, <2>3, FS_Injection
  <2> QED
    BY <2>1, <2>4, FS_CardinalityType, SameCardinality
       DEF TunerInv, BusyInv, H!TunersBounded, TunerConstants
<1>4. H!ViewersKeepStream
  <2> SUFFICES ASSUME NEW s \in Req, ses[s].ff = "run", reap[s] = "wait"
               PROVE  /\ ses[s].down = "no" => ses[s].ref = Cardinality(Viewers(s))
                      /\ Viewers(s) # {} => ses[s].down = "no" /\ ses[s].up /\ ses[s].dir
    BY SameCardinality DEF H!ViewersKeepStream, Viewers
  <2> QED
    BY DEF TunerInv, CountInv, PublicInv
<1> QED
  BY <1>1, <1>2, <1>3, <1>4 DEF TunerInv, H!TunersAccounted

\* However many first viewers of however many channels arrive at once, and whenever
\* timers fire and ffmpeg dies: no more sessions are tuned than MaxSessions, one per
\* channel, each can be found by the next viewer, and each counts its viewers and
\* keeps its stream for them.
THEOREM TunersHold ==
    Init /\ [][Next]_vars => []TunersAccounted
<1>1. Init => TunerInv
  BY TunerInit, ServicesAssumption DEF Init
<1>2. TunerInv /\ [Next]_vars => TunerInv'
  BY ServicesAssumption, Parts, TunerStep
<1>3. TunerInv => TunersAccounted
  BY TunersFollow, ServicesAssumption DEF TunersAccounted
<1> QED
  BY <1>1, <1>2, <1>3, PTL

-----------------------------------------------------------------------------
(* The worker's inductive invariant.                                       *)

Starting == wk.ph \in {"start", "mark", "giveup"}
Reaping == wk.ph \in {"reap", "create", "complete", "fail", "exhausted"}

\* The worker has a recording of its list in hand in the phases that need one.
HandInv ==
    IF wk.ph \in {"mark", "giveup", "create", "complete", "fail", "exhausted"}
    THEN wk.cur \in wk.todo ELSE wk.cur = NoRec

\* What the worker read when it made its list, and still knows: a recording it may
\* start was never captured to the end, one it may finalize is still its own.
ListInv ==
    /\ Starting => \A r \in wk.todo : /\ r \notin active /\ items[r] = 0
                                      /\ row[r] \in {"scheduled", "cancelled"}
    /\ Reaping => wk.todo \subseteq active

\* A recording still to be captured has left nothing in the library.
ScheduledInv == \A r \in Rec : row[r] = "scheduled" => r \notin active /\ items[r] = 0

\* The session remembers the item it created, and which captures ended by themselves;
\* a capture about to be marked has no item yet.
ItemInv ==
    /\ \A r \in active : items[r] = IF cap[r].item THEN 1 ELSE 0
    /\ \A r \in Rec : cap[r].ff = "ok" => file[r] = "whole"
    /\ wk.ph \in {"create", "complete"} => cap[wk.cur].ff = "ok"
    /\ wk.ph = "mark" => ~cap[wk.cur].item

\* A tuner is held, or ffmpeg runs, only for a capture in hand: D!CapturesAttended
\* without the caps.
AttendedInv ==
    \A r \in Rec : cap[r].up \/ cap[r].ff = "run" =>
                      r \in active \/ (D!In("mark") /\ wk.cur = r)

CoreInv ==
    /\ D!TypeOK
    /\ HandInv /\ ListInv /\ ScheduledInv /\ ItemInv
    /\ AttendedInv /\ D!NothingStranded /\ D!OneItemPerCapture

\* The caps, and the room that was there before the tuner was opened: it is still
\* there when the row is marked.
CapsInv ==
    /\ Cardinality(active) <= MaxCaptures
    /\ \A u \in {User[r] : r \in Rec} :
          Cardinality({r \in active : User[r] = u}) <= MaxPerUser
    /\ D!In("mark") => ~D!Full(wk.cur)

DVRInv == CoreInv /\ CapsInv

-----------------------------------------------------------------------------
(* The world's steps, and the worker's.                                    *)

\* A step that only closes the upstream of a capture.
LEMMA HangUp ==
    ASSUME D!TypeOK, NEW r \in Rec, NEW b \in BOOLEAN, b => cap[r].up,
           cap' = [cap EXCEPT ![r].up = b]
    PROVE  /\ cap' \in [Rec -> [up : BOOLEAN, ff : {"none", "run", "ok", "bad"},
                                item : BOOLEAN]]
           /\ \A z \in Rec : /\ cap'[z].ff = cap[z].ff /\ cap'[z].item = cap[z].item
                             /\ cap'[z].up => cap[z].up
  BY DEF D!TypeOK

\* A step that only notes that the item was created.
LEMMA NoteItem ==
    ASSUME D!TypeOK, NEW r \in Rec, NEW b \in BOOLEAN,
           cap' = [cap EXCEPT ![r].item = b]
    PROVE  cap' \in [Rec -> [up : BOOLEAN, ff : {"none", "run", "ok", "bad"}, item : BOOLEAN]]
  BY DEF D!TypeOK

\* An error counts against the bound.
LEMMA ErrorType ==
    ASSUME DVRConstants, D!TypeOK, D!Error
    PROVE  errors' \in 0..MaxErrors
  BY DEF DVRConstants, D!TypeOK, D!Error

\* What the worker knows survives programmes that end, users that cancel and
\* captures that exit.
LEMMA WorldStep ==
    ASSUME DVRConstants, CoreInv, NEW r \in Rec,
           \/ D!ProgrammeEnds(r) \/ D!CancelRecording(r)
           \/ D!UpstreamEnds(r) \/ D!FFmpegFinishes(r) \/ D!FFmpegFails(r)
    PROVE  CoreInv'
<1> USE DEF DVRConstants, CoreInv, D!TypeOK, HandInv, ListInv, Starting, Reaping,
            ScheduledInv, ItemInv, AttendedInv, D!NothingStranded, D!OneItemPerCapture, D!In
<1>1. CASE D!ProgrammeEnds(r)
  BY <1>1 DEF D!ProgrammeEnds
<1>2. CASE D!CancelRecording(r)
  BY <1>2 DEF D!CancelRecording
<1>3. CASE D!UpstreamEnds(r)
  <2>1. cap' = [cap EXCEPT ![r].up = FALSE]
    BY <1>3 DEF D!UpstreamEnds
  <2>2. /\ cap' \in [Rec -> [up : BOOLEAN, ff : {"none", "run", "ok", "bad"}, item : BOOLEAN]]
        /\ \A z \in Rec : /\ cap'[z].ff = cap[z].ff /\ cap'[z].item = cap[z].item
                          /\ cap'[z].up => cap[z].up
    BY <2>1, HangUp, FALSE \in BOOLEAN
  <2> QED
    BY <1>3, <2>2 DEF D!UpstreamEnds
<1>4. CASE D!FFmpegFinishes(r)
  BY <1>4 DEF D!FFmpegFinishes
<1>5. CASE D!FFmpegFails(r)
  BY <1>5 DEF D!FFmpegFails
<1> QED
  BY <1>1, <1>2, <1>3, <1>4, <1>5

\* The steps of startDueRecordings keep CoreInv.
LEMMA WorkerStarts ==
    ASSUME DVRConstants, CoreInv, NEW r \in Rec,
           \/ D!Defer(r) \/ D!DeferFails(r) \/ D!Begin(r) \/ D!BeginFails(r) \/ D!GiveUp(r)
           \/ D!MarkStarted(r) \/ D!StandDown(r) \/ D!MarkErrs(r)
    PROVE  CoreInv'
<1> USE DEF DVRConstants, CoreInv, D!TypeOK, HandInv, ListInv, Starting, Reaping,
            ScheduledInv, ItemInv, AttendedInv, D!NothingStranded, D!OneItemPerCapture, D!In,
            D!Take, D!Drop, D!Hold, D!Back
<1>1. CASE D!Defer(r)
  BY <1>1 DEF D!Defer
<1>2. CASE D!DeferFails(r)
  <2>1. CASE row' = [row EXCEPT ![r] = "failed"] /\ UNCHANGED <<errors, unsaid>>
    BY <1>2, <2>1, ZenonT(60) DEF D!DeferFails
  <2>2. CASE errors' \in 0..MaxErrors /\ unsaid' = unsaid \cup {r} /\ UNCHANGED row
    BY <1>2, <2>2, ZenonT(60) DEF D!DeferFails
  <2> QED
    BY <1>2, <2>1, <2>2, ErrorType DEF D!DeferFails, D!SetFailed
<1>3. CASE D!Begin(r)
  <2>1. /\ cap' \in [Rec -> [up : BOOLEAN, ff : {"none", "run", "ok", "bad"}, item : BOOLEAN]]
        /\ ~cap'[r].item /\ cap'[r].ff \in {"run", "bad"}
        /\ \A z \in Rec : z # r => cap'[z] = cap[z]
    BY <1>3, ZenonT(60) DEF D!Begin, D!NoCapture
  <2>2. PICK f \in {"part", "whole"} :
           file' = [file EXCEPT ![r] = f] /\ (file[r] = "whole" => f = "whole")
    BY <1>3 DEF D!Begin
  <2> QED
    <3>1. /\ wk.ph = "start" /\ r \in wk.todo /\ r \notin active
          /\ wk' = [ph |-> "mark", todo |-> wk.todo, cur |-> r]
          /\ UNCHANGED <<row, over, active, items, errors, crashes, unsaid>>
      BY <1>3 DEF D!Begin
    <3>2. D!TypeOK'
      BY <2>1, <2>2, <3>1
    <3>3. (HandInv /\ ListInv /\ ScheduledInv /\ D!NothingStranded)'
      BY <3>1
    <3>4. (ItemInv /\ AttendedInv /\ D!OneItemPerCapture)'
      BY <2>1, <2>2, <3>1, ZenonT(60)
    <3> QED
      BY <3>2, <3>3, <3>4
<1>4. CASE D!BeginFails(r)
  <2>1. errors' \in 0..MaxErrors
    BY <1>4, ErrorType DEF D!BeginFails
  <2>2. CASE D!Hold(r, "giveup")
    BY <1>4, <2>1, <2>2 DEF D!BeginFails
  <2>3. CASE D!Drop(r)
    BY <1>4, <2>1, <2>3 DEF D!BeginFails
  <2> QED
    BY <1>4, <2>2, <2>3 DEF D!BeginFails
<1>5. CASE D!GiveUp(r)
  <2>1. CASE row' = [row EXCEPT ![r] = "failed"] /\ UNCHANGED <<errors, unsaid>>
    BY <1>5, <2>1 DEF D!GiveUp
  <2>2. CASE errors' \in 0..MaxErrors /\ unsaid' = unsaid \cup {r} /\ UNCHANGED row
    BY <1>5, <2>2 DEF D!GiveUp
  <2> QED
    BY <1>5, <2>1, <2>2, ErrorType DEF D!GiveUp, D!SetFailed
<1>6. CASE D!MarkStarted(r)
  BY <1>6 DEF D!MarkStarted
<1>7. CASE D!StandDown(r)
  BY <1>7 DEF D!StandDown, D!NoCapture
<1>8. CASE D!MarkErrs(r)
  <2>1. errors' \in 0..MaxErrors
    BY <1>8, ErrorType DEF D!MarkErrs
  <2>2. CASE D!Hold(r, "giveup")
    <3>1. /\ wk.ph = "mark" /\ wk.cur = r
          /\ wk' = [ph |-> "giveup", todo |-> wk.todo, cur |-> r]
          /\ cap' = [cap EXCEPT ![r] = D!NoCapture]
          /\ UNCHANGED <<row, over, file, active, items, crashes, unsaid>>
      BY <1>8, <2>2 DEF D!MarkErrs
    <3>2. D!TypeOK'
      BY <2>1, <3>1 DEF D!NoCapture
    <3>3. (HandInv /\ ListInv /\ ScheduledInv /\ D!NothingStranded)'
      BY <3>1
    <3>4. (ItemInv /\ AttendedInv /\ D!OneItemPerCapture)'
      BY <3>1 DEF D!NoCapture
    <3> QED
      BY <3>2, <3>3, <3>4
  <2>3. CASE D!Back(r, "start")
    BY <1>8, <2>1, <2>3 DEF D!MarkErrs, D!NoCapture
  <2> QED
    BY <1>8, <2>2, <2>3 DEF D!MarkErrs
<1> QED
  BY <1>1, <1>2, <1>3, <1>4, <1>5, <1>6, <1>7, <1>8

\* The steps of reapFinishedCaptures keep CoreInv.
LEMMA ReapStep ==
    ASSUME DVRConstants, CoreInv, NEW r \in Rec,
           \/ D!Finalize(r) \/ D!FinalizeSkips(r) \/ D!FinalizeErrs(r) \/ D!FinalizeFails(r)
           \/ D!CreateItem(r) \/ D!CreateErrs(r) \/ D!Complete(r) \/ D!CompleteErrs(r)
    PROVE  CoreInv'
<1> USE DEF DVRConstants, CoreInv, D!TypeOK, HandInv, ListInv, Starting, Reaping,
            ScheduledInv, ItemInv, AttendedInv, D!NothingStranded, D!OneItemPerCapture, D!In,
            D!Take, D!Drop, D!Hold, D!Back
<1>1. CASE D!Finalize(r)
  <2>1. PICK ph \in {"create", "complete", "fail"} :
           D!Hold(r, ph) /\ (ph # "fail" => cap[r].ff = "ok")
    BY <1>1 DEF D!Finalize
  <2>2. /\ cap' \in [Rec -> [up : BOOLEAN, ff : {"none", "run", "ok", "bad"},
                              item : BOOLEAN]]
        /\ \A z \in Rec : /\ cap'[z].ff = cap[z].ff /\ cap'[z].item = cap[z].item
                          /\ cap'[z].up => cap[z].up
    BY <1>1, HangUp DEF D!Finalize
  <2>3. /\ wk.ph = "reap" /\ r \in wk.todo /\ row[r] = "recording"
        /\ wk'.ph = ph /\ wk'.cur = r /\ wk'.todo = wk.todo /\ D!TypeOK'
        /\ UNCHANGED <<row, file, active, items, unsaid>>
    BY <1>1, <2>1, <2>2 DEF D!Finalize
  <2>4. HandInv' /\ ListInv' /\ ScheduledInv'
    BY <2>1, <2>3
  <2>5. ItemInv'
    BY <2>1, <2>2, <2>3
  <2>6. AttendedInv' /\ D!NothingStranded' /\ D!OneItemPerCapture'
    BY <2>1, <2>2, <2>3
  <2> QED
    BY <2>3, <2>4, <2>5, <2>6
<1>2. CASE D!FinalizeSkips(r)
  BY <1>2, ZenonT(60) DEF D!FinalizeSkips, D!Forget, D!NoCapture
<1>3. CASE D!FinalizeErrs(r)
  <2>1. errors' \in 0..MaxErrors
    BY <1>3, ErrorType DEF D!FinalizeErrs, D!Transient
  <2>2. CASE D!Hold(r, "exhausted")
    BY <1>3, <2>1, <2>2, HangUp, ZenonT(60) DEF D!FinalizeErrs, D!Transient
  <2>3. CASE D!Back(r, "reap")
    BY <1>3, <2>1, <2>3, HangUp, ZenonT(60) DEF D!FinalizeErrs, D!Transient
  <2> QED
    BY <1>3, <2>2, <2>3 DEF D!FinalizeErrs, D!Transient
<1>4. CASE D!FinalizeFails(r)
  <2>1. CASE row' = [row EXCEPT ![r] = "failed"] /\ UNCHANGED <<errors, unsaid>>
    BY <1>4, <2>1 DEF D!FinalizeFails, D!Forget, D!NoCapture
  <2>2. CASE errors' \in 0..MaxErrors /\ unsaid' = unsaid \cup {r} /\ UNCHANGED row
    BY <1>4, <2>2 DEF D!FinalizeFails, D!Forget, D!NoCapture
  <2> QED
    BY <1>4, <2>1, <2>2, ErrorType DEF D!FinalizeFails, D!SetFailed
<1>5. CASE D!CreateItem(r)
  <2>1. /\ cap' \in [Rec -> [up : BOOLEAN, ff : {"none", "run", "ok", "bad"}, item : BOOLEAN]]
        /\ cap'[r].item /\ cap'[r].ff = cap[r].ff /\ cap'[r].up = cap[r].up
        /\ \A z \in Rec : z # r => cap'[z] = cap[z]
    <3>1. PICK b \in BOOLEAN : b /\ cap' = [cap EXCEPT ![r].item = b]
      BY <1>5 DEF D!CreateItem
    <3>2. cap[r] \in [up : BOOLEAN, ff : {"none", "run", "ok", "bad"}, item : BOOLEAN]
      OBVIOUS
    <3>3. cap' \in [Rec -> [up : BOOLEAN, ff : {"none", "run", "ok", "bad"}, item : BOOLEAN]]
      BY <3>1, NoteItem
    <3>4. cap'[r].item /\ cap'[r].ff = cap[r].ff
      BY <3>1, <3>2
    <3>5. cap'[r].up = cap[r].up
      BY <3>1, <3>2
    <3>6. \A z \in Rec : z # r => cap'[z] = cap[z]
      BY <3>1
    <3> QED
      BY <3>3, <3>4, <3>5, <3>6
  <2>2. r \in active /\ cap[r].ff = "ok" /\ items[r] = IF cap[r].item THEN 1 ELSE 0
    BY <1>5 DEF D!CreateItem
  <2>3. items' = [items EXCEPT ![r] = 1]
    <3>1. CASE cap[r].item
      BY <1>5, <2>2, <3>1 DEF D!CreateItem
    <3>2. CASE ~cap[r].item
      BY <1>5, <2>2, <3>2 DEF D!CreateItem
    <3> QED
      BY <3>1, <3>2
  <2>4. /\ wk.ph = "create" /\ wk.cur = r
        /\ wk' = [ph |-> "complete", todo |-> wk.todo, cur |-> r]
        /\ UNCHANGED <<row, over, file, active, errors, crashes, unsaid>>
    BY <1>5 DEF D!CreateItem
  <2>5. D!TypeOK'
    BY <2>1, <2>3, <2>4
  <2>6. (HandInv /\ ListInv /\ ScheduledInv /\ D!NothingStranded)'
    BY <2>2, <2>3, <2>4
  <2>7. (ItemInv /\ AttendedInv /\ D!OneItemPerCapture)'
    BY <2>1, <2>2, <2>3, <2>4
  <2> QED
    BY <2>5, <2>6, <2>7
<1>6. CASE D!CreateErrs(r)
  <2>1. errors' \in 0..MaxErrors
    BY <1>6, ErrorType DEF D!CreateErrs, D!Transient
  <2>2. CASE D!Hold(r, "exhausted")
    BY <1>6, <2>1, <2>2, HangUp, ZenonT(60) DEF D!CreateErrs, D!Transient
  <2>3. CASE D!Back(r, "reap")
    BY <1>6, <2>1, <2>3, HangUp, ZenonT(60) DEF D!CreateErrs, D!Transient
  <2> QED
    BY <1>6, <2>2, <2>3 DEF D!CreateErrs, D!Transient
<1>7. CASE D!Complete(r)
  BY <1>7 DEF D!Complete, D!Forget, D!NoCapture
<1>8. CASE D!CompleteErrs(r)
  <2>1. errors' \in 0..MaxErrors
    BY <1>8, ErrorType DEF D!CompleteErrs, D!Transient
  <2>2. CASE D!Hold(r, "exhausted")
    BY <1>8, <2>1, <2>2, HangUp, ZenonT(60) DEF D!CompleteErrs, D!Transient
  <2>3. CASE D!Back(r, "reap")
    BY <1>8, <2>1, <2>3, HangUp, ZenonT(60) DEF D!CompleteErrs, D!Transient
  <2> QED
    BY <1>8, <2>2, <2>3 DEF D!CompleteErrs, D!Transient
<1> QED
  BY <1>1, <1>2, <1>3, <1>4, <1>5, <1>6, <1>7, <1>8

\* Making a list, honouring cancellations and restarting keep CoreInv.
LEMMA ListStep ==
    ASSUME DVRConstants, CoreInv,
           \/ D!ListDue \/ D!ListExited \/ D!ListActive \/ D!TickEnds \/ D!ReconcileEnds \/ D!Restart
           \/ \E r \in Rec : D!Honor(r) \/ D!HonorErrs(r) \/ D!Reconcile(r)
           \/ UNCHANGED D!dvrVars
    PROVE  CoreInv'
<1> USE DEF DVRConstants, CoreInv, D!TypeOK, HandInv, ListInv, Starting, Reaping,
            ScheduledInv, ItemInv, AttendedInv, D!NothingStranded, D!OneItemPerCapture, D!In,
            D!Take, D!Drop, D!Idle
<1>1. CASE D!ListDue
  <2>1. /\ wk' \in [ph : {"start"}, todo : SUBSET Rec, cur : {NoRec}]
        /\ \A r \in wk'.todo : row[r] = "scheduled"
    <3>1. CASE wk' = [D!Idle EXCEPT !.ph = "start",
                                  !.todo = {r \in Rec : row[r] = "scheduled"}]
      BY <3>1
    <3>2. CASE wk' = [D!Idle EXCEPT !.ph = "start"]
      BY <3>2
    <3> QED
      BY <1>1, <3>1, <3>2 DEF D!ListDue
  <2>2. errors' \in 0..MaxErrors
    BY <1>1, ErrorType DEF D!ListDue
  <2> QED
    BY <1>1, <2>1, <2>2 DEF D!ListDue
<1>2. CASE D!ListExited
  BY <1>2 DEF D!ListExited
<1>3. CASE D!ListActive
  BY <1>3 DEF D!ListActive
<1>4. CASE D!TickEnds
  BY <1>4 DEF D!TickEnds
<1>5. CASE D!ReconcileEnds
  BY <1>5 DEF D!ReconcileEnds
<1>6. CASE D!Restart
  <2> DEFINE left == {r \in Rec : row[r] = "recording"}
  <2>1. /\ crashes' \in 0..MaxCrashes
        /\ active' = {} /\ cap' = [r \in Rec |-> D!NoCapture]
        /\ UNCHANGED <<row, over, file, items>>
    BY <1>6 DEF D!Restart
  <2>2. CASE /\ wk' = [ph |-> "reconcile", todo |-> left, cur |-> NoRec]
             /\ unsaid' = {} /\ UNCHANGED errors
    BY <2>1, <2>2 DEF D!NoCapture
  <2>3. CASE errors' \in 0..MaxErrors /\ unsaid' = left /\ wk' = D!Idle
    BY <2>1, <2>3 DEF D!NoCapture
  <2> QED
    BY <1>6, <2>2, <2>3, ErrorType DEF D!Restart
<1>7. ASSUME NEW r \in Rec, D!Honor(r) PROVE CoreInv'
  <2>1. (cap[r].up /\ row[r] = "recording") \in BOOLEAN
    OBVIOUS
  <2>2. cap' = [cap EXCEPT ![r].up = cap[r].up /\ row[r] = "recording"]
    BY <1>7 DEF D!Honor
  <2> QED
    BY <1>7, <2>1, <2>2, HangUp, ZenonT(60) DEF D!Honor
<1>8. ASSUME NEW r \in Rec, D!HonorErrs(r) PROVE CoreInv'
  BY <1>8, ErrorType DEF D!HonorErrs
<1>9. ASSUME NEW r \in Rec, D!Reconcile(r) PROVE CoreInv'
  <2>1. CASE row' = [row EXCEPT ![r] = "failed"] /\ UNCHANGED <<errors, unsaid>>
    BY <1>9, <2>1, ZenonT(60) DEF D!Reconcile
  <2>2. CASE errors' \in 0..MaxErrors /\ unsaid' = unsaid \cup {r} /\ UNCHANGED row
    BY <1>9, <2>2 DEF D!Reconcile
  <2> QED
    BY <1>9, <2>1, <2>2, ErrorType DEF D!Reconcile, D!SetFailed
<1>10. CASE UNCHANGED D!dvrVars
  BY <1>10 DEF D!dvrVars
<1> QED
  BY <1>1, <1>2, <1>3, <1>4, <1>5, <1>6, <1>7, <1>8, <1>9, <1>10

\* Every step of the DVR keeps the invariant but for the caps.
LEMMA CoreStep == DVRConstants /\ CoreInv /\ [D!Next]_(D!dvrVars) => CoreInv'
  BY WorldStep, WorkerStarts, ReapStep, ListStep DEF D!Next, D!Tick

-----------------------------------------------------------------------------
(* The caps.                                                               *)

\* What the worker counts before it begins a capture.
OfUser(u) == {r \in active : User[r] = u}

\* The worker counts finite sets: those it compares with the caps.
LEMMA Counts ==
    ASSUME DVRConstants, D!TypeOK, NEW X \in SUBSET active
    PROVE  /\ IsFiniteSet(X) /\ Cardinality(X) \in Nat
           /\ IsFiniteSet(active) /\ Cardinality(active) \in Nat
           /\ Cardinality(X) <= Cardinality(active)
           /\ \A u : /\ IsFiniteSet(OfUser(u)) /\ Cardinality(OfUser(u)) \in Nat
                     /\ {r \in X : User[r] = u} \subseteq OfUser(u)
                     /\ Cardinality({r \in X : User[r] = u}) <= Cardinality(OfUser(u))
<1>1. IsFiniteSet(active) /\ Cardinality(active) \in Nat
  BY FS_Subset, FS_CardinalityType DEF DVRConstants, D!TypeOK
<1>2. IsFiniteSet(X) /\ Cardinality(X) \in Nat /\ Cardinality(X) <= Cardinality(active)
  BY <1>1, FS_Subset, FS_CardinalityType
<1>3. ASSUME NEW u
      PROVE  /\ IsFiniteSet(OfUser(u)) /\ Cardinality(OfUser(u)) \in Nat
             /\ {r \in X : User[r] = u} \subseteq OfUser(u)
             /\ Cardinality({r \in X : User[r] = u}) <= Cardinality(OfUser(u))
  <2>1. OfUser(u) \subseteq active /\ {r \in X : User[r] = u} \subseteq OfUser(u)
    BY DEF OfUser
  <2>2. IsFiniteSet(OfUser(u)) /\ Cardinality(OfUser(u)) \in Nat
    BY <1>1, <2>1, FS_Subset, FS_CardinalityType
  <2> QED
    BY <2>1, <2>2, FS_Subset
<1> QED
  BY <1>1, <1>2, <1>3

\* A step that adds no capture and begins none keeps within the caps.
LEMMA CapsKept ==
    ASSUME DVRConstants, D!TypeOK, CapsInv, active' \subseteq active,
           wk'.ph = "mark" => wk' = wk /\ active' = active
    PROVE  CapsInv'
<1>1. Cardinality(active') <= MaxCaptures
  BY Counts DEF CapsInv, DVRConstants
<1>2. ASSUME NEW u \in {User[r] : r \in Rec}
      PROVE  Cardinality({r \in active' : User[r] = u}) <= MaxPerUser
  <2>1. Cardinality(OfUser(u)) <= MaxPerUser
    BY DEF CapsInv, OfUser
  <2>2. /\ Cardinality({r \in active' : User[r] = u}) <= Cardinality(OfUser(u))
        /\ Cardinality(OfUser(u)) \in Nat
    BY Counts
  <2>3. Cardinality({r \in active' : User[r] = u}) \in Nat
    <3>1. {r \in active' : User[r] = u} \subseteq active
      OBVIOUS
    <3> QED
      BY <3>1, Counts
  <2> QED
    BY <2>1, <2>2, <2>3 DEF DVRConstants
<1>3. D!In("mark")' => ~D!Full(wk.cur)'
  BY DEF CapsInv, D!In, D!Full
<1> QED
  BY <1>1, <1>2, <1>3 DEF CapsInv

\* What D!Hold and D!Back do to the worker's phase.
LEMMA PhaseAfter ==
    ASSUME D!TypeOK, NEW r \in Rec, NEW ph, D!Hold(r, ph) \/ D!Back(r, ph)
    PROVE  wk'.ph = ph
<1>1. CASE D!Hold(r, ph)
  BY <1>1 DEF D!Hold, D!TypeOK
<1>2. CASE D!Back(r, ph)
  BY <1>2 DEF D!Back
<1> QED
  BY <1>1, <1>2

\* A fresh list, whatever is on it, is in the phase it is made for.
LEMMA FreshPhase ==
    ASSUME NEW ph, NEW todo,
           \/ wk' = [D!Idle EXCEPT !.ph = ph, !.todo = todo] \/ wk' = [D!Idle EXCEPT !.ph = ph]
    PROVE  wk'.ph = ph
<1>1. CASE wk' = [D!Idle EXCEPT !.ph = ph, !.todo = todo]
  BY <1>1 DEF D!Idle
<1>2. CASE wk' = [D!Idle EXCEPT !.ph = ph]
  BY <1>2 DEF D!Idle
<1> QED
  BY <1>1, <1>2

\* Nobody else starts a capture between the count and the mark, so the caps hold.
LEMMA CapsStep == DVRConstants /\ CoreInv /\ CapsInv /\ [D!Next]_(D!dvrVars) => CapsInv'
<1> SUFFICES ASSUME DVRConstants, CoreInv, CapsInv, [D!Next]_(D!dvrVars) PROVE CapsInv'
  OBVIOUS
<1> USE DEF D!In
<1>1. D!TypeOK
  BY DEF CoreInv
<1>2. ASSUME NEW r \in Rec, D!Begin(r) PROVE CapsInv'
  <2>1. active' = active /\ wk'.cur = r /\ ~D!Full(r)
    BY <1>1, <1>2 DEF D!Begin, D!Hold, D!TypeOK
  <2> QED
    BY <2>1 DEF CapsInv, D!Full
<1>3. ASSUME NEW r \in Rec, D!MarkStarted(r) PROVE CapsInv'
  <2>1. /\ active' = active \cup {r} /\ wk.ph = "mark" /\ wk.cur = r
        /\ wk'.ph = "start" /\ r \notin active
    BY <1>3 DEF D!MarkStarted, D!Back, CoreInv, ScheduledInv
  <2>2. Cardinality(active) < MaxCaptures /\ Cardinality(OfUser(User[r])) < MaxPerUser
    <3>1. ~D!Full(r)
      BY <2>1 DEF CapsInv
    <3>2. Cardinality(active) \in Nat /\ Cardinality(OfUser(User[r])) \in Nat
      BY <1>1, Counts
    <3> QED
      BY <3>1, <3>2, SameCardinality DEF D!Full, OfUser, DVRConstants
  <2>3. Cardinality(active') <= MaxCaptures
    <3>1. IsFiniteSet(active) /\ Cardinality(active) \in Nat
      BY <1>1, Counts
    <3>2. Cardinality(active') = Cardinality(active) + 1
      BY <2>1, <3>1, FS_AddElement
    <3> QED
      BY <2>2, <3>1, <3>2 DEF DVRConstants
  <2>4. ASSUME NEW u \in {User[s] : s \in Rec}
        PROVE  Cardinality({s \in active' : User[s] = u}) <= MaxPerUser
    <3>1. IsFiniteSet(OfUser(u)) /\ Cardinality(OfUser(u)) \in Nat
      BY <1>1, Counts
    <3>2. CASE u = User[r]
      <4>1. {s \in active' : User[s] = u} = OfUser(u) \cup {r} /\ r \notin OfUser(u)
        BY <2>1, <3>2 DEF OfUser
      <4>2. Cardinality({s \in active' : User[s] = u}) = Cardinality(OfUser(u)) + 1
        BY <3>1, <4>1, FS_AddElement
      <4> QED
        BY <2>2, <3>1, <3>2, <4>2 DEF DVRConstants
    <3>3. CASE u # User[r]
      <4>1. {s \in active' : User[s] = u} = OfUser(u)
        BY <2>1, <3>3 DEF OfUser
      <4> QED
        BY <4>1 DEF CapsInv, OfUser
    <3> QED
      BY <3>2, <3>3
  <2> QED
    BY <2>1, <2>3, <2>4 DEF CapsInv
<1>4. ASSUME NEW r \in Rec,
             \/ D!Defer(r) \/ D!DeferFails(r) \/ D!BeginFails(r) \/ D!GiveUp(r)
             \/ D!StandDown(r) \/ D!MarkErrs(r)
      PROVE  active' \subseteq active /\ wk'.ph # "mark"
  <2>1. active' = active
    BY <1>4 DEF D!Defer, D!DeferFails, D!BeginFails, D!GiveUp, D!StandDown, D!MarkErrs
  <2>2. CASE D!Defer(r) \/ D!DeferFails(r)
    BY <1>1, <2>1, <2>2 DEF D!Defer, D!DeferFails, D!Take, D!Drop, D!TypeOK
  <2>3. CASE D!BeginFails(r)
    BY <1>1, <2>1, <2>3 DEF D!BeginFails, D!Take, D!Drop, D!Hold, D!TypeOK
  <2>4. CASE D!GiveUp(r) \/ D!StandDown(r) \/ D!MarkErrs(r)
    <3>1. D!Back(r, "start") \/ D!Hold(r, "giveup")
      BY <2>4 DEF D!GiveUp, D!StandDown, D!MarkErrs
    <3>2. wk'.ph \in {"start", "giveup"}
      BY <1>1, <3>1, PhaseAfter
    <3> QED
      BY <2>1, <3>2
  <2> QED
    BY <1>4, <2>2, <2>3, <2>4
<1>5. ASSUME NEW r \in Rec,
             \/ D!Finalize(r) \/ D!FinalizeSkips(r) \/ D!FinalizeErrs(r) \/ D!FinalizeFails(r)
             \/ D!CreateItem(r) \/ D!CreateErrs(r) \/ D!Complete(r) \/ D!CompleteErrs(r)
      PROVE  active' \subseteq active /\ wk'.ph # "mark"
  <2>1. active' \subseteq active
    BY <1>5 DEF D!Finalize, D!FinalizeSkips, D!FinalizeErrs, D!FinalizeFails,
       D!CreateItem,
                D!CreateErrs, D!Complete, D!CompleteErrs, D!Forget
  <2>2. CASE D!Finalize(r) \/ D!FinalizeSkips(r)
    BY <1>1, <2>1, <2>2 DEF D!Finalize, D!FinalizeSkips, D!Take, D!Drop, D!Hold,
       D!TypeOK
  <2>3. CASE D!FinalizeErrs(r) \/ D!CreateErrs(r) \/ D!CompleteErrs(r)
    <3>1. D!Back(r, "reap") \/ D!Hold(r, "exhausted")
      BY <2>3 DEF D!FinalizeErrs, D!CreateErrs, D!CompleteErrs, D!Transient
    <3>2. wk'.ph \in {"reap", "exhausted"}
      BY <1>1, <3>1, PhaseAfter
    <3> QED
      BY <2>1, <3>2
  <2>4. CASE D!FinalizeFails(r) \/ D!CreateItem(r) \/ D!Complete(r)
    <3>1. D!Back(r, "reap") \/ D!Hold(r, "complete")
      BY <2>4 DEF D!FinalizeFails, D!CreateItem, D!Complete
    <3>2. wk'.ph \in {"reap", "complete"}
      BY <1>1, <3>1, PhaseAfter
    <3> QED
      BY <2>1, <3>2
  <2> QED
    BY <1>5, <2>2, <2>3, <2>4
<1>6. ASSUME \/ D!ListDue \/ D!ListExited \/ D!ListActive \/ D!TickEnds \/ D!ReconcileEnds
             \/ D!Restart
             \/ \E r \in Rec : D!Honor(r) \/ D!HonorErrs(r) \/ D!Reconcile(r)
      PROVE  active' \subseteq active /\ wk'.ph # "mark"
  <2>1. active' \subseteq active
    BY <1>6 DEF D!ListDue, D!ListExited, D!ListActive, D!TickEnds, D!ReconcileEnds,
       D!Restart, D!Honor,
                D!HonorErrs, D!Reconcile
  <2>2. CASE D!ListDue \/ D!TickEnds \/ D!ReconcileEnds
    <3>1. wk'.ph \in {"idle", "start"}
      <4>1. CASE D!ListDue
        BY <4>1, FreshPhase DEF D!ListDue
      <4>2. CASE D!TickEnds \/ D!ReconcileEnds
        BY <4>2 DEF D!TickEnds, D!ReconcileEnds, D!Idle
      <4> QED
        BY <2>2, <4>1, <4>2
    <3> QED
      BY <2>1, <3>1
  <2>3. CASE D!ListExited \/ D!ListActive
    BY <2>1, <2>3 DEF D!ListExited, D!ListActive
  <2>4. CASE D!Restart
    <3>1. wk'.ph \in {"idle", "reconcile"}
      <4>1. CASE wk' = D!Idle
        BY <4>1 DEF D!Idle
      <4>2. CASE wk' # D!Idle
        BY <2>4, <4>2, FreshPhase DEF D!Restart
      <4> QED
        BY <4>1, <4>2
    <3> QED
      BY <2>1, <3>1
  <2>5. CASE \E r \in Rec : D!Honor(r) \/ D!HonorErrs(r) \/ D!Reconcile(r)
    BY <1>1, <2>1, <2>5 DEF D!Honor, D!HonorErrs, D!Reconcile, D!Take, D!Drop, D!TypeOK
  <2> QED
    BY <1>6, <2>2, <2>3, <2>4, <2>5
<1>7. ASSUME \/ \E r \in Rec : \/ D!ProgrammeEnds(r) \/ D!CancelRecording(r)
                              \/ D!UpstreamEnds(r) \/ D!FFmpegFinishes(r) \/ D!FFmpegFails(r)
             \/ UNCHANGED D!dvrVars
      PROVE  UNCHANGED <<active, wk>>
  BY <1>7 DEF D!ProgrammeEnds, D!CancelRecording, D!UpstreamEnds, D!FFmpegFinishes,
     D!FFmpegFails,
              D!dvrVars
<1> QED
  <2>1. \/ \E r \in Rec : D!Begin(r) \/ D!MarkStarted(r)
        \/ active' \subseteq active /\ (wk'.ph = "mark" => wk' = wk /\ active' = active)
    BY <1>4, <1>5, <1>6, <1>7 DEF D!Next, D!Tick
  <2> QED
    BY <1>1, <1>2, <1>3, <2>1, CapsKept

-----------------------------------------------------------------------------
(* The theorems about the worker.                                          *)

\* It holds of a worker that has not ticked yet.
LEMMA DVRInit == DVRConstants /\ D!Init => DVRInv
<1> SUFFICES ASSUME DVRConstants, D!Init PROVE DVRInv
  OBVIOUS
<1>1. D!TypeOK
  BY DEF D!Init, D!TypeOK, D!NoCapture, D!Idle, DVRConstants
<1>2. HandInv /\ ListInv /\ ScheduledInv /\ ItemInv
  BY DEF D!Init, HandInv, ListInv, Starting, Reaping, ScheduledInv, ItemInv,
     D!NoCapture, D!Idle
<1>3. AttendedInv /\ D!NothingStranded /\ D!OneItemPerCapture
  BY DEF D!Init, AttendedInv, D!NothingStranded, D!OneItemPerCapture, D!NoCapture
<1>4. CapsInv
  <2>1. \A X \in SUBSET active : Cardinality(X) = 0
    BY FS_EmptySet DEF D!Init
  <2>2. Cardinality(active) <= MaxCaptures
    BY <2>1 DEF DVRConstants
  <2>3. ASSUME NEW u PROVE Cardinality({r \in active : User[r] = u}) <= MaxPerUser
    <3>1. {r \in active : User[r] = u} \subseteq active
      OBVIOUS
    <3> QED
      BY <2>1, <3>1 DEF DVRConstants
  <2>4. ~D!In("mark")
    BY DEF D!Init, D!Idle, D!In
  <2> QED
    BY <2>2, <2>3, <2>4 DEF CapsInv
<1> QED
  BY <1>1, <1>2, <1>3, <1>4 DEF DVRInv, CoreInv

\* No capture runs unattended or beyond the caps, no row is stranded in 'recording',
\* and a capture files one item, only if its file is whole: for any number of
\* recordings, users, errors and crashes.
THEOREM CapturesHold ==
    Init /\ [][Next]_vars => []CapturesAccounted
<1>1. Init => DVRInv
  BY DVRInit, ServicesAssumption DEF Init
<1>2. DVRInv /\ [Next]_vars => DVRInv'
  BY ServicesAssumption, Parts, CoreStep, CapsStep DEF DVRInv
<1>3. DVRInv => CapturesAccounted
  BY SameCardinality DEF DVRInv, CoreInv, CapsInv, D!CapturesAccounted,
     D!CapturesAttended, AttendedInv, CapturesAccounted
<1> QED
  BY <1>1, <1>2, <1>3, PTL

\* The worker overwrites a cancellation only with a final status, and only when it
\* had the recording in hand, or in the list it is walking, when the user cancelled.
THEOREM CancellationSticks ==
    Init /\ [][Next]_vars => D!CancelSticks
<1>1. Init => DVRInv
  BY DVRInit, ServicesAssumption DEF Init
<1>2. DVRInv /\ [Next]_vars => DVRInv'
  BY ServicesAssumption, Parts, CoreStep, CapsStep DEF DVRInv
<1>3. DVRInv /\ [Next]_vars =>
      [\A r \in Rec :
          row[r] = "cancelled" /\ row'[r] # "cancelled" =>
              /\ r = wk.cur \/ (wk.ph \in {"start", "reconcile"} /\ r \in wk.todo)
              /\ \/ row'[r] = "failed"
                 \/ row'[r] = "completed" /\ D!In("complete")]_(D!dvrVars)
  <2> SUFFICES ASSUME DVRInv, D!Next, NEW r \in Rec,
                      row[r] = "cancelled", row'[r] # "cancelled"
               PROVE  /\ r = wk.cur \/ (wk.ph \in {"start", "reconcile"} /\ r \in wk.todo)
                      /\ \/ row'[r] = "failed"
                         \/ row'[r] = "completed" /\ D!In("complete")
    BY Parts
  <2> USE DEF DVRInv, CoreInv, D!TypeOK
  <2>1. ASSUME NEW s \in Rec, D!DeferFails(s) \/ D!GiveUp(s) \/ D!FinalizeFails(s) \/ D!Reconcile(s)
        PROVE  /\ r = wk.cur \/ (wk.ph \in {"start", "reconcile"} /\ r \in wk.todo)
               /\ row'[r] = "failed"
    BY <2>1 DEF D!DeferFails, D!GiveUp, D!FinalizeFails, D!Reconcile, D!SetFailed,
       D!Take
  <2>2. ASSUME NEW s \in Rec, D!Complete(s)
        PROVE  r = wk.cur /\ row'[r] = "completed" /\ D!In("complete")
    BY <2>2 DEF D!Complete
  <2>3. ASSUME NEW s \in Rec, D!MarkStarted(s) \/ D!CancelRecording(s) PROVE FALSE
    BY <2>3 DEF D!MarkStarted, D!CancelRecording
  <2>4. ASSUME NEW s \in Rec,
               \/ D!Defer(s) \/ D!Begin(s) \/ D!BeginFails(s) \/ D!StandDown(s) \/ D!MarkErrs(s)
               \/ D!Finalize(s) \/ D!FinalizeSkips(s) \/ D!FinalizeErrs(s) \/ D!CreateItem(s)
               \/ D!CreateErrs(s) \/ D!CompleteErrs(s) \/ D!Honor(s) \/ D!HonorErrs(s)
               \/ D!ProgrammeEnds(s) \/ D!UpstreamEnds(s) \/ D!FFmpegFinishes(s)
               \/ D!FFmpegFails(s)
        PROVE  UNCHANGED row
    BY <2>4 DEF D!Defer, D!Begin, D!BeginFails, D!StandDown, D!MarkErrs, D!Finalize,
       D!FinalizeSkips,
                D!FinalizeErrs, D!CreateItem, D!CreateErrs, D!CompleteErrs, D!Honor, D!HonorErrs,
                D!ProgrammeEnds, D!UpstreamEnds, D!FFmpegFinishes, D!FFmpegFails
  <2>5. ASSUME D!ListDue \/ D!ListExited \/ D!ListActive \/ D!TickEnds \/ D!ReconcileEnds \/ D!Restart
        PROVE  UNCHANGED row
    BY <2>5 DEF D!ListDue, D!ListExited, D!ListActive, D!TickEnds, D!ReconcileEnds,
       D!Restart
  <2> QED
    BY <2>1, <2>2, <2>3, <2>4, <2>5 DEF D!Next, D!Tick
<1> QED
  BY <1>1, <1>2, <1>3, PTL DEF D!CancelSticks

-----------------------------------------------------------------------------
(* Post-processing: the inductive invariant of the commit.                 *)

\* A run is claimed before it moves; the contents that exist were made by the runs so
\* far, and the current one has not made its own yet.
RunInv ==
    /\ at # "idle" => job.st = "processing"
    /\ \A p \in Path : disk[p] <= runs
    /\ kept \subseteq 0..runs
    /\ temp <= runs
    /\ job.st = "queued" \/ at = "probe" => \A p \in Path : disk[p] < runs

\* The name of the result is the run's own: the file it works on, or a free one.
FreeName == final = src \/ disk[final] = P!Absent

\* Where the recording is at each step of a commit that moves the original aside.
AsideInv ==
    ~opt.del =>
        /\ at = "aside" => src = db /\ temp >= 1 /\ disk[src] = temp - 1 /\ FreeName
        /\ at = "place" => /\ src = db /\ temp >= 1 /\ FreeName
                           /\ temp - 1 \in kept /\ disk[src] = P!Absent
        /\ at = "swap" => /\ src = db /\ disk[final] >= 1 /\ disk[final] - 1 \in kept
                          /\ final # src => disk[src] = P!Absent

\* And of one that deletes it, which the admin asked for.
DeleteInv ==
    /\ opt.del /\ at \in {"place", "swap", "delete"} => asked
    /\ opt.del =>
        /\ at = "place" => src = db /\ temp >= 1 /\ disk[src] = temp - 1 /\ FreeName
        /\ at = "swap" => /\ src = db /\ disk[final] >= 1
                          /\ final # src => disk[src] # P!Absent
    /\ at = "aside" => ~opt.del
    /\ at = "delete" => opt.del /\ db = final /\ final # src /\ disk[final] # P!Absent
    /\ at = "probe" => src = db

PostInv ==
    /\ P!TypeOK
    /\ RunInv /\ AsideInv /\ DeleteInv
    /\ P!CaptureSurvives /\ P!DatabaseNamesFile

\* A failure that strikes a commit in the open is remembered.
LEMMA TornStep ==
    ASSUME P!TypeOK, torn' = (torn \/ P!Exposed)
    PROVE  torn' \in BOOLEAN /\ (torn => torn') /\ (P!Exposed => torn')
<1>1. P!Exposed \in BOOLEAN
  BY SMTT(30) DEF P!Exposed
<1> QED
  BY <1>1, Zenon DEF P!TypeOK

\* So is one that was undone in part only.
LEMMA UndoStep ==
    ASSUME P!TypeOK, NEW landed \in BOOLEAN, NEW back \in BOOLEAN, NEW restored \in BOOLEAN,
           torn' = (torn \/ (landed /\ back) \/ (~landed /\ ~opt.del /\ ~restored))
    PROVE  /\ torn' \in BOOLEAN /\ (torn => torn') /\ (landed /\ back => torn')
           /\ (~landed /\ ~opt.del /\ ~restored => torn')
<1>1. torn \in BOOLEAN /\ opt.del \in BOOLEAN
  BY Zenon DEF P!TypeOK, P!Settings
<1> QED
  BY <1>1, Zenon

\* Every step of a run, a failure or the death of the process keeps PostInv.
LEMMA PostStep == PostConstants /\ PostInv /\ [P!Next]_(P!ppVars) => PostInv'
<1> SUFFICES ASSUME PostConstants, PostInv, [P!Next]_(P!ppVars) PROVE PostInv'
  OBVIOUS
<1> USE DEF PostConstants, PostInv, P!TypeOK, P!Settings, P!Absent, P!Go, P!Fail, P!Fault,
            RunInv, AsideInv, DeleteInv, FreeName, P!CaptureSurvives, P!DatabaseNamesFile
<1>1. ASSUME NEW kind \in {"full", "detect"}, P!Enqueue(kind) PROVE PostInv'
  BY <1>1 DEF P!Enqueue
<1>2. ASSUME NEW o \in P!Settings, P!Rewrite(o) PROVE PostInv'
  BY <1>2 DEF P!Rewrite, P!FinalName
<1>3. CASE P!ProbeFails
  BY <1>3 DEF P!ProbeFails
<1>4. CASE P!Detect
  BY <1>4 DEF P!Detect
<1>5. CASE P!NothingToRewrite
  BY <1>5 DEF P!NothingToRewrite
<1>6. CASE P!MoveAside
  <2>1. /\ disk[src] \in 0..MaxRuns /\ src \in Path /\ ~opt.del
        /\ disk' = [disk EXCEPT ![src] = P!Absent] /\ kept' = kept \cup {disk[src]}
    BY <1>6 DEF P!MoveAside
  <2>2. P!TypeOK'
    <3>1. disk' \in [Path -> P!Absent..MaxRuns]
      <4>1. P!Absent \in P!Absent..MaxRuns
        OBVIOUS
      <4> QED
        BY <2>1, <4>1
    <3>2. kept' \subseteq 0..MaxRuns
      BY <2>1
    <3> QED
      BY <1>6, <3>1, <3>2 DEF P!MoveAside
  <2>3. RunInv'
    <3>1. disk[src] \in 0..runs /\ UNCHANGED <<job, temp, runs>> /\ at' = "place"
      BY <1>6, <2>1 DEF P!MoveAside
    <3>2. kept' \subseteq 0..runs
      BY <2>1, <3>1
    <3>3. \A p \in Path : disk'[p] <= runs
      BY <2>1
    <3> QED
      BY <1>6, <3>1, <3>2, <3>3 DEF P!MoveAside
  <2>4. AsideInv' /\ DeleteInv'
    BY <1>6, <2>1 DEF P!MoveAside
  <2>5. P!CaptureSurvives'
    BY <1>6, <2>1 DEF P!MoveAside
  <2>6. P!DatabaseNamesFile'
    BY <1>6, <2>1 DEF P!MoveAside
  <2> QED
    BY <2>2, <2>3, <2>4, <2>5, <2>6
<1>7. CASE P!MoveAsideFails
  BY <1>7 DEF P!MoveAsideFails
<1>8. CASE P!Place
  BY <1>8 DEF P!Place
<1>9. CASE P!PlaceFails
  <2>1. CASE opt.del
    <3>1. /\ at' = "failed" /\ temp' = P!Absent /\ faults' \in 0..MaxFaults
          /\ UNCHANGED <<job, opt, db, src, disk, kept, final, runs, asked, torn, lost>>
      BY <1>9, <2>1 DEF P!PlaceFails
    <3>2. disk[db] # P!Absent /\ job.st = "processing"
      BY <1>9, <2>1 DEF P!PlaceFails
    <3> QED
      BY <3>1, <3>2
  <2>2. CASE ~opt.del /\ disk' = [disk EXCEPT ![src] = temp - 1] /\ kept' = kept \ {temp - 1}
             /\ UNCHANGED torn
    <3>1. /\ temp - 1 \in 0..MaxRuns /\ src \in Path /\ src = db /\ temp - 1 \in kept
          /\ disk' = [disk EXCEPT ![src] = temp - 1] /\ kept' = kept \ {temp - 1}
          /\ at' = "failed" /\ temp' = P!Absent /\ disk[src] = P!Absent
      BY <1>9, <2>2 DEF P!PlaceFails
    <3>2. P!TypeOK'
      BY <1>9, <2>2, <3>1 DEF P!PlaceFails
    <3>3. RunInv'
      BY <1>9, <3>1 DEF P!PlaceFails
    <3>4. AsideInv' /\ DeleteInv'
      BY <1>9, <3>1 DEF P!PlaceFails
    <3>5. P!CaptureSurvives'
      BY <1>9, <3>1 DEF P!PlaceFails
    <3>6. P!DatabaseNamesFile'
      BY <1>9, <3>1 DEF P!PlaceFails
    <3> QED
      BY <3>2, <3>3, <3>4, <3>5, <3>6
  <2>3. CASE ~opt.del /\ torn' = TRUE /\ UNCHANGED <<disk, kept>>
    <3>1. /\ at' = "failed" /\ temp' = P!Absent /\ faults' \in 0..MaxFaults
          /\ UNCHANGED <<job, opt, db, src, disk, kept, final, runs, asked, lost>>
          /\ job.st = "processing"
      BY <1>9, <2>3 DEF P!PlaceFails
    <3>2. torn' \in BOOLEAN /\ torn'
      BY <2>3, Zenon
    <3> QED
      BY <3>1, <3>2
  <2> QED
    BY <1>9, <2>1, <2>2, <2>3 DEF P!PlaceFails
<1>10. CASE P!StatFails
  <2>1. torn' \in BOOLEAN /\ (torn => torn') /\ (P!Exposed => torn')
    BY <1>10, TornStep DEF P!StatFails
  <2>2. P!TypeOK'
    BY <1>10, <2>1 DEF P!StatFails, P!Exposed
  <2>3. RunInv'
    BY <1>10, <2>1 DEF P!StatFails, P!Exposed
  <2>4. AsideInv' /\ DeleteInv'
    BY <1>10, <2>1 DEF P!StatFails, P!Exposed
  <2>5. P!CaptureSurvives'
    BY <1>10, <2>1 DEF P!StatFails, P!Exposed
  <2>6. P!DatabaseNamesFile'
    BY <1>10, <2>1 DEF P!StatFails, P!Exposed
  <2> QED
    BY <2>2, <2>3, <2>4, <2>5, <2>6
<1>11. CASE P!Swap
  BY <1>11 DEF P!Swap
<1>12. CASE P!SwapFails
  <2>1. /\ at' = "failed" /\ temp' = P!Absent /\ faults' \in 0..MaxFaults
        /\ UNCHANGED <<job, opt, src, final, runs, asked, lost>>
        /\ src = db /\ job.st = "processing" /\ disk[final] \in 1..MaxRuns
        /\ disk[final] <= runs
        /\ {src, final} \subseteq Path
    BY <1>12 DEF P!SwapFails
  <2>2. CASE final = src
    <3>1. UNCHANGED <<db, disk, kept, torn>>
      BY <1>12, <2>2 DEF P!SwapFails
    <3> QED
      BY <2>1, <2>2, <3>1
  <2>3. CASE final # src
    <3> DEFINE old == disk[final] - 1
    <3>1. PICK landed \in BOOLEAN, back \in BOOLEAN, restored \in BOOLEAN :
             /\ restored => ~opt.del
             /\ db' = IF landed THEN final ELSE db
             /\ disk' = [p \in Path |-> IF p = final /\ back THEN P!Absent
                                       ELSE IF p = src /\ restored THEN old
                                       ELSE disk[p]]
             /\ kept' = IF restored THEN kept \ {old} ELSE kept
             /\ torn' = (\/ torn
                         \/ landed /\ back
                         \/ ~landed /\ ~opt.del /\ ~restored)
      BY <1>12, <2>3, Zenon DEF P!SwapFails
    <3>2. /\ torn' \in BOOLEAN /\ (torn => torn') /\ (landed /\ back => torn')
          /\ (~landed /\ ~opt.del /\ ~restored => torn')
      BY <3>1, UndoStep
    <3>3. /\ old \in 0..MaxRuns /\ old <= runs /\ disk[final] = old + 1
          /\ ~opt.del => old \in kept /\ disk[src] = P!Absent
          /\ opt.del => asked /\ disk[src] # P!Absent
      BY <1>12, <2>1, <2>3 DEF P!SwapFails
    <3> HIDE DEF old
    <3>4. \A p \in Path : disk'[p] = IF p = final /\ back THEN P!Absent
                                     ELSE IF p = src /\ restored THEN old ELSE disk[p]
      BY <3>1
    <3>5. disk' \in [Path -> P!Absent..MaxRuns]
      BY <2>1, <3>1, <3>3
    <3>6. kept' \subseteq kept /\ (~restored => kept' = kept)
          /\ \A c \in kept : c # old => c \in kept'
      BY <3>1
    <3>7. db' \in {db, final} /\ (landed => db' = final) /\ (~landed => db' = db)
      BY <3>1
    <3>8. P!TypeOK' /\ RunInv'
      BY <2>1, <3>2, <3>3, <3>4, <3>5, <3>6, <3>7
    <3>9. AsideInv' /\ DeleteInv'
      BY <2>1
    <3>10. P!DatabaseNamesFile'
      BY <2>1, <2>3, <3>2, <3>3, <3>4, <3>7
    <3>11. P!CaptureSurvives'
      <4>1. CASE restored
        <5>1. disk'[src] = old
          BY <2>1, <2>3, <3>4, <4>1
        <5>2. \A p \in Path : p # final /\ p # src => disk'[p] = disk[p]
          BY <3>4
        <5> QED
          BY <2>1, <2>3, <3>1, <3>3, <3>6, <5>1, <5>2, <4>1
      <4>2. CASE ~restored /\ opt.del
        BY <2>1, <2>3, <3>3, <3>4, <3>6, <4>2
      <4>3. CASE ~restored /\ ~opt.del
        <5>1. \A p \in Path : p # final => disk'[p] = disk[p]
          BY <3>4, <4>3
        <5> QED
          BY <2>1, <3>3, <3>6, <5>1, <4>3
      <4> QED
        BY <4>1, <4>2, <4>3
    <3> QED
      BY <3>8, <3>9, <3>10, <3>11
  <2> QED
    BY <2>2, <2>3
<1>13. CASE P!DeleteOriginal
  BY <1>13 DEF P!DeleteOriginal
<1>14. CASE P!DeleteFails
  BY <1>14 DEF P!DeleteFails
<1>15. CASE P!ScriptRuns
  BY <1>15 DEF P!ScriptRuns
<1>16. CASE P!ScriptFails
  BY <1>16 DEF P!ScriptFails
<1>17. CASE P!Finish
  <2>1. P!TypeOK'
    <3>1. job' \in [kind : {"full", "detect"},
                    st : {"none", "queued", "processing", "processed", "failed"}]
      BY <1>17 DEF P!Finish
    <3>2. faults' \in 0..MaxFaults
      BY <1>17 DEF P!Finish
    <3>3. {asked, torn, lost} \subseteq BOOLEAN /\ (lost' = lost \/ lost' = TRUE)
      BY <1>17 DEF P!Finish
    <3>4. lost' \in BOOLEAN
      BY <3>3, Zenon
    <3> QED
      BY <1>17, <3>1, <3>2, <3>4 DEF P!Finish
  <2>2. RunInv'
    BY <1>17 DEF P!Finish
  <2>3. AsideInv' /\ DeleteInv'
    BY <1>17 DEF P!Finish
  <2>4. P!CaptureSurvives'
    BY <1>17 DEF P!Finish
  <2>5. P!DatabaseNamesFile'
    BY <1>17 DEF P!Finish
  <2> QED
    BY <2>1, <2>2, <2>3, <2>4, <2>5
<1>18. CASE P!Restart
  <2>1. torn' \in BOOLEAN /\ (torn => torn') /\ (P!Exposed => torn')
    BY <1>18, TornStep DEF P!Restart
  <2>2. P!TypeOK'
    <3>1. job' \in [kind : {"full", "detect"},
                    st : {"none", "queued", "processing", "processed", "failed"}]
      BY <1>18 DEF P!Restart
    <3>2. faults' \in 0..MaxFaults /\ (lost' = FALSE \/ lost' = TRUE)
      BY <1>18 DEF P!Restart
    <3>3. lost' \in BOOLEAN
      BY <3>2, Zenon
    <3> QED
      BY <1>18, <2>1, <3>1, <3>2, <3>3 DEF P!Restart
  <2>3. RunInv'
    BY <1>18, <2>1 DEF P!Restart, P!Exposed
  <2>4. AsideInv' /\ DeleteInv'
    BY <1>18, <2>1 DEF P!Restart, P!Exposed
  <2>5. P!CaptureSurvives'
    BY <1>18, <2>1 DEF P!Restart, P!Exposed
  <2>6. P!DatabaseNamesFile'
    BY <1>18, <2>1 DEF P!Restart, P!Exposed
  <2> QED
    BY <2>2, <2>3, <2>4, <2>5, <2>6
<1>19. CASE P!Claim
  BY <1>19 DEF P!Claim
<1>20. CASE UNCHANGED P!ppVars
  BY <1>20 DEF P!ppVars
<1> QED
  BY <1>1, <1>2, <1>3, <1>4, <1>5, <1>6, <1>7, <1>8, <1>9, <1>10, <1>11, <1>12,
     <1>13, <1>14, <1>15, <1>16, <1>17, <1>18, <1>19, <1>20 DEF P!Next, P!Runner

\* It holds of a capture no job was queued for yet.
LEMMA PostInit == PostConstants /\ P!Init => PostInv
<1> SUFFICES ASSUME PostConstants, P!Init PROVE PostInv
  OBVIOUS
<1>1. P!TypeOK
  <2>1. /\ job \in [kind : {"full", "detect"},
                    st : {"none", "queued", "processing", "processed", "failed"}]
        /\ opt \in P!Settings
    BY DEF P!Init, P!Settings
  <2>2. disk \in [Path -> P!Absent..MaxRuns] /\ temp \in P!Absent..MaxRuns
    BY DEF P!Init, P!Absent, PostConstants
  <2>3. {asked, torn, lost} \subseteq BOOLEAN
    BY DEF P!Init
  <2> QED
    BY <2>1, <2>2, <2>3 DEF PostConstants, P!Init, P!TypeOK
<1>2. RunInv /\ AsideInv /\ DeleteInv
  BY DEF PostConstants, P!Init, P!Absent, RunInv, AsideInv, DeleteInv
<1>3. P!CaptureSurvives /\ P!DatabaseNamesFile
  BY DEF PostConstants, P!Init, P!Absent, P!CaptureSurvives, P!DatabaseNamesFile
<1> QED
  BY <1>1, <1>2, <1>3 DEF PostInv

\* Whatever fails, undoing included, and wherever the process dies, a whole copy of the
\* recording is on disk, the capture itself unless its deletion was asked for: for any
\* number of file names, runs and faults.  And outside commit the database names a file
\* that is there, unless commit was cut short while the capture was set aside, could
\* not move it back, or undid a transaction that had landed.
THEOREM RecordingsSafe ==
    Init /\ [][Next]_vars => []RecordingSafe
<1>1. Init => PostInv
  BY PostInit, ServicesAssumption DEF Init
<1>2. PostInv /\ [Next]_vars => PostInv'
  BY ServicesAssumption, Parts, PostStep
<1>3. PostInv => RecordingSafe
  BY DEF PostInv, P!RecordingSafe, RecordingSafe
<1> QED
  BY <1>1, <1>2, <1>3, PTL

\* A run changes no library file but the one it was given and the one it made: the
\* name it picked for its result is still free when it puts the file there.
THEOREM RunsOwnTheirFiles ==
    Init /\ [][Next]_vars => P!OwnFilesOnly
<1>1. Init => PostInv
  BY PostInit, ServicesAssumption DEF Init
<1>2. PostInv /\ [Next]_vars => PostInv'
  BY ServicesAssumption, Parts, PostStep
<1>3. PostInv /\ [Next]_vars =>
      [\A p \in Path : disk[p] # P!Absent /\ disk'[p] # disk[p] =>
            p = src \/ (p = final /\ at = "swap")]_(P!ppVars)
  <2> SUFFICES ASSUME PostInv, P!Next, NEW p \in Path,
                      disk[p] # P!Absent, disk'[p] # disk[p]
               PROVE  p = src \/ (p = final /\ at = "swap")
    BY Parts
  <2> USE DEF PostInv, P!TypeOK, P!Go
  <2>1. CASE P!MoveAside \/ P!DeleteOriginal
    BY <2>1 DEF P!MoveAside, P!DeleteOriginal
  <2>2. CASE P!Place
    <3>1. FreeName
      BY <2>2 DEF P!Place, AsideInv, DeleteInv
    <3> QED
      BY <2>2, <3>1 DEF P!Place, FreeName
  <2>3. CASE P!PlaceFails
    BY <2>3 DEF P!PlaceFails
  <2>4. CASE P!SwapFails
    BY <2>4 DEF P!SwapFails
  <2>5. CASE UNCHANGED disk
    BY <2>5
  <2> QED
    BY <2>1, <2>2, <2>3, <2>4, <2>5
       DEF P!Next, P!Runner, P!Enqueue, P!Claim, P!ProbeFails, P!Detect,
           P!NothingToRewrite, P!Rewrite, P!MoveAsideFails, P!StatFails, P!Swap,
           P!DeleteFails, P!ScriptRuns, P!ScriptFails, P!Finish, P!Restart
<1> QED
  BY <1>1, <1>2, <1>3, PTL DEF P!OwnFilesOnly

-----------------------------------------------------------------------------
(* Downloads: conversions and their files.                                 *)

\* A slot that is free has no conversion, and no other slot is without one.
SlotInv == \A e \in Slot : run[e].conv = L!NoConv <=> run[e].pc = "free"

\* The conversion of an encode is running, and kept fresh, or was deleted; and it
\* has its file once ffmpeg is done: as long as its heartbeats get through.
EncodeInv ==
    \A e \in Slot :
        LET k == run[e].conv
        IN  k \notin unsure \cup {L!NoConv} =>
                /\ (st[k] = "running" /\ fresh[k]) \/ st[k] = "gone"
                /\ run[e].pc = "mark" => k \in output

RunnerInv == L!TypeOK /\ SlotInv /\ EncodeInv
             /\ L!OneEncode /\ L!ReadyHasFile /\ L!WaitedIsKept

\* The bound on faults is kept.
LEMMA FaultBound ==
    ASSUME RunnerConstants, L!TypeOK, L!Fault
    PROVE  nfaults' \in 0..MaxUpsets
  BY DEF RunnerConstants, L!TypeOK, L!Fault

\* A request reuses a live conversion or queues a new one; no encode is concerned.
LEMMA RequestKeeps ==
    ASSUME RunnerConstants, RunnerInv, NEW u \in Account, L!Request(u)
    PROVE  RunnerInv'
<1> USE DEF L!NoConv, L!Conv
<1>1. L!TypeOK'
  <2>1. CASE \E k \in L!Live : wants' = [wants EXCEPT ![u] = k] /\ UNCHANGED st
    BY <2>1 DEF RunnerInv, L!TypeOK, L!Request, L!Live
  <2>2. CASE \E k \in L!Conv : /\ st' = [st EXCEPT ![k] = "queued"]
                               /\ wants' = [wants EXCEPT ![u] = k]
    BY <2>2 DEF RunnerInv, L!TypeOK, L!Request
  <2> QED
    BY <2>1, <2>2 DEF L!Request
<1>2. SlotInv'
  BY DEF RunnerInv, SlotInv, L!Request
<1>3. EncodeInv'
  BY DEF RunnerInv, L!TypeOK, EncodeInv, L!Request
<1>4. L!OneEncode'
  BY DEF RunnerInv, L!OneEncode, L!Request
<1>5. L!ReadyHasFile'
  BY DEF RunnerInv, L!TypeOK, L!ReadyHasFile, L!Request
<1>6. L!WaitedIsKept'
  <2>1. CASE \E k \in L!Live : wants' = [wants EXCEPT ![u] = k] /\ UNCHANGED st
    BY <2>1 DEF RunnerInv, L!WaitedIsKept, L!Live
  <2>2. CASE \E k \in L!Conv : /\ st' = [st EXCEPT ![k] = "queued"]
                               /\ wants' = [wants EXCEPT ![u] = k]
    BY <2>2 DEF RunnerInv, L!TypeOK, L!WaitedIsKept
  <2> QED
    BY <2>1, <2>2 DEF L!Request
<1> QED
  BY <1>1, <1>2, <1>3, <1>4, <1>5, <1>6 DEF RunnerInv

\* A user gives a download up; the conversion is looked at afterwards.
LEMMA DeleteJobKeeps ==
    ASSUME RunnerConstants, RunnerInv, NEW u \in Account, L!DeleteJob(u)
    PROVE  RunnerInv'
<1> USE DEF L!NoConv, L!Conv
<1>1. L!TypeOK'
  BY DEF RunnerInv, L!TypeOK, L!DeleteJob
<1>2. SlotInv'
  BY DEF RunnerInv, SlotInv, L!DeleteJob
<1>3. EncodeInv'
  BY DEF RunnerInv, EncodeInv, L!DeleteJob
<1>4. L!OneEncode'
  BY DEF RunnerInv, L!OneEncode, L!DeleteJob
<1>5. L!ReadyHasFile'
  BY DEF RunnerInv, L!ReadyHasFile, L!DeleteJob
<1>6. L!WaitedIsKept'
  BY DEF RunnerInv, L!WaitedIsKept, L!DeleteJob
<1> QED
  BY <1>1, <1>2, <1>3, <1>4, <1>5, <1>6 DEF RunnerInv

\* The last user gone, the conversion goes with its row, and nobody waits for it.
LEMMA DeletePendingKeeps ==
    ASSUME RunnerConstants, RunnerInv, NEW u \in Account, L!DeletePending(u)
    PROVE  RunnerInv'
<1> USE DEF L!NoConv, L!Conv
<1>1. L!TypeOK'
  <2>1. run' \in [Slot -> [pc : {"free", "encode", "mark", "cancelled", "failing"},
                           conv : L!Conv \cup {L!NoConv}]]
    BY DEF RunnerInv, L!TypeOK, L!DeletePending
  <2>2. /\ st' \in [L!Conv -> {"none", "queued", "running", "ready", "failed",
                               "expired", "gone"}]
        /\ del' \in [Account -> L!Conv \cup {L!NoConv}] /\ partial' \subseteq L!Conv
    BY DEF RunnerInv, L!TypeOK, L!DeletePending
  <2> QED
    BY <2>1, <2>2 DEF RunnerInv, L!TypeOK, L!DeletePending
<1>2. SlotInv'
  BY DEF RunnerInv, L!TypeOK, SlotInv, L!DeletePending, L!On
<1>3. EncodeInv'
  <2>1. \A e \in Slot : /\ run'[e].conv = run[e].conv
                        /\ run'[e].pc = "mark" => run[e].pc = "mark"
    BY DEF RunnerInv, L!TypeOK, L!DeletePending
  <2>2. \A i \in L!Conv : st'[i] = st[i] \/ st'[i] = "gone"
    BY DEF RunnerInv, L!TypeOK, L!DeletePending
  <2>3. UNCHANGED <<fresh, output, unsure>>
    BY DEF L!DeletePending
  <2> QED
    BY <1>1, <2>1, <2>2, <2>3 DEF RunnerInv, L!TypeOK, EncodeInv
<1>4. L!OneEncode'
  BY SMTT(30) DEF RunnerInv, L!TypeOK, SlotInv, L!OneEncode, L!DeletePending
<1>5. L!ReadyHasFile'
  BY DEF RunnerInv, L!TypeOK, L!ReadyHasFile, L!DeletePending
<1>6. L!WaitedIsKept'
  BY DEF RunnerInv, L!TypeOK, L!WaitedIsKept, L!DeletePending
<1> QED
  BY <1>1, <1>2, <1>3, <1>4, <1>5, <1>6 DEF RunnerInv

\* A deletion that fails half-way leaves the conversion as it was.
LEMMA DeleteErrsKeeps ==
    ASSUME RunnerConstants, RunnerInv, NEW u \in Account, L!DeleteErrs(u)
    PROVE  RunnerInv'
<1> USE DEF L!NoConv, L!Conv
<1>1. L!TypeOK'
  BY DEF RunnerInv, L!TypeOK, RunnerConstants, L!DeleteErrs, L!Fault
<1>2. SlotInv'
  BY DEF RunnerInv, SlotInv, L!DeleteErrs
<1>3. EncodeInv'
  BY DEF RunnerInv, EncodeInv, L!DeleteErrs
<1>4. L!OneEncode'
  BY DEF RunnerInv, L!OneEncode, L!DeleteErrs
<1>5. L!ReadyHasFile'
  BY DEF RunnerInv, L!ReadyHasFile, L!DeleteErrs
<1>6. L!WaitedIsKept'
  BY DEF RunnerInv, L!WaitedIsKept, L!DeleteErrs
<1> QED
  BY <1>1, <1>2, <1>3, <1>4, <1>5, <1>6 DEF RunnerInv

\* The claim of a queued conversion is fresh and its only one.
LEMMA ClaimKeeps ==
    ASSUME RunnerConstants, RunnerInv, NEW e \in Slot, L!Claim(e)
    PROVE  RunnerInv'
<1> USE DEF L!NoConv, L!Conv
<1>1. L!TypeOK'
  BY DEF RunnerInv, L!TypeOK, L!Claim
<1>2. SlotInv'
  BY DEF RunnerInv, SlotInv, L!Claim
<1>3. EncodeInv'
  BY DEF RunnerInv, L!TypeOK, EncodeInv, L!Claim
<1>4. L!OneEncode'
  BY DEF RunnerInv, EncodeInv, L!OneEncode, L!Claim
<1>5. L!ReadyHasFile'
  BY DEF RunnerInv, L!ReadyHasFile, L!Claim
<1>6. L!WaitedIsKept'
  BY DEF RunnerInv, L!WaitedIsKept, L!Claim
<1> QED
  BY <1>1, <1>2, <1>3, <1>4, <1>5, <1>6 DEF RunnerInv

\* A heartbeat keeps a running conversion fresh, or finds it deleted and stops.
LEMMA BeatKeeps ==
    ASSUME RunnerConstants, RunnerInv, NEW e \in Slot, L!Beat(e)
    PROVE  RunnerInv'
<1> USE DEF L!NoConv, L!Conv
<1>1. L!TypeOK'
  <2>1. CASE st[run[e].conv] = "running"
    BY <2>1 DEF RunnerInv, L!TypeOK, L!Beat
  <2>2. CASE st[run[e].conv] # "running"
    BY <2>2 DEF RunnerInv, L!TypeOK, L!Beat, L!Go
  <2> QED
    BY <2>1, <2>2
<1>2. SlotInv'
  BY DEF RunnerInv, L!TypeOK, SlotInv, L!Beat, L!On, L!Go
<1>3. EncodeInv'
  <2>1. CASE st[run[e].conv] = "running"
    <3>1. UNCHANGED <<st, run, output, unsure>>
      BY <2>1 DEF L!Beat
    <3>2. \A i \in L!Conv : fresh[i] => fresh'[i]
      BY <2>1 DEF RunnerInv, L!TypeOK, L!Beat
    <3> QED
      BY <3>1, <3>2 DEF RunnerInv, L!TypeOK, EncodeInv
  <2>2. CASE st[run[e].conv] # "running"
    BY <2>2 DEF RunnerInv, L!TypeOK, EncodeInv, L!Beat, L!Go
  <2> QED
    BY <2>1, <2>2
<1>4. L!OneEncode'
  BY DEF RunnerInv, L!TypeOK, L!OneEncode, L!Beat, L!Go
<1>5. L!ReadyHasFile'
  BY DEF RunnerInv, L!ReadyHasFile, L!Beat
<1>6. L!WaitedIsKept'
  BY DEF RunnerInv, L!WaitedIsKept, L!Beat
<1> QED
  BY <1>1, <1>2, <1>3, <1>4, <1>5, <1>6 DEF RunnerInv

\* ffmpeg is done: the file is there before the row says so.
LEMMA FinishKeeps ==
    ASSUME RunnerConstants, RunnerInv, NEW e \in Slot, L!Finish(e)
    PROVE  RunnerInv'
<1> USE DEF L!NoConv, L!Conv
<1>1. L!TypeOK'
  BY DEF RunnerInv, L!TypeOK, RunnerConstants, L!Finish, L!On, L!Go
<1>2. SlotInv'
  <2>1. run' = [run EXCEPT ![e].pc = "mark"] \/ run' = [run EXCEPT ![e].pc = "failing"]
    BY DEF L!Finish, L!Go
  <2> QED
    BY <2>1 DEF RunnerInv, L!TypeOK, SlotInv, L!Finish, L!On
<1>3. EncodeInv'
  BY DEF RunnerInv, L!TypeOK, EncodeInv, L!Finish, L!Go
<1>4. L!OneEncode'
  BY DEF RunnerInv, L!TypeOK, L!OneEncode, L!Finish, L!Go
<1>5. L!ReadyHasFile'
  BY DEF RunnerInv, L!ReadyHasFile, L!Finish
<1>6. L!WaitedIsKept'
  BY DEF RunnerInv, L!WaitedIsKept, L!Finish
<1> QED
  BY <1>1, <1>2, <1>3, <1>4, <1>5, <1>6 DEF RunnerInv

\* A failed encode keeps its slot until the failure is written.
LEMMA EncodeFailsKeeps ==
    ASSUME RunnerConstants, RunnerInv, NEW e \in Slot, L!EncodeFails(e)
    PROVE  RunnerInv'
<1> USE DEF L!NoConv, L!Conv
<1>1. L!TypeOK'
  <2>1. nfaults' \in 0..MaxUpsets
    BY FaultBound DEF RunnerInv, L!EncodeFails
  <2> QED
    BY <2>1 DEF RunnerInv, L!TypeOK, L!EncodeFails, L!Go
<1>2. SlotInv'
  BY DEF RunnerInv, SlotInv, L!EncodeFails, L!On, L!Go
<1>3. EncodeInv'
  BY DEF RunnerInv, EncodeInv, L!EncodeFails, L!Go
<1>4. L!OneEncode'
  BY DEF RunnerInv, L!OneEncode, L!EncodeFails, L!Go
<1>5. L!ReadyHasFile'
  BY DEF RunnerInv, L!ReadyHasFile, L!EncodeFails
<1>6. L!WaitedIsKept'
  BY DEF RunnerInv, L!WaitedIsKept, L!EncodeFails
<1> QED
  BY <1>1, <1>2, <1>3, <1>4, <1>5, <1>6 DEF RunnerInv

\* The row becomes ready with its file there, or the file goes again.
LEMMA MarkReadyKeeps ==
    ASSUME RunnerConstants, RunnerInv, NEW e \in Slot, L!MarkReady(e)
    PROVE  RunnerInv'
<1> USE DEF L!NoConv, L!Conv
<1>1. L!TypeOK'
  <2>1. nfaults' \in 0..MaxUpsets
    BY FaultBound DEF RunnerInv, L!TypeOK, L!MarkReady
  <2> QED
    BY <2>1 DEF RunnerInv, L!TypeOK, L!MarkReady, L!Leave, L!Free
<1>2. SlotInv'
  BY DEF RunnerInv, SlotInv, L!MarkReady, L!Leave, L!Free
<1>3. EncodeInv'
  <2>1. \A f \in Slot \ {e} : run'[f] = run[f]
    BY DEF L!MarkReady, L!Leave
  <2>2. run'[e].conv = L!NoConv
    BY DEF RunnerInv, L!TypeOK, L!MarkReady, L!Leave, L!Free
  <2>3. /\ \A i \in L!Conv \ {run[e].conv} : /\ st'[i] = st[i]
                                             /\ i \in output => i \in output'
        /\ UNCHANGED <<fresh, unsure>>
    BY DEF RunnerInv, L!TypeOK, L!MarkReady
  <2>4. \A f \in Slot \ {e} : run[f].conv \notin unsure \cup {L!NoConv}
                                 => run[f].conv # run[e].conv
    BY DEF RunnerInv, L!OneEncode
  <2>5. \A f \in Slot : run[f].conv \in L!Conv \cup {L!NoConv}
    BY DEF RunnerInv, L!TypeOK
  <2> QED
    BY <2>1, <2>2, <2>3, <2>4, <2>5 DEF RunnerInv, EncodeInv
<1>4. L!OneEncode'
  BY DEF RunnerInv, L!OneEncode, L!MarkReady, L!Leave, L!Free
<1>5. L!ReadyHasFile'
  BY ZenonT(60) DEF RunnerInv, L!TypeOK, SlotInv, EncodeInv, L!ReadyHasFile,
     L!MarkReady, L!On
<1>6. L!WaitedIsKept'
  BY DEF RunnerInv, L!TypeOK, L!WaitedIsKept, L!MarkReady
<1> QED
  BY <1>1, <1>2, <1>3, <1>4, <1>5, <1>6 DEF RunnerInv

\* A cancelled encode removes its partial and frees its slot.
LEMMA CancelledKeeps ==
    ASSUME RunnerConstants, RunnerInv, NEW e \in Slot, L!Cancelled(e)
    PROVE  RunnerInv'
<1> USE DEF L!NoConv, L!Conv
<1>1. L!TypeOK'
  BY DEF RunnerInv, L!TypeOK, L!Cancelled, L!Leave, L!Free
<1>2. SlotInv'
  BY DEF RunnerInv, SlotInv, L!Cancelled, L!Leave, L!Free
<1>3. EncodeInv'
  BY DEF RunnerInv, EncodeInv, L!Cancelled, L!Leave, L!Free
<1>4. L!OneEncode'
  BY DEF RunnerInv, L!OneEncode, L!Cancelled, L!Leave, L!Free
<1>5. L!ReadyHasFile'
  BY DEF RunnerInv, L!ReadyHasFile, L!Cancelled
<1>6. L!WaitedIsKept'
  BY DEF RunnerInv, L!WaitedIsKept, L!Cancelled
<1> QED
  BY <1>1, <1>2, <1>3, <1>4, <1>5, <1>6 DEF RunnerInv

\* A failure is written over a pending row only, and deletes none.
LEMMA MarkFailedKeeps ==
    ASSUME RunnerConstants, RunnerInv, NEW e \in Slot, L!MarkFailed(e)
    PROVE  RunnerInv'
<1> USE DEF L!NoConv, L!Conv
<1>1. L!TypeOK'
  <2>1. nfaults' \in 0..MaxUpsets
    BY FaultBound DEF RunnerInv, L!TypeOK, L!MarkFailed
  <2> QED
    BY <2>1 DEF RunnerInv, L!TypeOK, L!MarkFailed, L!Leave, L!Free
<1>2. SlotInv'
  BY DEF RunnerInv, SlotInv, L!MarkFailed, L!Leave, L!Free
<1>3. EncodeInv'
  BY ZenonT(60) DEF RunnerInv, L!TypeOK, EncodeInv, L!OneEncode, L!MarkFailed,
     L!Leave, L!Free
<1>4. L!OneEncode'
  BY DEF RunnerInv, L!OneEncode, L!MarkFailed, L!Leave, L!Free
<1>5. L!ReadyHasFile'
  BY ZenonT(60) DEF RunnerInv, L!TypeOK, SlotInv, EncodeInv, L!ReadyHasFile,
     L!MarkFailed, L!On
<1>6. L!WaitedIsKept'
  <2>1. wants' = wants /\ \A i \in L!Conv : st'[i] = "gone" => st[i] = "gone"
    BY DEF RunnerInv, L!TypeOK, L!MarkFailed
  <2> QED
    BY <2>1 DEF RunnerInv, L!TypeOK, L!WaitedIsKept
<1> QED
  BY <1>1, <1>2, <1>3, <1>4, <1>5, <1>6 DEF RunnerInv

\* A heartbeat lapses of a conversion nobody encodes, or puts it in doubt.
LEMMA LapseKeeps ==
    ASSUME RunnerConstants, RunnerInv, NEW k \in L!Conv, L!Lapse(k)
    PROVE  RunnerInv'
<1> USE DEF L!NoConv, L!Conv
<1>1. L!TypeOK'
  <2>1. nfaults' \in 0..MaxUpsets
    BY FaultBound DEF RunnerInv, L!TypeOK, L!Lapse
  <2>2. unsure' = unsure \cup {k} \/ unsure' = unsure
    BY DEF L!Lapse
  <2>4. fresh' \in [L!Conv -> BOOLEAN]
    BY DEF RunnerInv, L!TypeOK, L!Lapse
  <2>3. UNCHANGED <<st, wants, del, run, running, partial, output, ev>>
    BY DEF L!Lapse
  <2> QED
    BY <2>1, <2>2, <2>3, <2>4 DEF RunnerInv, L!TypeOK
<1>2. SlotInv'
  BY DEF RunnerInv, SlotInv, L!Lapse
<1>3. EncodeInv'
  BY DEF RunnerInv, EncodeInv, L!Lapse
<1>4. L!OneEncode'
  BY DEF RunnerInv, L!OneEncode, L!Lapse
<1>5. L!ReadyHasFile'
  BY DEF RunnerInv, L!ReadyHasFile, L!Lapse
<1>6. L!WaitedIsKept'
  BY DEF RunnerInv, L!WaitedIsKept, L!Lapse
<1> QED
  BY <1>1, <1>2, <1>3, <1>4, <1>5, <1>6 DEF RunnerInv

\* What goes back to the queue has no encode, or is in doubt.
LEMMA RequeueStaleKeeps ==
    ASSUME RunnerConstants, RunnerInv, NEW k \in L!Conv, L!RequeueStale(k)
    PROVE  RunnerInv'
<1> USE DEF L!NoConv, L!Conv
<1>1. L!TypeOK'
  BY DEF RunnerInv, L!TypeOK, L!RequeueStale
<1>2. SlotInv'
  BY DEF RunnerInv, SlotInv, L!RequeueStale
<1>3. EncodeInv'
  BY DEF RunnerInv, EncodeInv, L!RequeueStale
<1>4. L!OneEncode'
  BY DEF RunnerInv, L!OneEncode, L!RequeueStale
<1>5. L!ReadyHasFile'
  BY DEF RunnerInv, L!ReadyHasFile, L!RequeueStale
<1>6. L!WaitedIsKept'
  BY DEF RunnerInv, L!WaitedIsKept, L!RequeueStale
<1> QED
  BY <1>1, <1>2, <1>3, <1>4, <1>5, <1>6 DEF RunnerInv

\* The file of a ready conversion goes first: the eviction is under way.
LEMMA EvictFileKeeps ==
    ASSUME RunnerConstants, RunnerInv, NEW k \in L!Conv, L!EvictFile(k)
    PROVE  RunnerInv'
<1> USE DEF L!NoConv, L!Conv
<1>1. L!TypeOK'
  BY DEF RunnerInv, L!TypeOK, L!EvictFile
<1>2. SlotInv'
  BY DEF RunnerInv, SlotInv, L!EvictFile
<1>3. EncodeInv'
  BY DEF RunnerInv, EncodeInv, L!EvictFile
<1>4. L!OneEncode'
  BY DEF RunnerInv, L!OneEncode, L!EvictFile
<1>5. L!ReadyHasFile'
  BY DEF RunnerInv, L!ReadyHasFile, L!EvictFile
<1>6. L!WaitedIsKept'
  BY DEF RunnerInv, L!WaitedIsKept, L!EvictFile
<1> QED
  BY <1>1, <1>2, <1>3, <1>4, <1>5, <1>6 DEF RunnerInv

\* The sweep removes files of conversions that are not live.
LEMMA SweepKeeps ==
    ASSUME RunnerConstants, RunnerInv, NEW k \in L!Conv, L!Sweep(k)
    PROVE  RunnerInv'
<1> USE DEF L!NoConv, L!Conv
<1>1. L!TypeOK'
  BY DEF RunnerInv, L!TypeOK, L!Sweep
<1>2. SlotInv'
  BY DEF RunnerInv, SlotInv, L!Sweep
<1>3. EncodeInv'
  BY DEF RunnerInv, EncodeInv, L!Sweep
<1>4. L!OneEncode'
  BY DEF RunnerInv, L!OneEncode, L!Sweep
<1>5. L!ReadyHasFile'
  BY DEF RunnerInv, L!ReadyHasFile, L!Sweep, L!Live
<1>6. L!WaitedIsKept'
  BY DEF RunnerInv, L!WaitedIsKept, L!Sweep
<1> QED
  BY <1>1, <1>2, <1>3, <1>4, <1>5, <1>6 DEF RunnerInv

\* An old row is forgotten together with the jobs that point at it.
LEMMA PurgeKeeps ==
    ASSUME RunnerConstants, RunnerInv, NEW k \in L!Conv, L!Purge(k)
    PROVE  RunnerInv'
<1> USE DEF L!NoConv, L!Conv
<1>1. L!TypeOK'
  BY DEF RunnerInv, L!TypeOK, L!Purge
<1>2. SlotInv'
  BY DEF RunnerInv, SlotInv, L!Purge
<1>3. EncodeInv'
  BY DEF RunnerInv, EncodeInv, L!Purge
<1>4. L!OneEncode'
  BY DEF RunnerInv, L!OneEncode, L!Purge
<1>5. L!ReadyHasFile'
  BY DEF RunnerInv, L!ReadyHasFile, L!Purge
<1>6. L!WaitedIsKept'
  BY DEF RunnerInv, L!WaitedIsKept, L!Purge
<1> QED
  BY <1>1, <1>2, <1>3, <1>4, <1>5, <1>6 DEF RunnerInv

\* The eviction is written, or the row is in doubt.
LEMMA EvictMarkKeeps ==
    ASSUME RunnerConstants, RunnerInv, L!EvictMark
    PROVE  RunnerInv'
<1> USE DEF L!NoConv, L!Conv
<1>1. L!TypeOK'
  <2>1. nfaults' \in 0..MaxUpsets
    BY FaultBound DEF RunnerInv, L!TypeOK, L!EvictMark
  <2> QED
    BY <2>1 DEF RunnerInv, L!TypeOK, L!EvictMark
<1>2. SlotInv'
  BY DEF RunnerInv, SlotInv, L!EvictMark
<1>3. EncodeInv'
  <2>1. \A i \in L!Conv : st[i] # "ready" => st'[i] = st[i]
    BY DEF RunnerInv, L!TypeOK, L!EvictMark
  <2>2. UNCHANGED <<fresh, run, output>> /\ unsure \subseteq unsure'
    BY DEF L!EvictMark
  <2> QED
    BY <2>1, <2>2 DEF RunnerInv, L!TypeOK, EncodeInv
<1>4. L!OneEncode'
  BY DEF RunnerInv, L!OneEncode, L!EvictMark
<1>5. L!ReadyHasFile'
  BY DEF RunnerInv, L!TypeOK, L!ReadyHasFile, L!EvictMark
<1>6. L!WaitedIsKept'
  BY DEF RunnerInv, L!TypeOK, L!WaitedIsKept, L!EvictMark
<1> QED
  BY <1>1, <1>2, <1>3, <1>4, <1>5, <1>6 DEF RunnerInv

\* A dead process encodes nothing; what it had running lapses.
LEMMA CrashKeeps ==
    ASSUME RunnerConstants, RunnerInv, L!Crash
    PROVE  RunnerInv'
<1> USE DEF L!NoConv, L!Conv
<1>1. L!TypeOK'
  BY DEF RunnerInv, L!TypeOK, RunnerConstants, L!Crash, L!Fault, L!Free
<1>2. SlotInv'
  BY DEF SlotInv, L!Crash, L!Free
<1>3. EncodeInv'
  BY DEF EncodeInv, L!Crash, L!Free
<1>4. L!OneEncode'
  BY DEF L!OneEncode, L!Crash, L!Free
<1>5. L!ReadyHasFile'
  BY DEF RunnerInv, L!ReadyHasFile, L!Crash
<1>6. L!WaitedIsKept'
  BY DEF RunnerInv, L!WaitedIsKept, L!Crash
<1> QED
  BY <1>1, <1>2, <1>3, <1>4, <1>5, <1>6 DEF RunnerInv

\* Every step keeps the invariant.
LEMMA RunnerStep ==
    ASSUME RunnerConstants, RunnerInv, [L!Next]_(L!dlVars)
    PROVE  RunnerInv'
<1>1. CASE \E u \in Account : \/ L!Request(u) \/ L!DeleteJob(u)
                           \/ L!DeletePending(u) \/ L!DeleteErrs(u)
  BY <1>1, RequestKeeps, DeleteJobKeeps, DeletePendingKeeps, DeleteErrsKeeps
<1>2. CASE \E e \in Slot : \/ L!Claim(e) \/ L!Beat(e) \/ L!Finish(e) \/ L!EncodeFails(e)
                           \/ L!MarkReady(e) \/ L!Cancelled(e) \/ L!MarkFailed(e)
  BY <1>2, ClaimKeeps, BeatKeeps, FinishKeeps, EncodeFailsKeeps, MarkReadyKeeps,
     CancelledKeeps, MarkFailedKeeps
<1>3. CASE \E k \in L!Conv : \/ L!Lapse(k) \/ L!RequeueStale(k)
                             \/ L!EvictFile(k) \/ L!Sweep(k) \/ L!Purge(k)
  BY <1>3, LapseKeeps, RequeueStaleKeeps, EvictFileKeeps, SweepKeeps, PurgeKeeps
<1>4. CASE L!EvictMark \/ L!Crash
  BY <1>4, EvictMarkKeeps, CrashKeeps
<1>5. CASE UNCHANGED L!dlVars
  BY <1>5 DEF L!dlVars, RunnerInv, L!TypeOK, SlotInv, EncodeInv, L!OneEncode,
     L!ReadyHasFile, L!WaitedIsKept
<1> QED
  BY <1>1, <1>2, <1>3, <1>4, <1>5 DEF L!Next

\* Two encodes never write one conversion's file while its heartbeats get through,
\* what is offered as ready has its file, and no conversion is deleted under a wants
\* that points at it: for any number of users, slots, conversions and faults.
THEOREM DownloadsHold ==
    Init /\ [][Next]_vars => []DownloadsAccounted
<1>1. Init => RunnerInv
  BY ServicesAssumption DEF Init, RunnerConstants, L!Init, L!Free, RunnerInv,
     L!TypeOK, SlotInv, EncodeInv,
     L!OneEncode, L!ReadyHasFile, L!WaitedIsKept
<1>2. RunnerInv /\ [Next]_vars => RunnerInv'
  BY ServicesAssumption, Parts, RunnerStep
<1>3. RunnerInv => DownloadsAccounted
  BY DEF RunnerInv, L!DownloadsAccounted, DownloadsAccounted
<1> QED
  BY <1>1, <1>2, <1>3, PTL

-----------------------------------------------------------------------------
(* RefreshTokens: rotation.                                                *)

\* Rows share neither id nor token, and name only tokens that were minted.
RowsInv ==
    /\ \A s \in rows : /\ s.id \in 1..ntok /\ s.cur \in 1..ntok
                       /\ s.prev \in 0..ntok /\ s.prev # s.cur
    /\ \A s, t \in rows : s # t => /\ s.id # t.id /\ s.cur \notin {t.cur, t.prev}
                                   /\ s.prev = t.prev => s.prev = R!NoTok
    /\ held \in 0..ntok

\* What the requests carry: a token the device had, and one minted for them.
AskInv ==
    \A r \in Caller :
        /\ q[r].tok \in 0..ntok /\ q[r].new \in 0..ntok
        /\ q[r].pc \in {"lookup", "rotate", "landed", "lookAgain", "wipe"} =>
              q[r].tok # R!NoTok
        /\ q[r].pc \in {"lookup", "rotate"} => q[r].new = R!NoTok
        /\ q[r].pc = "mint" => q[r].tok = R!NoTok

\* A token that was exchanged is nobody's current one, and the row that remembers it
\* has the heir it was exchanged for.
HeirInv ==
    \A x \in heirs :
        /\ x[1] \in 1..ntok
        /\ \A s \in rows : s.cur # x[1] /\ (s.prev = x[1] => s.cur = x[2])

\* A rotation whose outcome is unknown: if its token is current, it retired its own.
LandInv ==
    \A r \in Caller : q[r].pc = "landed" =>
        /\ outages >= 1
        /\ \A s \in rows : s.cur = q[r].new => s.prev = q[r].tok /\ s.id = q[r].id

\* A retired token stays in the row the request found it in.
RaceInv ==
    \A r \in Caller :
        /\ q[r].pc \in {"rotate", "lookAgain"} =>
              \A s \in rows : q[r].tok \in {s.cur, s.prev} => s.id = q[r].id
        /\ q[r].pc = "lookAgain" => \A s \in rows : s.cur # q[r].tok

\* Only a lapse ends the grace of a rotation.
YoungInv == \A s \in rows : s.prev # R!NoTok /\ ~s.young => lapsed

AuthInv ==
    /\ R!TypeOK
    /\ RowsInv /\ AskInv /\ HeirInv /\ LandInv /\ RaceInv /\ YoungInv
    /\ R!OneHeir /\ R!RetryIsSafe /\ R!RacesAreTolerated

Ask == [pc : {"idle", "lookup", "rotate", "landed", "lookAgain", "wipe",
               "ok", "refused", "retry", "mint", "logout"},
        tok : R!Tok, id : R!Tok, new : R!Tok]

\* A request that has its new token.
LEMMA AskGoes ==
    ASSUME NEW a \in Ask, NEW i \in R!Tok, NEW b, NEW p \in {"ok", "landed"},
           b = [a EXCEPT !.pc = p, !.new = i]
    PROVE  /\ b \in Ask /\ b.pc = p /\ b.tok = a.tok /\ b.id = a.id /\ b.new = i
  BY DEF Ask

\* A step of one request.
LEMMA AskSteps ==
    ASSUME R!TypeOK, NEW r \in Caller, NEW a \in Ask, q' = [q EXCEPT ![r] = a]
    PROVE  /\ q' \in [Caller -> Ask] /\ q'[r] = a
           /\ \A t \in Caller : t # r => q'[t] = q[t]
  BY DEF R!TypeOK, Ask

\* The row that the rotation of a request makes.
NewRow(r) == R!Session(q[r].id, ntok + 1, q[r].tok, TRUE)

\* A rotation changes the row whose current token it presents, or none.
LEMMA Rotation ==
    ASSUME R!TypeOK, RowsInv, NEW r \in Caller
    PROVE  \/ /\ R!RotatedRows(r) = rows
              /\ \A s \in rows : ~(s.id = q[r].id /\ s.cur = q[r].tok)
           \/ \E s \in rows :
                 /\ s.id = q[r].id /\ s.cur = q[r].tok
                 /\ R!RotatedRows(r) = (rows \ {s}) \cup {NewRow(r)}
<1>1. CASE \A s \in rows : ~(s.id = q[r].id /\ s.cur = q[r].tok)
  BY <1>1 DEF R!RotatedRows, R!Rotated
<1>2. ASSUME NEW s \in rows, s.id = q[r].id, s.cur = q[r].tok
      PROVE  R!RotatedRows(r) = (rows \ {s}) \cup {NewRow(r)}
  <2>1. \A t \in rows : t.id = q[r].id => t = s
    BY <1>2 DEF RowsInv
  <2> QED
    BY <1>2, <2>1 DEF R!RotatedRows, R!Rotated, NewRow
<1> QED
  BY <1>1, <1>2

\* Its fields, and that it is new.
LEMMA NewRowIs ==
    ASSUME R!TypeOK, RowsInv, NEW r \in Caller, ntok < MaxTok, AuthConstants
    PROVE  /\ NewRow(r) \in [id : R!Tok, cur : R!Tok, prev : R!Tok, young : {TRUE}]
           /\ NewRow(r).id = q[r].id /\ NewRow(r).cur = ntok + 1
           /\ NewRow(r).prev = q[r].tok
           /\ NewRow(r) \notin rows
<1>1. /\ q[r].id \in R!Tok /\ ntok + 1 \in R!Tok /\ q[r].tok \in R!Tok
      /\ ntok \in Int
  BY DEF R!TypeOK, R!Tok, AuthConstants
<1>2. /\ NewRow(r) \in [id : R!Tok, cur : R!Tok, prev : R!Tok, young : {TRUE}]
      /\ NewRow(r).id = q[r].id /\ NewRow(r).cur = ntok + 1
      /\ NewRow(r).prev = q[r].tok
  BY <1>1 DEF NewRow, R!Session
<1>3. NewRow(r) \in rows => ntok + 1 \in 1..ntok
  BY <1>2 DEF RowsInv
<1>4. NewRow(r) \notin rows
  BY <1>1, <1>3
<1> QED
  BY <1>2, <1>4

\* What is known of the rows stays so when one of them is rotated.
LEMMA RotatedKeeps ==
    ASSUME AuthConstants, AuthInv, NEW r \in Caller, ntok < MaxTok, ntok' = ntok + 1,
           NEW s \in rows, s.id = q[r].id, s.cur = q[r].tok, UNCHANGED <<held, lapsed>>,
           rows' = (rows \ {s}) \cup {NewRow(r)},
           heirs' \subseteq heirs \cup {<<q[r].tok, ntok + 1>>}
    PROVE  /\ rows' \subseteq [id : R!Tok, cur : R!Tok, prev : R!Tok, young : BOOLEAN]
           /\ ntok' \in R!Tok
           /\ RowsInv' /\ YoungInv' /\ HeirInv' /\ R!OneHeir'
<1> DEFINE x == NewRow(r)
<1>1. /\ x \in [id : R!Tok, cur : R!Tok, prev : R!Tok, young : {TRUE}]
      /\ x.id = s.id /\ x.cur = ntok + 1 /\ x.prev = s.cur
  BY NewRowIs DEF AuthInv
<1>2. ntok \in Nat /\ ntok' \in R!Tok
  BY DEF AuthConstants, AuthInv, R!TypeOK, R!Tok
<1>3. rows' = (rows \ {s}) \cup {x}
  OBVIOUS
<1>4. /\ rows \subseteq [id : R!Tok, cur : R!Tok, prev : R!Tok, young : BOOLEAN]
      /\ RowsInv /\ YoungInv /\ HeirInv /\ R!OneHeir
  BY DEF AuthInv, R!TypeOK
<1> HIDE DEF x
<1>5. rows' \subseteq [id : R!Tok, cur : R!Tok, prev : R!Tok, young : BOOLEAN]
  BY <1>1, <1>3, <1>4
<1>6. RowsInv'
  <2>1. /\ \A y \in rows' : /\ y.id \in 1..ntok' /\ y.cur \in 1..ntok'
                            /\ y.prev \in 0..ntok' /\ y.prev # y.cur
        /\ held' \in 0..ntok'
    BY <1>1, <1>2, <1>3, <1>4 DEF RowsInv
  <2>2. ASSUME NEW y \in rows, y # s
        PROVE  /\ x.id # y.id /\ x.cur \notin {y.cur, y.prev} /\ y.cur \notin {x.cur, x.prev}
               /\ x.prev # y.prev
    BY <1>1, <1>2, <1>4, <2>2 DEF RowsInv
  <2> QED
    BY <1>3, <1>4, <2>1, <2>2 DEF RowsInv
<1>7. YoungInv'
  BY <1>1, <1>3, <1>4 DEF YoungInv
<1>8. \A y \in heirs : y[1] # s.cur
  BY <1>4 DEF HeirInv
<1>9. HeirInv'
  <2> SUFFICES ASSUME NEW h \in heirs'
               PROVE  /\ h[1] \in 1..ntok'
                      /\ \A y \in rows' : y.cur # h[1] /\ (y.prev = h[1] => y.cur = h[2])
    BY DEF HeirInv
  <2>1. CASE h \in heirs
    BY <1>1, <1>2, <1>3, <1>4, <1>8, <2>1 DEF HeirInv
  <2>2. CASE h = <<s.cur, ntok + 1>>
    BY <1>1, <1>2, <1>3, <1>4, <2>2 DEF RowsInv
  <2> QED
    BY <2>1, <2>2
<1>10. R!OneHeir'
  BY <1>4, <1>8, SMTT(30) DEF R!OneHeir
<1> QED
  BY <1>2, <1>5, <1>6, <1>7, <1>9, <1>10

\* Every statement of every request, and the passing of the grace, keep AuthInv.
LEMMA AuthStep == AuthConstants /\ AuthInv /\ [R!Next]_(R!authVars) => AuthInv'
<1> SUFFICES ASSUME AuthConstants, AuthInv, [R!Next]_(R!authVars) PROVE AuthInv'
  OBVIOUS
<1> USE DEF AuthConstants, AuthInv, R!TypeOK, R!Tok, R!NoTok, R!Idle, R!Outage, R!At, R!Go,
            R!ByAnyHash, RowsInv, AskInv, HeirInv, LandInv, RaceInv, YoungInv,
            R!OneHeir, R!RetryIsSafe, R!RacesAreTolerated
<1>1. ASSUME NEW r \in Caller, R!Present(r) PROVE AuthInv'
  <2> DEFINE a == [R!Idle EXCEPT !.pc = "lookup", !.tok = held]
  <2>1. held \in R!Tok /\ 0 \in R!Tok
    OBVIOUS
  <2>2. a \in Ask /\ a.pc = "lookup" /\ a.tok = held /\ a.new = 0
    BY ONLY <2>1 DEF Ask
  <2>3. /\ q' = [q EXCEPT ![r] = a] /\ held # 0
        /\ UNCHANGED <<rows, held, ntok, heirs, lapsed, outages>>
    BY <1>1 DEF R!Present
  <2> HIDE DEF a
  <2>4. /\ q' \in [Caller -> Ask] /\ q'[r] = a
        /\ \A t \in Caller : t # r => q'[t] = q[t]
    BY <2>2, <2>3, AskSteps
  <2> QED
    BY <2>1, <2>2, <2>3, <2>4 DEF Ask
<1>2. ASSUME NEW r \in Caller, R!Lookup(r) PROVE AuthInv'
  <2>1. q[r] \in Ask /\ UNCHANGED <<rows, held, ntok, heirs, lapsed>> /\ q[r].pc = "lookup"
    BY <1>2 DEF R!Lookup, Ask
  <2>2. ASSUME NEW s \in rows, s.cur = q[r].tok, UNCHANGED outages,
               q' = [q EXCEPT ![r] = [@ EXCEPT !.pc = "rotate", !.id = s.id]]
        PROVE  AuthInv'
    <3> DEFINE a == [q[r] EXCEPT !.pc = "rotate", !.id = s.id]
    <3>1. q' = [q EXCEPT ![r] = a]
      BY <2>2
    <3>2. a \in Ask /\ a.pc = "rotate" /\ a.tok = q[r].tok /\ a.id = s.id /\ a.new = q[r].new
      <4>1. s.id \in R!Tok
        OBVIOUS
      <4> QED
        BY ONLY <2>1, <4>1 DEF Ask
    <3> HIDE DEF a
    <3>3. /\ q' \in [Caller -> Ask] /\ q'[r] = a
          /\ \A t \in Caller : t # r => q'[t] = q[t]
      BY <3>1, <3>2, AskSteps, ZenonT(60)
    <3> QED
      BY <2>1, <2>2, <3>2, <3>3 DEF Ask
  <2>3. ASSUME NEW p \in {"refused", "wipe"}, R!Go(r, p), UNCHANGED outages,
               p = "wipe" => \E s \in R!ByAnyHash(q[r].tok) : s.cur # q[r].tok /\ ~s.young
        PROVE  AuthInv'
    BY <2>1, <2>3
  <2>4. CASE R!Outage /\ R!Go(r, "retry")
    BY <2>1, <2>4
  <2> QED
    BY <1>2, <2>2, <2>3, <2>4 DEF R!Lookup
<1>3. ASSUME NEW r \in Caller, R!Rotate(r) PROVE AuthInv'
  <2>0. /\ rows' = R!RotatedRows(r) /\ q[r].pc = "rotate" /\ q[r] \in Ask
        /\ UNCHANGED <<held, lapsed, outages>>
    BY <1>3 DEF R!Rotate, Ask
  <2>1. CASE /\ rows' = rows
             /\ \A s \in rows : ~(s.id = q[r].id /\ s.cur = q[r].tok)
    <3>1. R!Go(r, "lookAgain") /\ UNCHANGED <<ntok, heirs>>
      BY <1>3, <2>1 DEF R!Rotate
    <3> QED
      BY <2>0, <2>1, <3>1
  <2>2. ASSUME NEW s \in rows, s.id = q[r].id, s.cur = q[r].tok,
               rows' = (rows \ {s}) \cup {NewRow(r)}
        PROVE  AuthInv'
    <3> DEFINE a == [q[r] EXCEPT !.pc = "ok", !.new = ntok + 1]
    <3>1. NewRow(r).cur = ntok + 1
      BY DEF NewRow, R!Session
    <3>2. rows' # rows
      <4>1. s.cur # ntok + 1
        OBVIOUS
      <4> QED
        BY <2>2, <3>1, <4>1
    <3>3. /\ ntok < MaxTok /\ ntok' = ntok + 1 /\ q' = [q EXCEPT ![r] = a]
          /\ heirs' = heirs \cup {<<q[r].tok, ntok + 1>>}
      BY <1>3, <3>2 DEF R!Rotate
    <3>4. /\ rows' \subseteq [id : R!Tok, cur : R!Tok, prev : R!Tok, young : BOOLEAN]
          /\ ntok' \in R!Tok /\ RowsInv' /\ YoungInv' /\ HeirInv' /\ R!OneHeir'
      BY <2>0, <2>2, <3>3, RotatedKeeps
    <3>5. a \in Ask /\ a.pc = "ok" /\ a.tok = q[r].tok /\ a.new = ntok + 1
      <4>1. ntok + 1 \in R!Tok
        BY <3>3
      <4> QED
        BY ONLY <2>0, <4>1 DEF Ask
    <3> HIDE DEF a
    <3>6. /\ q' \in [Caller -> Ask] /\ q'[r] = a
          /\ \A t \in Caller : t # r => q'[t] = q[t]
      <4>1. q' = [q EXCEPT ![r] = a] /\ a \in Ask
        BY <3>3, <3>5
      <4> QED
        BY <4>1, AskSteps, ZenonT(60)
    <3>7. NewRow(r).id = q[r].id /\ NewRow(r).cur = ntok + 1 /\ NewRow(r).prev = q[r].tok
      BY <3>3, NewRowIs
    <3>8. R!TypeOK'
      BY <2>0, <3>3, <3>4, <3>6 DEF Ask
    <3>9. AskInv' /\ LandInv' /\ RaceInv'
      BY <2>0, <2>2, <3>3, <3>5, <3>6, <3>7
    <3>10. R!RetryIsSafe' /\ R!RacesAreTolerated'
      BY <2>0, <2>2, <3>3, <3>5, <3>6, <3>7
    <3> QED
      BY <3>4, <3>8, <3>9, <3>10
  <2> QED
    BY <2>0, <2>1, <2>2, Rotation
<1>4. ASSUME NEW r \in Caller, R!RotateErrs(r) PROVE AuthInv'
  <2> DEFINE a == [q[r] EXCEPT !.pc = "landed", !.new = ntok + 1]
  <2>0. /\ rows' \in {rows, R!RotatedRows(r)} /\ q[r].pc = "rotate" /\ q[r] \in Ask
        /\ ntok < MaxTok /\ ntok' = ntok + 1 /\ q' = [q EXCEPT ![r] = a]
        /\ UNCHANGED <<held, heirs, lapsed>>
        /\ outages' \in 0..MaxOutages /\ outages' = outages + 1
    BY <1>4 DEF R!RotateErrs, Ask
  <2>1. a \in Ask /\ a.pc = "landed" /\ a.tok = q[r].tok /\ a.id = q[r].id /\ a.new = ntok + 1
    <3>1. ntok + 1 \in R!Tok
      BY <2>0
    <3> QED
      BY ONLY <2>0, <3>1 DEF Ask
  <2> HIDE DEF a
  <2>2. /\ q' \in [Caller -> Ask] /\ q'[r] = a
        /\ \A t \in Caller : t # r => q'[t] = q[t]
    BY <2>0, <2>1, AskSteps
  <2>3. CASE rows' = rows
    <3>1. R!TypeOK' /\ RowsInv' /\ AskInv' /\ HeirInv' /\ R!OneHeir' /\ YoungInv'
      BY <2>0, <2>1, <2>2, <2>3 DEF Ask
    <3>2. LandInv' /\ RaceInv' /\ R!RetryIsSafe' /\ R!RacesAreTolerated'
      BY <2>0, <2>1, <2>2, <2>3
    <3> QED
      BY <3>1, <3>2
  <2>4. ASSUME NEW s \in rows, s.id = q[r].id, s.cur = q[r].tok,
               rows' = (rows \ {s}) \cup {NewRow(r)}
        PROVE  AuthInv'
    <3>1. /\ rows' \subseteq [id : R!Tok, cur : R!Tok, prev : R!Tok, young : BOOLEAN]
          /\ ntok' \in R!Tok /\ RowsInv' /\ YoungInv' /\ HeirInv' /\ R!OneHeir'
      BY <2>0, <2>4, RotatedKeeps
    <3>2. NewRow(r).id = q[r].id /\ NewRow(r).cur = ntok + 1 /\ NewRow(r).prev = q[r].tok
      BY <2>0, NewRowIs
    <3>3. R!TypeOK'
      BY <2>0, <2>2, <3>1 DEF Ask
    <3>4. AskInv' /\ LandInv' /\ RaceInv'
      BY <2>0, <2>1, <2>2, <2>4, <3>2
    <3>5. R!RetryIsSafe' /\ R!RacesAreTolerated'
      BY <2>0, <2>1, <2>2, <2>4, <3>2
    <3> QED
      BY <3>1, <3>3, <3>4, <3>5
  <2> QED
    BY <2>0, <2>3, <2>4, Rotation
<1>5. ASSUME NEW r \in Caller, R!Landed(r) PROVE AuthInv'
  BY <1>5 DEF R!Landed
<1>6. ASSUME NEW r \in Caller, R!LookAgain(r) PROVE AuthInv'
  BY <1>6 DEF R!LookAgain
<1>7. ASSUME NEW r \in Caller, R!Wipe(r) PROVE AuthInv'
  BY <1>7 DEF R!Wipe
<1>8. ASSUME NEW r \in Caller, R!Answer(r) PROVE AuthInv'
  BY <1>8 DEF R!Answer
<1>9. ASSUME NEW r \in Caller, R!SignIn(r) PROVE AuthInv'
  <2> DEFINE new == R!Session(ntok + 1, ntok + 1, 0, FALSE)
             a == [R!Idle EXCEPT !.pc = "mint", !.id = ntok + 1, !.new = ntok + 1]
  <2>1. ntok + 1 \in R!Tok /\ 0 \in R!Tok /\ ntok \in Nat
    BY <1>9 DEF R!SignIn
  <2>2. /\ new \in [id : R!Tok, cur : R!Tok, prev : R!Tok, young : BOOLEAN]
        /\ new.id = ntok + 1 /\ new.cur = ntok + 1 /\ new.prev = 0
    BY <2>1 DEF R!Session
  <2>4. a \in Ask /\ a.pc = "mint" /\ a.tok = 0 /\ a.new = ntok + 1
    BY ONLY <2>1 DEF Ask
  <2>5. /\ rows' = rows \cup {new} /\ ntok' = ntok + 1 /\ q' = [q EXCEPT ![r] = a]
        /\ UNCHANGED <<held, heirs, lapsed, outages>>
    BY <1>9 DEF R!SignIn
  <2> HIDE DEF new, a
  <2>6. /\ q' \in [Caller -> Ask] /\ q'[r] = a
        /\ \A t \in Caller : t # r => q'[t] = q[t]
    BY <2>4, <2>5, AskSteps
  <2>7. R!TypeOK'
    BY <2>1, <2>2, <2>5, <2>6 DEF Ask
  <2>8. RowsInv' /\ YoungInv' /\ HeirInv' /\ R!OneHeir'
    BY <2>1, <2>2, <2>5
  <2>9. AskInv' /\ LandInv' /\ RaceInv'
    BY <2>1, <2>2, <2>4, <2>5, <2>6
  <2>10. R!RetryIsSafe' /\ R!RacesAreTolerated'
    BY <2>1, <2>2, <2>4, <2>5, <2>6
  <2> QED
    BY <2>7, <2>8, <2>9, <2>10
<1>10. ASSUME NEW r \in Caller, R!Mint(r) PROVE AuthInv'
  BY <1>10, SMTT(30) DEF R!Mint
<1>11. ASSUME NEW r \in Caller, R!LogoutLookup(r) PROVE AuthInv'
  <2>1. /\ held' = 0 /\ UNCHANGED <<rows, ntok, heirs, lapsed>>
        /\ R!Outage \/ UNCHANGED outages
    BY <1>11 DEF R!LogoutLookup
  <2>2. CASE UNCHANGED q
    BY <2>1, <2>2
  <2>3. ASSUME NEW s \in rows, q' = [q EXCEPT ![r] = [R!Idle EXCEPT !.pc = "logout", !.id = s.id]]
        PROVE  AuthInv'
    <3> DEFINE a == [R!Idle EXCEPT !.pc = "logout", !.id = s.id]
    <3>1. s.id \in R!Tok /\ 0 \in R!Tok
      OBVIOUS
    <3>2. a \in Ask /\ a.pc = "logout" /\ a.tok = 0 /\ a.new = 0
      BY ONLY <3>1 DEF Ask
    <3>3. q' = [q EXCEPT ![r] = a]
      BY <2>3
    <3> HIDE DEF a
    <3>4. /\ q' \in [Caller -> Ask] /\ q'[r] = a
          /\ \A t \in Caller : t # r => q'[t] = q[t]
      BY ONLY <3>2, <3>3, r \in Caller, R!TypeOK, AskSteps
    <3> QED
      BY <2>1, <3>1, <3>2, <3>4 DEF Ask
  <2> QED
    BY <1>11, <2>2, <2>3 DEF R!LogoutLookup
<1>12. ASSUME NEW r \in Caller, R!LogoutDelete(r) PROVE AuthInv'
  BY <1>12 DEF R!LogoutDelete
<1>13. CASE R!Lapse
  <2>1. PICK s \in rows : s.young /\ rows' = (rows \ {s}) \cup {[s EXCEPT !.young = FALSE]}
    BY <1>13 DEF R!Lapse
  <2> DEFINE old == [s EXCEPT !.young = FALSE]
  <2>2. /\ old \in [id : R!Tok, cur : R!Tok, prev : R!Tok, young : BOOLEAN]
        /\ old.id = s.id /\ old.cur = s.cur /\ old.prev = s.prev
    <3>1. s \in [id : R!Tok, cur : R!Tok, prev : R!Tok, young : BOOLEAN]
      OBVIOUS
    <3> QED
      BY ONLY <3>1
  <2>3. rows' = (rows \ {s}) \cup {old} /\ lapsed' = TRUE
        /\ UNCHANGED <<q, held, ntok, heirs, outages>>
    BY <1>13, <2>1 DEF R!Lapse
  <2> HIDE DEF old
  <2>4. R!TypeOK' /\ RowsInv' /\ AskInv'
    BY <2>2, <2>3
  <2>5. HeirInv' /\ LandInv' /\ RaceInv' /\ YoungInv'
    BY <2>2, <2>3
  <2>6. R!OneHeir' /\ R!RetryIsSafe' /\ R!RacesAreTolerated'
    BY <2>2, <2>3
  <2> QED
    BY <2>4, <2>5, <2>6
<1>14. CASE UNCHANGED R!authVars
  BY <1>14 DEF R!authVars
<1> QED
  BY <1>1, <1>2, <1>3, <1>4, <1>5, <1>6, <1>7, <1>8, <1>9, <1>10, <1>11, <1>12, <1>13,
     <1>14 DEF R!Next

\* It holds of a user who has just signed in on two devices.
LEMMA AuthInit == AuthConstants /\ R!Init => AuthInv
<1> SUFFICES ASSUME AuthConstants, R!Init PROVE AuthInv
  OBVIOUS
<1> USE DEF R!NoTok
<1>1. 1 \in R!Tok /\ 2 \in R!Tok /\ 0 \in R!Tok
  BY DEF AuthConstants, R!Tok
<1>2. rows = {R!Session(1, 1, 0, FALSE), R!Session(2, 2, 0, FALSE)}
  BY DEF R!Init
<1>3. \A s \in rows : /\ s.id \in {1, 2} /\ s.cur = s.id /\ s.prev = 0
                      /\ s \in [id : R!Tok, cur : R!Tok, prev : R!Tok, young : BOOLEAN]
  <2> SUFFICES ASSUME NEW s \in rows
               PROVE  /\ s.id \in {1, 2} /\ s.cur = s.id /\ s.prev = 0
                      /\ s \in [id : R!Tok, cur : R!Tok, prev : R!Tok, young : BOOLEAN]
    OBVIOUS
  <2>1. CASE s = R!Session(1, 1, 0, FALSE)
    BY <1>1, <2>1 DEF R!Session
  <2>2. CASE s = R!Session(2, 2, 0, FALSE)
    BY <1>1, <2>2 DEF R!Session
  <2> QED
    BY <1>2, <2>1, <2>2
<1>4. \A s, t \in rows : s # t => s.id # t.id
  <2>1. R!Session(1, 1, 0, FALSE).id = 1 /\ R!Session(2, 2, 0, FALSE).id = 2
    BY DEF R!Session
  <2> QED
    BY <1>2, <2>1
<1>5. \A r \in Caller : q[r].pc = "idle" /\ q[r].tok = 0 /\ q[r].new = 0
  BY DEF R!Init, R!Idle
<1>6. q \in [Caller -> Ask]
  BY <1>1 DEF R!Init, R!Idle, Ask
<1>7. R!TypeOK
  <2>1. lapsed = FALSE /\ outages \in 0..MaxOutages
    BY DEF R!Init, AuthConstants
  <2>2. held \in R!Tok /\ ntok \in R!Tok /\ heirs = {}
    BY <1>1 DEF R!Init
  <2> QED
    BY <1>3, <1>6, <2>1, <2>2 DEF R!TypeOK, Ask
<1>8. RowsInv
  <2>1. ntok = 2 /\ held = 1
    BY DEF R!Init
  <2>2. \A s \in rows : /\ s.id \in 1..ntok /\ s.cur \in 1..ntok
                        /\ s.prev \in 0..ntok /\ s.prev # s.cur
    BY <1>3, <2>1
  <2>3. held \in 0..ntok
    BY <2>1
  <2> QED
    BY <1>3, <1>4, <2>2, <2>3 DEF RowsInv
<1>9. AskInv /\ HeirInv /\ LandInv /\ RaceInv /\ YoungInv
  <2>1. YoungInv
    BY <1>3 DEF YoungInv
  <2>2. AskInv
    <3>1. 0 \in 0..ntok
      BY DEF R!Init
    <3> QED
      BY <1>5, <3>1 DEF AskInv
  <2>4. LandInv /\ RaceInv
    BY <1>5 DEF LandInv, RaceInv
  <2>3. HeirInv
    BY DEF R!Init, HeirInv
  <2> QED
    BY <2>1, <2>2, <2>3, <2>4
<1>10. R!OneHeir /\ R!RetryIsSafe /\ R!RacesAreTolerated
  BY <1>5 DEF R!Init, R!OneHeir, R!RetryIsSafe, R!RacesAreTolerated, R!At
<1> QED
  BY <1>7, <1>8, <1>9, <1>10 DEF AuthInv

\* A token is exchanged once, however requests race and errors are read, and "try
\* again" is answered only to a request that still has a token to try with, unless
\* the database failed twice: for any number of requests, tokens and outages.
THEOREM TokensRotateOnce ==
    Init /\ [][Next]_vars => []RotationSafe
<1>1. Init => AuthInv
  BY AuthInit, ServicesAssumption DEF Init
<1>2. AuthInv /\ [Next]_vars => AuthInv'
  BY ServicesAssumption, Parts, AuthStep
<1>3. AuthInv => RotationSafe
  BY DEF AuthInv, R!RotationSafe, RotationSafe
<1> QED
  BY <1>1, <1>2, <1>3, PTL

\* Within the grace window and with a database that answers, racing requests of the
\* owner sign the user out everywhere only when the token of one of them has left
\* every session meanwhile.
THEOREM RacesTolerated ==
    Init /\ [][Next]_vars => []RacesAreTolerated
<1>1. Init => AuthInv
  BY AuthInit, ServicesAssumption DEF Init
<1>2. AuthInv /\ [Next]_vars => AuthInv'
  BY ServicesAssumption, Parts, AuthStep
<1>3. AuthInv => RacesAreTolerated
  BY DEF AuthInv, RacesAreTolerated
<1> QED
  BY <1>1, <1>2, <1>3, PTL
=============================================================================
