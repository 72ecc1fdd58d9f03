--------------------------- MODULE RungServeProofs ---------------------------
(***************************************************************************)
(* Every request is served the segment it asked for, unless the rung was   *)
(* restarted under it or its own restart was refused: for any length of    *)
(* film, any lookahead and any number of requests.                         *)
(***************************************************************************)
EXTENDS RungServe, TLAPS

USE ServeAssumption DEF workerReady, segHead

Waiting(r) == stage[r] \in {"wait", "lastwait", "serve"}

\* Every request past ensureRungChild is for a segment, and waits for a file
\* that can exist.
RequestOK(r) ==
    /\ stage[r] \in {"ensure", "plan", "restart", "again"} \/ Waiting(r)
          => seg[r] \in Seg
    /\ Waiting(r) => local[r] >= 0

RequestInv == \A r \in Req : RequestOK(r)

\* Only a stored child encodes, and none beyond the end of the film.
ChildInv ==
    /\ alive => start # None
    /\ start # None => start + head < Total

LEMMA SegFacts == \A g \in Seg : g \in Int /\ g >= 0 /\ g # None /\ g # AnySeg
  BY DEF Seg, None, AnySeg

\* A start leaves a well-typed child.
LEMMA StartEffect ==
    ASSUME ServeTypeOK, NEW g \in Seg, StartAt(g)
    PROVE  /\ start' \in Seg \cup {None} /\ start' # None
           /\ head' \in -1..(Total - 1) /\ alive' \in BOOLEAN
           /\ start' + head' < Total
<1>1. start' = g /\ head' = -1
  BY DEF StartAt
<1>2. alive' \in BOOLEAN
  BY DEF StartAt
<1>3. g - 1 < Total
  BY DEF Seg
<1> QED
  BY <1>1, <1>2, <1>3, SegFacts

\* What ensureRungChild without force does.
LEMMA EnsureEffect ==
    ASSUME ServeTypeOK, NEW r \in Req, EnsureChild(r)
    PROVE  \/ UNCHANGED child
           \/ \E g \in Seg : StartAt(g)
<1>1. 0 \in Seg
  BY DEF Seg
<1>2. seg[r] # AnySeg => seg[r] \in Seg
  BY DEF ServeTypeOK
<1> DEFINE g == IF seg[r] = AnySeg THEN 0 ELSE seg[r]
<1>3. g \in Seg
  BY <1>1, <1>2
<1>4. CASE StartAt(g)
  BY <1>3, <1>4
<1>5. CASE seg[r] # AnySeg /\ StartAt(seg[r])
  BY <1>2, <1>5
<1> QED
  BY <1>4, <1>5 DEF EnsureChild

\* What ensureRungChild with force does.
LEMMA ForceEffect ==
    ASSUME ServeTypeOK, NEW r \in Req, seg[r] \in Seg, ForceRestart(r)
    PROVE  /\ UNCHANGED child \/ StartAt(seg[r])
           /\ floor' \in BOOLEAN /\ stamps' \in Nat
<1>1. UNCHANGED child \/ StartAt(seg[r])
  BY DEF ForceRestart
<1>2. stamps' \in Nat
  BY DEF ForceRestart, ServeTypeOK
<1>3. floor' \in BOOLEAN
  BY DEF ForceRestart, ServeTypeOK
<1> QED
  BY <1>1, <1>2, <1>3

-----------------------------------------------------------------------------
LEMMA TypeStep == ServeTypeOK /\ RequestInv /\ ChildInv /\ [ServeNext]_serveVars => ServeTypeOK'
<1> SUFFICES ASSUME ServeTypeOK, RequestInv, ChildInv, [ServeNext]_serveVars PROVE ServeTypeOK'
  OBVIOUS
<1> USE SegFacts DEF ServeTypeOK, child
<1>1. ASSUME NEW r \in Req, Ask(r) PROVE ServeTypeOK'
  BY <1>1 DEF Ask, Goes
<1>2. ASSUME NEW r \in Req, InitSegment(r) \/ Ensure(r) PROVE ServeTypeOK'
  <2>1. start' \in Seg \cup {None} /\ head' \in -1..(Total - 1) /\ alive' \in BOOLEAN
    <3>1. EnsureChild(r)
      BY <1>2 DEF InitSegment, Ensure
    <3> QED
      BY <3>1, EnsureEffect, StartEffect
  <2>2. moved' \subseteq Req
    BY <1>2 DEF InitSegment, Ensure, Displaced
  <2> QED
    BY <1>2, <2>1, <2>2 DEF InitSegment, Ensure, Goes
<1>3. ASSUME NEW r \in Req, InitDone(r) \/ WaitHit(r) PROVE ServeTypeOK'
  BY <1>3 DEF InitDone, WaitHit, Goes
<1>4. ASSUME NEW r \in Req, Translate(r) PROVE ServeTypeOK'
  <2>1. start # None => seg[r] - start \in -Total..Total
    BY DEF Seg, None, AnySeg
  <2>2. local' \in [Req -> -Total..Total] /\ since' \in [Req -> Nat]
    BY <1>4, <2>1 DEF Translate
  <2>3. stage' = [stage EXCEPT ![r] = "done"] \/ stage' = [stage EXCEPT ![r] = "wait"]
        \/ stage' = [stage EXCEPT ![r] = "restart"]
    BY <1>4 DEF Translate, Goes
  <2> QED
    BY <1>4, <2>2, <2>3 DEF Translate
<1>5. ASSUME NEW r \in Req, Restart(r) \/ Again(r) PROVE ServeTypeOK'
  <2>0. stage[r] \in {"restart", "again"}
    BY <1>5 DEF Restart, Again, Goes
  <2>1. seg[r] \in Seg
    BY <2>0 DEF RequestInv, RequestOK
  <2>2. /\ start' \in Seg \cup {None} /\ head' \in -1..(Total - 1)
        /\ alive' \in BOOLEAN /\ floor' \in BOOLEAN /\ stamps' \in Nat
    <3>1. ForceRestart(r)
      BY <1>5 DEF Restart, Again, Seek
    <3> QED
      BY <2>1, <3>1, ForceEffect, StartEffect
  <2>3. 0 \in -Total..Total
    OBVIOUS
  <2>4. moved' \subseteq Req /\ refused' \subseteq Req
    BY <1>5 DEF Restart, Again, Seek, Displaced
  <2> QED
    BY <1>5, <2>2, <2>3, <2>4 DEF Restart, Again, Seek, Goes
<1>6. ASSUME NEW r \in Req, WaitMiss(r) \/ LastMiss(r) PROVE ServeTypeOK'
  BY <1>6 DEF WaitMiss, LastMiss, Goes
<1>7. ASSUME NEW r \in Req, Serve(r) PROVE ServeTypeOK'
  <2>1. local[r] \in Int /\ local[r] >= 0
    BY <1>7 DEF Serve, Goes, Waiting, RequestInv, RequestOK
  <2>2. start # None /\ local[r] <= head => start + local[r] \in Seg
    BY <2>1 DEF ChildInv, Seg, None
  <2> QED
    BY <1>7, <2>2 DEF Serve, Goes
<1>8. CASE Encode
  <2>1. start \in Int /\ start >= -1 /\ head \in Int /\ head >= -1
    BY DEF Seg, None
  <2>2. start # None /\ start + head + 1 < Total /\ head' = head + 1
        /\ UNCHANGED <<start, alive, floor, stamps, stage, seg, local, since, served, moved, refused>>
    BY <1>8 DEF Encode, ChildInv
  <2>3. start \in Nat
    BY <2>2 DEF Seg
  <2>4. head' \in -1..(Total - 1)
    BY <2>1, <2>2, <2>3
  <2> QED
    BY <2>2, <2>4
<1>9. CASE Die
  <2>1. head' \in -1..(Total - 1)
    BY <1>9 DEF Die
  <2>2. alive' \in BOOLEAN
    BY <1>9 DEF Die
  <2> QED
    BY <1>9, <2>1, <2>2 DEF Die
<1>11. CASE FloorExpires
  <2>1. floor' \in BOOLEAN
    BY <1>11 DEF FloorExpires
  <2> QED
    BY <1>11, <2>1 DEF FloorExpires
<1>10. CASE UNCHANGED serveVars
  BY <1>10 DEF serveVars
<1> QED
  BY <1>1, <1>2, <1>3, <1>4, <1>5, <1>6, <1>7, <1>8, <1>9, <1>10, <1>11
  DEF ServeNext, Step

-----------------------------------------------------------------------------
LEMMA ChildStep == ServeTypeOK /\ RequestInv /\ ChildInv /\ [ServeNext]_serveVars => ChildInv'
<1> SUFFICES ASSUME ServeTypeOK, RequestInv, ChildInv, [ServeNext]_serveVars PROVE ChildInv'
  OBVIOUS
<1> USE DEF ChildInv
<1>1. ASSUME NEW r \in Req, InitSegment(r) \/ Ensure(r) PROVE ChildInv'
  <2>1. EnsureChild(r)
    BY <1>1 DEF InitSegment, Ensure
  <2> QED
    BY <2>1, EnsureEffect, StartEffect DEF child
<1>2. ASSUME NEW r \in Req, Restart(r) \/ Again(r) PROVE ChildInv'
  <2>1. stage[r] \in {"restart", "again"} /\ ForceRestart(r)
    BY <1>2 DEF Restart, Again, Seek, Goes
  <2>2. seg[r] \in Seg
    BY <2>1 DEF RequestInv, RequestOK
  <2> QED
    BY <2>1, <2>2, ForceEffect, StartEffect DEF child
<1>3. ASSUME NEW r \in Req,
             \/ Ask(r) \/ InitDone(r) \/ Translate(r) \/ WaitHit(r) \/ WaitMiss(r)
             \/ LastMiss(r) \/ Serve(r)
      PROVE ChildInv'
  BY <1>3 DEF Ask, InitDone, Translate, WaitHit, WaitMiss, LastMiss, Serve, child
<1>4. CASE FloorExpires \/ UNCHANGED serveVars
  BY <1>4 DEF FloorExpires, serveVars, child
<1>5. CASE Encode
  <2>1. start # None /\ start \in Int /\ head \in Int
    BY <1>5 DEF Encode, ServeTypeOK, Seg, None
  <2> QED
    BY <1>5, <2>1 DEF Encode
<1>6. CASE Die
  <2>1. start # None /\ start \in Seg /\ start - 1 < Total
    BY <1>6 DEF Die, ServeTypeOK, Seg
  <2> QED
    BY <1>6, <2>1 DEF Die
<1> QED
  BY <1>1, <1>2, <1>3, <1>4, <1>5, <1>6 DEF ServeNext, Step

\* A request's own step leaves the other requests' locals alone.
LEMMA OthersUntouched ==
    ASSUME ServeTypeOK, NEW r \in Req, Step(r)
    PROVE  /\ stage[r] \notin {"idle", "done"}
           /\ \A q \in Req \ {r} : /\ stage'[q] = stage[q] /\ served'[q] = served[q]
                                    /\ local'[q] = local[q]
           /\ seg' = seg
<1> DEFINE Own == /\ stage[r] \notin {"idle", "done"}
                  /\ \A q \in Req \ {r} : stage'[q] = stage[q]
<1>0. ASSUME NEW from, NEW to, Goes(r, from, to), from \notin {"idle", "done"}
      PROVE  Own
  BY <1>0 DEF Goes, ServeTypeOK
<1> HIDE DEF Own
<1>1. Own
  <2>1. CASE InitSegment(r) \/ InitDone(r) \/ Ensure(r) \/ Restart(r) \/ Serve(r)
    BY <1>0, <2>1 DEF InitSegment, InitDone, Ensure, Restart, Serve
  <2>2. CASE WaitHit(r) \/ WaitMiss(r) \/ Again(r) \/ LastMiss(r)
    BY <1>0, <2>2 DEF WaitHit, WaitMiss, Again, LastMiss
  <2>3. CASE Translate(r)
    BY <1>0, <2>3 DEF Translate
  <2> QED
    BY <2>1, <2>2, <2>3 DEF Step
<1>2. /\ seg' = seg
      /\ \A q \in Req \ {r} : served'[q] = served[q] /\ local'[q] = local[q]
  BY DEF Step, InitSegment, InitDone, Ensure, Translate, Restart, WaitHit, WaitMiss,
         Again, Seek, LastMiss, Serve, ServeTypeOK
<1> QED
  BY <1>1, <1>2 DEF Own

LEMMA RequestStep == ServeTypeOK /\ RequestInv /\ [ServeNext]_serveVars => RequestInv'
<1> SUFFICES ASSUME ServeTypeOK, RequestInv, [ServeNext]_serveVars, NEW q \in Req
             PROVE  RequestOK(q)'
  BY DEF RequestInv
<1> USE DEF RequestInv, RequestOK, Waiting
<1>1. ASSUME NEW r \in Req, Ask(r) PROVE RequestOK(q)'
  BY <1>1 DEF Ask, Goes, ServeTypeOK
<1>2. ASSUME NEW r \in Req, Step(r) PROVE RequestOK(q)'
  <2>0. seg' = seg
    BY <1>2, OthersUntouched
  <2>1. CASE q # r
    BY <1>2, <2>1, OthersUntouched
  <2>2. CASE q = r /\ Translate(r)
    <3>1. stage[r] = "plan" /\ stage'[r] \in {"done", "wait", "restart"}
      BY <2>2 DEF Translate, Goes, ServeTypeOK
    <3>2. stage'[r] = "wait" => local'[r] >= 0
      BY <2>2 DEF Translate, Goes, ReachableSoon, ServeTypeOK
    <3> QED
      BY <2>0, <2>2, <3>1, <3>2
  <2>3. CASE q = r /\ (Restart(r) \/ Again(r))
    <3>1. stage[r] \in {"restart", "again"} /\ local'[r] = 0
      BY <2>3 DEF Restart, Again, Seek, Goes, ServeTypeOK
    <3> QED
      BY <2>0, <2>3, <3>1
  <2>4. CASE q = r /\ (WaitHit(r) \/ WaitMiss(r))
    <3>1. Waiting(r) /\ local' = local
      BY <2>4 DEF WaitHit, WaitMiss, Goes
    <3> QED
      BY <2>0, <2>4, <3>1
  <2>5. CASE q = r /\ Ensure(r)
    BY <2>0, <2>5 DEF Ensure, Goes, ServeTypeOK
  <2>6. CASE q = r /\ (InitSegment(r) \/ InitDone(r) \/ LastMiss(r) \/ Serve(r))
    <3>1. stage'[r] \in {"initwait", "done"}
      BY <2>6 DEF InitSegment, InitDone, LastMiss, Serve, Goes, ServeTypeOK
    <3> QED
      BY <2>6, <3>1
  <2> QED
    BY <1>2, <2>1, <2>2, <2>3, <2>4, <2>5, <2>6 DEF Step
<1>3. CASE Encode \/ Die \/ FloorExpires \/ UNCHANGED serveVars
  BY <1>3 DEF Encode, Die, FloorExpires, serveVars
<1> QED
  BY <1>1, <1>2, <1>3 DEF ServeNext


\* The file a request waits for is its segment's file in the stored child, unless
\* it is one of the two excused cases.
Excused(r) == r \in moved \cup refused

TranslationOK(r) ==
    Waiting(r) => Excused(r) \/ (start # None /\ start + local[r] = seg[r])

TranslationInv == \A r \in Req : TranslationOK(r)

\* Only a finished request has been served and, unless excused, with its own segment.
ServedOK(r) ==
    served[r] = None \/ (stage[r] = "done" /\ (Excused(r) \/ served[r] = seg[r]))

ServedInv == \A r \in Req : ServedOK(r)

\* The step of one request excuses another only by moving the child under it, and
\* leaves every excuse of the other in place.
LEMMA ExcusesOfOthers ==
    ASSUME ServeTypeOK, NEW r \in Req, Step(r), NEW q \in Req, q # r
    PROVE  /\ Excused(q) => Excused(q)'
           /\ Waiting(q) => Excused(q)' \/ start' = start
<1>1. ASSUME EnsureChild(r) \/ ForceRestart(r),
             moved' \in {moved \cup Displaced(r), (moved \ {r}) \cup Displaced(r)},
             refused' \in {refused, refused \ {r}, refused \cup {r}}
      PROVE  /\ Excused(q) => Excused(q)'
             /\ Waiting(q) => Excused(q)' \/ start' = start
  <2>1. Excused(q) => Excused(q)'
    BY <1>1 DEF Excused
  <2>2. Waiting(q) /\ start' # start => q \in Displaced(r)
    BY DEF Waiting, Displaced
  <2> QED
    BY <1>1, <2>1, <2>2 DEF Excused
<1>2. CASE InitSegment(r) \/ Ensure(r)
  <2>1. EnsureChild(r) /\ moved' = moved \cup Displaced(r) /\ refused' = refused
    BY <1>2 DEF InitSegment, Ensure
  <2> QED
    BY <1>1, <2>1
<1>3. CASE Restart(r) \/ Again(r)
  <2>1. /\ ForceRestart(r) /\ moved' = (moved \ {r}) \cup Displaced(r)
        /\ refused' \in {refused \ {r}, refused \cup {r}}
    BY <1>3 DEF Restart, Again, Seek
  <2> QED
    BY <1>1, <2>1
<1>4. CASE InitDone(r) \/ Translate(r) \/ WaitHit(r) \/ WaitMiss(r) \/ LastMiss(r)
           \/ Serve(r)
  <2>1. start' = start /\ moved' = moved /\ refused' = refused
    BY <1>4 DEF InitDone, Translate, WaitHit, WaitMiss, LastMiss, Serve, child
  <2> QED
    BY <2>1 DEF Excused
<1> QED
  BY <1>2, <1>3, <1>4 DEF Step

\* A translation is right when it is made, and stays so while the child stays.
LEMMA TranslationStep ==
    ServeTypeOK /\ RequestInv /\ TranslationInv /\ [ServeNext]_serveVars
        => TranslationInv'
<1> SUFFICES ASSUME ServeTypeOK, RequestInv, TranslationInv, [ServeNext]_serveVars,
                    NEW q \in Req
             PROVE  TranslationOK(q)'
  BY DEF TranslationInv
<1>0. TranslationOK(q)
  BY DEF TranslationInv
<1>1. ASSUME NEW r \in Req, Ask(r) PROVE TranslationOK(q)'
  <2>1. /\ stage[r] = "idle" /\ stage'[r] \in {"init", "ensure"}
        /\ UNCHANGED <<start, local, moved, refused>>
        /\ q # r => stage'[q] = stage[q] /\ seg'[q] = seg[q]
    BY <1>1 DEF Ask, Goes, child, ServeTypeOK
  <2> QED
    BY <1>0, <2>1 DEF TranslationOK, Waiting, Excused
<1>2. ASSUME NEW r \in Req, Step(r) PROVE TranslationOK(q)'
  <2>0. seg' = seg
    BY <1>2, OthersUntouched
  <2>1. CASE q # r
    <3>1. stage'[q] = stage[q] /\ local'[q] = local[q]
      BY <1>2, <2>1, OthersUntouched
    <3>2. /\ Excused(q) => Excused(q)'
          /\ Waiting(q) => Excused(q)' \/ start' = start
      BY <1>2, <2>1, ExcusesOfOthers
    <3> QED
      BY <1>0, <2>0, <3>1, <3>2 DEF TranslationOK, Waiting
  <2>2. CASE q = r /\ Translate(r)
    <3>1. start' = start /\ stage[r] = "plan"
      BY <2>2 DEF Translate, Goes, child
    <3>4. CASE start = None
      BY <2>2, <3>4 DEF Translate, Goes, ServeTypeOK, TranslationOK, Waiting
    <3>5. start # None => local'[r] = seg[r] - start
      BY <2>2 DEF Translate, ServeTypeOK
    <3>2. seg[r] \in Seg
      BY <3>1 DEF RequestInv, RequestOK
    <3>3. start # None => start \in Int /\ seg[r] \in Int
      BY <3>2, SegFacts DEF ServeTypeOK
    <3> QED
      BY <2>0, <2>2, <3>1, <3>3, <3>4, <3>5 DEF TranslationOK
  <2>3. CASE q = r /\ (Restart(r) \/ Again(r))
    <3>1. stage[r] \in {"restart", "again"} /\ Seek(r)
      BY <2>3 DEF Restart, Again, Goes
    <3>2. seg[r] \in Seg /\ local'[r] = 0
      BY <3>1 DEF RequestInv, RequestOK, Seek, ServeTypeOK
    <3>3. start' # seg[r] => r \in refused'
      BY <3>1 DEF Seek
    <3>4. seg[r] # None /\ seg[r] + 0 = seg[r]
      BY <3>2, SegFacts
    <3> QED
      BY <2>0, <2>3, <3>2, <3>3, <3>4 DEF TranslationOK, Excused
  <2>4. CASE q = r /\ WaitHit(r)
    <3>1. Waiting(r) /\ UNCHANGED <<start, local, moved, refused>>
      BY <2>4 DEF WaitHit, Goes, Waiting, child
    <3> QED
      BY <1>0, <2>0, <2>4, <3>1 DEF TranslationOK, Excused
  <2>5. CASE q = r /\ (InitSegment(r) \/ InitDone(r) \/ Ensure(r) \/ WaitMiss(r)
                       \/ LastMiss(r) \/ Serve(r))
    <3>1. stage'[r] \in {"initwait", "plan", "again", "done"}
      BY <2>5 DEF InitSegment, InitDone, Ensure, WaitMiss, LastMiss, Serve, Goes,
                  ServeTypeOK
    <3> QED
      BY <2>5, <3>1 DEF TranslationOK, Waiting
  <2> QED
    BY <1>2, <2>1, <2>2, <2>3, <2>4, <2>5 DEF Step
<1>3. CASE Encode \/ Die \/ FloorExpires \/ UNCHANGED serveVars
  BY <1>0, <1>3 DEF Encode, Die, FloorExpires, serveVars, child, TranslationOK,
                    Waiting, Excused
<1> QED
  BY <1>1, <1>2, <1>3 DEF ServeNext

LEMMA ServedStep ==
    ServeTypeOK /\ TranslationInv /\ ServedInv /\ [ServeNext]_serveVars => ServedInv'
<1> SUFFICES ASSUME ServeTypeOK, TranslationInv, ServedInv, [ServeNext]_serveVars,
                    NEW q \in Req
             PROVE  ServedOK(q)'
  BY DEF ServedInv
<1>0. ServedOK(q)
  BY DEF ServedInv
<1> USE DEF ServedOK
<1>1. ASSUME NEW r \in Req, Ask(r) PROVE ServedOK(q)'
  <2>1. /\ stage[r] = "idle" /\ UNCHANGED <<served, moved, refused>>
        /\ q # r => stage'[q] = stage[q] /\ seg'[q] = seg[q]
    BY <1>1 DEF Ask, Goes, ServeTypeOK
  <2> QED
    BY <1>0, <2>1 DEF Excused
<1>2. ASSUME NEW r \in Req, Step(r) PROVE ServedOK(q)'
  <2>1. /\ stage[r] \notin {"idle", "done"} /\ seg' = seg
        /\ q # r => stage'[q] = stage[q] /\ served'[q] = served[q]
    BY <1>2, OthersUntouched
  <2>2. CASE q # r
    BY <1>0, <1>2, <2>1, <2>2, ExcusesOfOthers
  <2>3. CASE q = r /\ ~Serve(r)
    <3>1. served' = served
      BY <1>2, <2>3 DEF Step, InitSegment, InitDone, Ensure, Translate, Restart, Seek,
                        WaitHit, WaitMiss, Again, LastMiss
    <3> QED
      BY <1>0, <2>1, <2>3, <3>1
  <2>4. CASE q = r /\ Serve(r)
    <3>1. stage[r] = "serve" /\ stage'[r] = "done" /\ UNCHANGED <<moved, refused>>
      BY <2>4 DEF Serve, Goes, ServeTypeOK
    <3>2. Excused(r) \/ start + local[r] = seg[r]
      BY <3>1 DEF TranslationInv, TranslationOK, Waiting
    <3>3. served'[r] \in {None, start + local[r]}
      BY <2>4 DEF Serve, ServeTypeOK
    <3> QED
      BY <2>1, <2>4, <3>1, <3>2, <3>3 DEF Excused
  <2> QED
    BY <2>2, <2>3, <2>4
<1>3. CASE Encode \/ Die \/ FloorExpires \/ UNCHANGED serveVars
  BY <1>0, <1>3 DEF Encode, Die, FloorExpires, serveVars, Excused
<1> QED
  BY <1>1, <1>2, <1>3 DEF ServeNext

\* A client is given the segment it asked for by every request under which the rung
\* was not restarted and whose own restart was not refused: whatever the encoder
\* does, however requests overlap and follow each other, and for every length of
\* film, lookahead and number of requests.
THEOREM ServedSegments == ServeSpec => []ServedIsRequested
<1> DEFINE Inv == ServeTypeOK /\ RequestInv /\ ChildInv /\ TranslationInv /\ ServedInv
<1>1. ServeInit => Inv
  <2> SUFFICES ASSUME ServeInit PROVE Inv
    OBVIOUS
  <2>1. 0 \in Seg /\ 0 \in -Total..Total /\ -1 \in -1..(Total - 1)
    BY DEF Seg
  <2>2. ServeTypeOK
    BY <2>1 DEF ServeInit, ServeTypeOK
  <2>3. RequestInv /\ TranslationInv
    BY DEF ServeInit, RequestInv, RequestOK, TranslationInv, TranslationOK, Waiting
  <2> QED
    BY <2>2, <2>3 DEF ServeInit, ChildInv, ServedInv, ServedOK
<1>2. Inv /\ [ServeNext]_serveVars => Inv'
  BY TypeStep, RequestStep, ChildStep, TranslationStep, ServedStep
<1>3. Inv => ServedIsRequested
  BY DEF ServedInv, ServedOK, ServedIsRequested, Excused
<1> QED
  BY <1>1, <1>2, <1>3, PTL DEF ServeSpec
=============================================================================
