------------------------------ MODULE RungServe ------------------------------
(***************************************************************************)
(* What a client gets for a segment request on one ABR rung:               *)
(* ABRVariantSegment of internal/api/v1/transcode_abr.go.                  *)
(*                                                                         *)
(* The playlist numbers segments over the whole film; the rung's encoder   *)
(* starts at segment StartSeg and numbers its files from zero.  The        *)
(* handler translates, restarts the encoder when the segment is out of     *)
(* reach, waits for the file and serves it.  A call of ensureRungChild     *)
(* runs under the rung lock and is one step here; RungChild models its     *)
(* inside.  Only the current incarnation's directory is ever read.         *)
(***************************************************************************)
EXTENDS Integers

CONSTANTS Req,        \* requests, one call of the handler each
          InstOf,     \* the API instance a request runs on
          Total,      \* predictedSegmentCount
          Lookahead   \* abrSeekLookahead

ASSUME ServeAssumption ==
    /\ Total \in Nat \ {0}
    /\ Lookahead \in Nat

None == -1
AnySeg == -1      \* abrAnySeg: the request is for init.mp4
Seg == 0..(Total - 1)

VARIABLES
    start,    \* StartSeg of the stored child, or None
    head,     \* highest file its encoder has written, or -1
    alive,    \* the encoder is running
    floor,    \* the key abrRestartKey exists: a forced restart was under 2 s ago
    stamps,   \* forced restarts so far
    stage,    \* where each request is
    seg,      \* what it asks for
    local,    \* localSeg
    since,    \* stamps when its current wait began
    served,   \* the segment of the film it was given, or None
    moved,    \* history: requests whose child another one restarted elsewhere
              \* after they had translated their segment
    refused   \* history: requests refused a restart they took for granted

serveVars ==
    <<start, head, alive, floor, stamps, stage, seg, local, since, served, moved, refused>>
child == <<start, head, alive>>

ServeInit ==
    /\ start = None
    /\ head = -1
    /\ alive = FALSE
    /\ floor = FALSE
    /\ stamps = 0
    /\ stage = [r \in Req |-> "idle"]
    /\ seg = [r \in Req |-> 0]
    /\ local = [r \in Req |-> 0]
    /\ since = [r \in Req |-> 0]
    /\ served = [r \in Req |-> None]
    /\ moved = {}
    /\ refused = {}

Goes(r, from, to) == stage[r] = from /\ stage' = [stage EXCEPT ![r] = to]

-----------------------------------------------------------------------------
\* A segment of the film, or the init segment.  Indices past the end are
\* rejected before anything else happens.
Ask(r) ==
    /\ \E g \in Seg \cup {AnySeg} :
          /\ seg' = [seg EXCEPT ![r] = g]
          /\ Goes(r, "idle", IF g = AnySeg THEN "init" ELSE "ensure")
    /\ UNCHANGED <<child, floor, stamps, local, since, served, moved, refused>>

\* Delete and Create of the child under its next incarnation, and the job.
StartAt(g) == start' = g /\ head' = -1 /\ alive' = TRUE

\* A request on another instance is inside ensureRungChild, and holds the lease for
\* longer than abrLockWait; on one instance the mutex is waited for without limit.
LockBusy(r) ==
    \E q \in Req : /\ InstOf[q] # InstOf[r]
                  /\ stage[q] \in {"init", "ensure", "restart", "again"}

\* ensureRungChild without force: any child will do for init.mp4; otherwise a
\* child that starts at or before the segment is kept.
EnsureChild(r) ==
    \/ start = None /\ StartAt(IF seg[r] = AnySeg THEN 0 ELSE seg[r])
    \/ start # None /\ seg[r] # AnySeg /\ seg[r] < start /\ StartAt(seg[r])
    \/ start # None /\ (seg[r] = AnySeg \/ seg[r] >= start) /\ UNCHANGED child
    \/ LockBusy(r) /\ UNCHANGED child

\* ensureRungChild with force: claimForcedRestart allows one per interval.
ForceRestart(r) ==
    \/ start = None /\ StartAt(seg[r]) /\ UNCHANGED <<floor, stamps>>
    \/ start # None /\ ~floor /\ StartAt(seg[r])
       /\ floor' = TRUE /\ stamps' = stamps + 1
    \/ start # None /\ floor /\ UNCHANGED <<child, floor, stamps>>
    \/ LockBusy(r) /\ UNCHANGED <<child, floor, stamps>>

\* History: the requests that count on a file of the child r replaces.
Displaced(r) ==
    IF start' = start THEN {}
    ELSE {q \in Req \ {r} : stage[q] \in {"wait", "lastwait", "serve"}}

InitSegment(r) ==
    /\ Goes(r, "init", "initwait")
    /\ EnsureChild(r)
    /\ moved' = moved \cup Displaced(r)
    /\ UNCHANGED <<floor, stamps, seg, local, since, served, refused>>

\* Every encoder writes init.mp4 when it starts; 503 if none comes.
InitDone(r) ==
    /\ Goes(r, "initwait", "done")
    /\ UNCHANGED <<child, floor, stamps, seg, local, since, served, moved, refused>>

Ensure(r) ==
    /\ Goes(r, "ensure", "plan")
    /\ EnsureChild(r)
    /\ moved' = moved \cup Displaced(r)
    /\ UNCHANGED <<floor, stamps, seg, local, since, served, refused>>

\* A worker that cannot be asked counts as -1.
segHead == {head, -1}

ReachableSoon(h, l) ==
    /\ l >= 0
    /\ l <= (IF h < 0 THEN 0 ELSE h) + Lookahead

\* Get the child (503 when there is none), translate, look at the encode head.
Translate(r) ==
    /\ \/ start = None /\ Goes(r, "plan", "done") /\ UNCHANGED <<local, since>>
       \/ /\ start # None
          /\ local' = [local EXCEPT ![r] = seg[r] - start]
          /\ since' = [since EXCEPT ![r] = stamps]
          /\ \E h \in segHead :
                Goes(r, "plan", IF ReachableSoon(h, seg[r] - start)
                              THEN "wait" ELSE "restart")
    /\ UNCHANGED <<child, floor, stamps, seg, served, moved, refused>>

\* ensureRungChild with force, and what the handler takes for granted of it: the
\* child starts at the segment, whose file is number 0.
Seek(r) ==
    /\ ForceRestart(r)
    /\ local' = [local EXCEPT ![r] = 0]
    /\ since' = [since EXCEPT ![r] = stamps']
    /\ moved' = (moved \ {r}) \cup Displaced(r)
    /\ refused' = IF start' = seg[r] THEN refused \ {r} ELSE refused \cup {r}
    /\ UNCHANGED <<seg, served>>

\* Mutant: the file index of the old child is kept.
RestartKeepsLocal(r) ==
    /\ Goes(r, "restart", "wait")
    /\ ForceRestart(r)
    /\ since' = [since EXCEPT ![r] = stamps']
    /\ moved' = (moved \ {r}) \cup Displaced(r)
    /\ refused' = IF start' = seg[r] THEN refused \ {r} ELSE refused \cup {r}
    /\ UNCHANGED <<seg, local, served>>

\* Out of reach: restart at the segment.
Restart(r) == Goes(r, "restart", "wait") /\ Seek(r)

\* The child's worker has the file in the directory of its current incarnation.
workerReady(r) == start # None /\ local[r] <= head

\* Mutant: the wait has no deadline while the child is stored.
WaitForever(r) ==
    /\ start = None
    /\ Goes(r, "wait", "again")
    /\ UNCHANGED <<child, floor, stamps, seg, local, since, served, moved, refused>>

\* waitRungSegment: the current incarnation has written the file.
WaitHit(r) ==
    /\ workerReady(r)
    /\ \/ Goes(r, "wait", "serve")
       \/ Goes(r, "lastwait", "serve")
    /\ UNCHANGED <<child, floor, stamps, seg, local, since, served, moved, refused>>

\* The budget is spent.  Every budget (4 s and more) is longer than the restart
\* floor (2 s), so a floor older than the wait has gone.
WaitMiss(r) ==
    /\ ~workerReady(r)
    /\ Goes(r, "wait", "again")
    /\ floor' = (floor /\ stamps # since[r])
    /\ UNCHANGED <<child, stamps, seg, local, since, served, moved, refused>>

\* Restart once more and wait for file 0.
Again(r) == Goes(r, "again", "lastwait") /\ Seek(r)

\* 503 "segment not ready".
LastMiss(r) ==
    /\ ~workerReady(r)
    /\ Goes(r, "lastwait", "done")
    /\ floor' = (floor /\ stamps # since[r])
    /\ UNCHANGED <<child, stamps, seg, local, since, served, moved, refused>>

\* Re-fetch the child and serve the file from its directory, or 404.
Serve(r) ==
    /\ Goes(r, "serve", "done")
    /\ served' = [served EXCEPT ![r] =
                    IF workerReady(r) THEN start + local[r] ELSE None]
    /\ UNCHANGED <<child, floor, stamps, seg, local, since, moved, refused>>

Step(r) ==
    \/ InitSegment(r) \/ InitDone(r) \/ Ensure(r) \/ Translate(r) \/ Restart(r)
    \/ WaitHit(r) \/ WaitMiss(r) \/ Again(r) \/ LastMiss(r) \/ Serve(r)

-----------------------------------------------------------------------------
(* The encoder and the clock.                                              *)

Encode ==
    /\ alive
    /\ start + head + 1 < Total
    /\ head' = head + 1
    /\ UNCHANGED <<start, alive, floor, stamps, stage, seg, local, since, served, moved, refused>>

\* The encoder ends: finished, failed or idle-killed.  Its directory may be
\* wiped while the session is still stored.
Die ==
    /\ alive
    /\ alive' = FALSE
    /\ head' \in {head, -1}
    /\ UNCHANGED <<start, floor, stamps, stage, seg, local, since, served, moved, refused>>

FloorExpires ==
    /\ floor
    /\ floor' = FALSE
    /\ UNCHANGED <<child, stamps, stage, seg, local, since, served, moved, refused>>

ServeNext ==
    \/ \E r \in Req : Ask(r) \/ Step(r)
    \/ Encode \/ Die \/ FloorExpires

ServeSpec == ServeInit /\ [][ServeNext]_serveVars
\* A handler keeps running: its waits have deadlines.  The encoder owes nothing.
FairServe == ServeSpec /\ \A r \in Req : WF_serveVars(Step(r))

-----------------------------------------------------------------------------
ServeTypeOK ==
    /\ start \in Seg \cup {None}
    /\ head \in -1..(Total - 1)
    /\ alive \in BOOLEAN
    /\ floor \in BOOLEAN
    /\ stamps \in Nat
    /\ stage \in [Req -> {"idle", "init", "initwait", "ensure", "plan", "restart",
                       "wait", "again", "lastwait", "serve", "done"}]
    /\ seg \in [Req -> Seg \cup {AnySeg}]
    /\ local \in [Req -> -Total..Total]
    /\ since \in [Req -> Nat]
    /\ served \in [Req -> Seg \cup {None}]
    /\ moved \subseteq Req /\ refused \subseteq Req

\* The bytes a client gets for segment N are segment N of the film, however seeks,
\* dying encoders and other requests on the rung interleave with the handler -
\* except in two cases: the rung was restarted elsewhere between the translation
\* of N and the answer, or the handler's own forced restart was refused, by the
\* floor or by the lock, and left a child that starts elsewhere.
ServedIsRequested ==
    \A r \in Req : r \in moved \cup refused \/ served[r] \in {None, seg[r]}

\* Every request is answered, with the file, a 404 or a 503, even when the
\* encoder never writes anything.
RequestsAnswered == []<>(\A r \in Req : stage[r] \in {"idle", "done"})

\* ABRVariantSegment "[e]nsures a child transcode session for the rung is producing
\* global segment N (starting/seeking ffmpeg to its offset when needed), then
\* serves it" (transcode_abr.go:419), and "a rejected restart simply serves from
\* the existing child (possibly with a longer wait)" (:731): a request whose child
\* nobody moves gets its segment, whether or not its restart was refused.
ServesTheSegment == \A r \in Req \ moved : served[r] \in {None, seg[r]}
=============================================================================
