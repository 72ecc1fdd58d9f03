---------------------------- MODULE Continuation ----------------------------
(***************************************************************************)
(* Auto-continue: a source with a defect ends ffmpeg early and cleanly;    *)
(* the worker seeks past the defect and stitches what follows onto the     *)
(* playlist a player is polling.                                           *)
(*                                                                         *)
(*   internal/transcode/continuation.go   continueShortSession             *)
(*                                                                         *)
(* The unit of time is continuationSkipStepSec, and one segment covers one *)
(* unit.  A playlist is the sequence of source positions it lists.         *)
(***************************************************************************)
EXTENDS Integers, Sequences, SequencesExt

CONSTANTS Length,           \* duration of the source
          From,             \* job.StartOffsetSec
          Margin,           \* shortCompletionMarginSec
          MaxContinuations,
          MaxSkip,          \* maxContinuationSkipSec
          Faults            \* see FaultKinds

\* "fail": a continuation's ffmpeg exits with an error, or is killed by
\*         KillSession, which looks the same to runFFmpeg.
\* "disk": a read or a write of the playlist fails.
\* "stop": the session is deleted.
FaultKinds == {"fail", "disk", "stop"}

ASSUME ContinuationAssumption ==
    /\ Length \in Nat /\ From \in 0..Length
    /\ Margin \in Nat /\ MaxContinuations \in Nat /\ MaxSkip \in Nat
    /\ Faults \subseteq FaultKinds

VARIABLES
    stops,    \* defects: positions a linear read does not get past
    dead,     \* those where not even a seek can start
    index,    \* index.m3u8: the listed positions
    endlist,  \* whether it carries EXT-X-ENDLIST
    prefix,   \* the list the running continuation is stitched onto
    cont,     \* cont.m3u8
    body,     \* what the stitch goroutine read of it
    stitcher, \* the stitch goroutine: "off", "wait", "write"
    pc,       \* where the worker is
    start, pos, \* where the running ffmpeg started and what it reads next
    attempt, skip,
    stored,   \* the session is in the store
    seen, latched, \* the player: segments in its last poll, whether it saw ENDLIST
    mishap    \* history: a run failed where it could have read on ("fail"), the final
              \* ENDLIST could not be written ("disk"), cont.m3u8 with segments in it
              \* could not be read to be folded in ("reread")

defects == <<stops, dead>>
playlist == <<index, endlist>>
side == <<prefix, cont, body, stitcher>>
reader == <<start, pos>>
loop == <<attempt, skip>>
player == <<seen, latched>>
vars == <<defects, playlist, side, pc, reader, loop, stored, player, mishap>>

Init ==
    /\ stops \in SUBSET (From + 1 .. Length - 1)
    /\ dead \in SUBSET stops
    /\ index = <<>> /\ endlist = FALSE
    /\ prefix = <<>> /\ cont = <<>> /\ body = <<>> /\ stitcher = "off"
    /\ pc = "first"
    /\ start = From /\ pos = From
    /\ attempt = 1 /\ skip = 0
    /\ stored = TRUE
    /\ seen = 0 /\ latched = FALSE
    /\ mishap = {}

At(from, to) == pc = from /\ pc' = to

\* What a write of v over old leaves in the file; its error is ignored.
Written(old, v) == {v} \cup (IF "disk" \in Faults THEN {old} ELSE {})

-----------------------------------------------------------------------------
(* ffmpeg.                                                                 *)

\* A defect ends a linear read; a seek to it still reads it, unless it is dead.
Readable ==
    /\ pos < Length
    /\ pos \notin stops \/ (pos = start /\ pos \notin dead)

\* The first run appends to index.m3u8 itself.
FirstReads ==
    /\ pc = "first"
    /\ Readable
    /\ index' = Append(index, pos)
    /\ pos' = pos + 1
    /\ UNCHANGED <<defects, endlist, side, pc, start, loop, stored, player, mishap>>

\* A clean exit, at the end or at a defect: the muxer writes ENDLIST.
FirstExits ==
    /\ ~Readable
    /\ At("first", "strip")
    /\ endlist' = TRUE
    /\ UNCHANGED <<defects, index, side, reader, loop, stored, player, mishap>>

\* The watchdog kills the first run: there is no continuation.
FirstKilled ==
    /\ ~stored
    /\ At("first", "done")
    /\ UNCHANGED <<defects, playlist, side, reader, loop, stored, player, mishap>>

\* A continuation writes to cont.m3u8.
RunReads ==
    /\ pc = "run"
    /\ Readable
    /\ cont' = Append(cont, pos)
    /\ pos' = pos + 1
    /\ UNCHANGED <<defects, playlist, prefix, body, stitcher, pc, start, loop,
                   stored, player, mishap>>

\* An exit of its own, clean or with an error: selfExited.
RunExits ==
    /\ ~Readable \/ "fail" \in Faults
    /\ At("run", "exited")
    /\ mishap' = IF Readable THEN mishap \cup {"fail"} ELSE mishap
    /\ UNCHANGED <<defects, playlist, side, reader, loop, stored, player>>

\* The watchdog kills it.
RunKilled ==
    /\ ~stored
    /\ At("run", "killed")
    /\ UNCHANGED <<defects, playlist, side, reader, loop, stored, player, mishap>>

-----------------------------------------------------------------------------
(* continueShortSession.                                                   *)

\* ENDLIST is stripped before anything slow.
Strip ==
    /\ At("strip", "probe")
    /\ endlist' = FALSE
    /\ UNCHANGED <<defects, index, side, reader, loop, stored, player, mishap>>

\* The playlist cannot be read or written: return before the deferred close.
StripFails ==
    /\ "disk" \in Faults
    /\ At("strip", "done")
    /\ UNCHANGED <<defects, playlist, side, reader, loop, stored, player, mishap>>

\* The source's duration is known, or the worker lets it be.
Probe ==
    /\ At("probe", "check") \/ At("probe", "close")
    /\ UNCHANGED <<defects, playlist, side, reader, loop, stored, player, mishap>>

producedEnd == From + Len(index)
\* shortOfSource.
Short == producedEnd < Length - Margin

\* The real end, the last attempt, or nobody wants the session any more.
Enough ==
    /\ ~Short \/ attempt > MaxContinuations \/ ~stored \/ "disk" \in Faults
    /\ At("check", "close")
    /\ UNCHANGED <<defects, playlist, side, reader, loop, stored, player, mishap>>

\* Seek past the stall point into a side playlist, stitched while it grows.
Continue ==
    /\ Short /\ attempt <= MaxContinuations /\ stored
    /\ At("check", "run")
    /\ prefix' = index
    /\ cont' = <<>>
    /\ body' = <<>>
    /\ stitcher' = "wait"
    /\ start' = producedEnd + skip
    /\ pos' = start'
    /\ UNCHANGED <<defects, playlist, loop, stored, player, mishap>>

\* The prefix, a discontinuity and the segments of the continuation.
stitchPlaylist(before, after) == before \o after

\* The stitch goroutine, once a second: read cont.m3u8 ...
StitchRead ==
    /\ stitcher = "wait"
    /\ body' = cont
    /\ stitcher' = "write"
    /\ UNCHANGED <<defects, playlist, prefix, cont, pc, reader, loop, stored, player, mishap>>

\* ... and write index.m3u8; after close(stop) that stitch may be its last.
StitchWrite ==
    /\ stitcher = "write"
    /\ \E p \in Written(playlist, <<stitchPlaylist(prefix, body), FALSE>>) :
          index' = p[1] /\ endlist' = p[2]
    /\ \/ stitcher' = "wait"
       \/ pc \in {"exited", "killed"} /\ body = cont /\ stitcher' = "off"
    /\ UNCHANGED <<defects, prefix, cont, body, pc, reader, loop, stored, player, mishap>>

\* Mutant: the step of the skip is twice as long.
SkipDoubles(progressed, current) ==
    IF progressed THEN 0 ELSE current + 2

\* continuationSkip: a run that advanced resets the skip, a stuck one grows it.
continuationSkip(progressed, current) == IF progressed THEN 0 ELSE current + 1

\* Mutant: the worker does not wait for the goroutine's last stitch.
FoldAtOnce ==
    /\ pc = "exited"
    /\ index' = stitchPlaylist(prefix, cont)
    /\ skip' = continuationSkip(cont # <<>>, skip)
    /\ attempt' = attempt + 1
    /\ pc' = IF skip' > MaxSkip THEN "close" ELSE "check"
    /\ UNCHANGED <<defects, endlist, side, reader, stored, player, mishap>>

\* readFileOrNil: a file that cannot be read passes for an empty one.
readFileOrNil(file) == {file} \cup (IF "disk" \in Faults THEN {<<>>} ELSE {})

\* Fold the finished run in, from a second look at cont.m3u8, and decide how far to
\* skip, or to give up.
Fold ==
    /\ pc = "exited" /\ stitcher = "off"
    /\ \E read \in readFileOrNil(cont) :
          /\ index' \in Written(index, stitchPlaylist(prefix, read))
          /\ skip' = continuationSkip(read # <<>>, skip)
          /\ mishap' = IF read = cont THEN mishap ELSE mishap \cup {"reread"}
    /\ cont' = <<>>
    /\ attempt' = attempt + 1
    /\ pc' = IF skip' > MaxSkip THEN "close" ELSE "check"
    /\ UNCHANGED <<defects, endlist, prefix, body, stitcher, reader, stored, player>>

\* A killed run is not extended; what it produced stays stitched.
Abandon ==
    /\ stitcher = "off"
    /\ At("killed", "close")
    /\ UNCHANGED <<defects, playlist, side, reader, loop, stored, player, mishap>>

\* Mutant: the playlist is only terminated when the source's end is reached.
CloseAtEnd ==
    /\ At("close", "done")
    /\ endlist' = ~Short
    /\ UNCHANGED <<defects, index, side, reader, loop, stored, player, mishap>>

\* The deferred close: every exit terminates the playlist.
Close ==
    /\ At("close", "done")
    /\ endlist' \in Written(endlist, TRUE)
    /\ mishap' = IF endlist' THEN mishap ELSE mishap \cup {"disk"}
    /\ UNCHANGED <<defects, index, side, reader, loop, stored, player>>

-----------------------------------------------------------------------------
Stop ==
    /\ "stop" \in Faults
    /\ stored
    /\ stored' = FALSE
    /\ UNCHANGED <<defects, playlist, side, pc, reader, loop, player, mishap>>

\* A player reloads the playlist until it has seen ENDLIST.
Poll ==
    /\ ~latched
    /\ seen' = Len(index)
    /\ latched' = endlist
    /\ player' # player
    /\ UNCHANGED <<defects, playlist, side, pc, reader, loop, stored, mishap>>

Ffmpeg == FirstReads \/ FirstExits \/ FirstKilled \/ RunReads \/ RunExits \/ RunKilled
Stitcher == StitchRead \/ StitchWrite
Worker == Strip \/ StripFails \/ Probe \/ Enough \/ Continue \/ Fold \/ Abandon \/ Close

Next == Ffmpeg \/ Stitcher \/ Worker \/ Stop \/ Poll

Spec == Init /\ [][Next]_vars

\* ffmpeg, the worker and the ticker run on; the player goes on polling.  Once
\* the run is over and the channel closed, the goroutine's select does not
\* choose the ticker for ever.
FairSpec ==
    /\ Spec
    /\ WF_vars(Ffmpeg) /\ WF_vars(Worker) /\ WF_vars(Stitcher) /\ WF_vars(Poll)
    /\ SF_vars(StitchWrite /\ stitcher' = "off")

-----------------------------------------------------------------------------
TypeOK ==
    /\ dead \subseteq stops
    /\ index \in Seq(From .. Length - 1) /\ endlist \in BOOLEAN
    /\ prefix \in Seq(From .. Length - 1) /\ cont \in Seq(From .. Length - 1)
    /\ body \in Seq(From .. Length - 1)
    /\ stitcher \in {"off", "wait", "write"}
    /\ pc \in {"first", "strip", "probe", "check", "run", "exited", "killed",
               "close", "done"}
    /\ attempt \in 1 .. MaxContinuations + 1
    /\ skip \in 0 .. MaxSkip + 1
    /\ seen \in Nat
    /\ mishap \subseteq {"fail", "disk", "reread"}

\* A poll does not take back what an earlier one listed: every rewrite of
\* index.m3u8, by the goroutine or by the fold, extends it - but for one, the fold
\* that could not read cont.m3u8 again, which puts back the list from before that
\* run and so takes away what the goroutine had stitched.
AppendOnly ==
    [][IsPrefix(index, index')
       \/ (pc = "exited" /\ index' = prefix /\ "reread" \in mishap')]_vars

\* Once the worker has stripped ffmpeg's ENDLIST, a playlist that carries one
\* is final: a player that stops polling has missed nothing.
EndlistIsFinal == [][endlist /\ pc # "strip" => UNCHANGED playlist]_vars

\* What the playlist said stays said, up to that fold: it grows, and not after its end.
PlaylistSettles == AppendOnly /\ EndlistIsFinal

\* Skipping gives up the unreadable and nothing else: what lies before a listed
\* position is listed before it, or no seek can read it - unless a continuation
\* failed at a position that could be read, or could not be read back to be folded.
NothingLost ==
    "fail" \in mishap \/ "reread" \in mishap \/
    \A i \in DOMAIN index : \A p \in From .. index[i] - 1 :
        p \in dead \/ \E j \in 1 .. i - 1 : index[j] = p

\* Nothing readable is lost, and the variables have their types.
ContinuationInv == TypeOK /\ NothingLost

\* A player that did not catch the ENDLIST ffmpeg wrote sees all there is and
\* then the end, whatever becomes of the continuations, their stitches and the
\* session, unless the disk refuses the last write.
PlayerEnds ==
    pc = "probe" /\ ~latched ~>
        \/ latched /\ seen = Len(index) /\ pc = "done"
        \/ "disk" \in mishap

\* continuation.go: "the worker transparently restarts ffmpeg from the stall
\* point and stitches the new segments onto the same HLS playlist - the client
\* never sees the seam beyond a single EXT-X-DISCONTINUITY": nothing is played
\* twice.
NoReplay == IsInjective(index)
=============================================================================
