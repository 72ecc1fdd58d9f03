--------------------------------- MODULE DVR ----------------------------------
(***************************************************************************)
(* The DVR worker: recordings that come due are captured by an ffmpeg of   *)
(* their own, and a finished capture becomes a library item.               *)
(*                                                                         *)
(*   internal/livetv/dvr_worker.go   DVRWorker                             *)
(*   internal/livetv/dvr.go          CancelRecording                       *)
(*   internal/db/queries/dvr.sql     the statements behind DVRQuerier      *)
(*                                                                         *)
(* The worker is one thread; users cancel, programmes end and captures     *)
(* exit while it is between two of its statements.  A step is one          *)
(* statement, with what the worker does on its own until the next one.     *)
(***************************************************************************)
EXTENDS Integers, FiniteSets

CONSTANTS Rec,          \* recordings, all due from the start
          User,         \* the owner of each
          MaxCaptures,  \* maxConcurrentCaptures
          MaxPerUser,   \* maxCapturesPerUser
          MaxErrors,    \* bound: database and tuner errors of a run
          MaxCrashes,   \* bound: restarts of the process
          NoRec

VARIABLES
    row,     \* recordings.status
    over,    \* the recordings whose programme has ended
    file,    \* the capture's file: "none", "part" or "whole"
    cap,     \* its captureSession
    active,  \* w.active
    items,   \* library items created for it
    wk,      \* the worker: phase, what is left of it, the recording in hand
    errors, crashes,
    unsaid   \* recordings whose failure could not be written

dvrVars == <<row, over, file, cap, active, items, wk, errors, crashes, unsaid>>

NoCapture == [up |-> FALSE, ff |-> "none", item |-> FALSE]

Idle == [ph |-> "idle", todo |-> {}, cur |-> NoRec]

Init ==
    /\ row = [r \in Rec |-> "scheduled"]
    /\ over = {}
    /\ file = [r \in Rec |-> "none"]
    /\ cap = [r \in Rec |-> NoCapture]
    /\ active = {}
    /\ items = [r \in Rec |-> 0]
    /\ wk = Idle
    /\ errors = 0
    /\ crashes = 0
    /\ unsaid = {}

Error == errors < MaxErrors /\ errors' = errors + 1

In(ph) == wk.ph = ph

\* The next recording of the list the worker walks.
Take(r, ph) == wk.ph = ph /\ wk.cur = NoRec /\ r \in wk.todo

Drop(r) == wk' = [wk EXCEPT !.todo = @ \ {r}, !.cur = NoRec]

Hold(r, ph) == wk' = [wk EXCEPT !.ph = ph, !.cur = r]

\* Done with r: back to the list of phase ph.
Back(r, ph) == wk' = [ph |-> ph, todo |-> wk.todo \ {r}, cur |-> NoRec]

\* SetRecordingFailed, unguarded; its error is ignored.
SetFailed(r) ==
    \/ row' = [row EXCEPT ![r] = "failed"] /\ UNCHANGED <<errors, unsaid>>
    \/ Error /\ unsaid' = unsaid \cup {r} /\ UNCHANGED row

-----------------------------------------------------------------------------
(* The world: programmes end, users cancel, captures exit.                 *)

ProgrammeEnds(r) ==
    /\ r \notin over
    /\ over' = over \cup {r}
    /\ UNCHANGED <<row, file, cap, active, items, wk, errors, crashes, unsaid>>

\* CancelRecording, whatever the status is.
CancelRecording(r) ==
    /\ row[r] # "cancelled"
    /\ row' = [row EXCEPT ![r] = "cancelled"]
    /\ UNCHANGED <<over, file, cap, active, items, wk, errors, crashes, unsaid>>

\* The end timer closes the upstream, which also may end by itself.
UpstreamEnds(r) ==
    /\ cap[r].up
    /\ cap' = [cap EXCEPT ![r].up = FALSE]
    /\ UNCHANGED <<row, over, file, active, items, wk, errors, crashes, unsaid>>

\* End of input: ffmpeg writes the index and exits with 0.
FFmpegFinishes(r) ==
    /\ cap[r].ff = "run" /\ ~cap[r].up
    /\ cap' = [cap EXCEPT ![r].ff = "ok"]
    /\ file' = [file EXCEPT ![r] = "whole"]
    /\ UNCHANGED <<row, over, active, items, wk, errors, crashes, unsaid>>

\* It crashes, or the deadline's kill ends it.
FFmpegFails(r) ==
    /\ cap[r].ff = "run"
    /\ cap' = [cap EXCEPT ![r].ff = "bad"]
    /\ UNCHANGED <<row, over, file, active, items, wk, errors, crashes, unsaid>>

-----------------------------------------------------------------------------
(* startDueRecordings.                                                     *)

\* ListDueRecordings; on an error this tick starts nothing.
ListDue ==
    /\ In("idle")
    /\ \/ /\ wk' = [Idle EXCEPT !.ph = "start",
                                !.todo = {r \in Rec : row[r] = "scheduled"}]
          /\ UNCHANGED errors
       \/ Error /\ wk' = [Idle EXCEPT !.ph = "start"]
    /\ UNCHANGED <<row, over, file, cap, active, items, crashes, unsaid>>

Full(r) ==
    \/ Cardinality(active) >= MaxCaptures
    \/ Cardinality({s \in active : User[s] = User[r]}) >= MaxPerUser

\* Over a cap the recording waits for the next tick while its programme airs.
Defer(r) ==
    /\ Take(r, "start")
    /\ Full(r) /\ r \notin over
    /\ Drop(r)
    /\ UNCHANGED <<row, over, file, cap, active, items, errors, crashes, unsaid>>

DeferFails(r) ==
    /\ Take(r, "start")
    /\ Full(r) /\ r \in over
    /\ Drop(r)
    /\ SetFailed(r)
    /\ UNCHANGED <<over, file, cap, active, items, crashes>>

\* beginCapture up to SetRecordingStartedFile.  ffmpeg -n does not overwrite:
\* over a file that is left of an earlier attempt it exits at once.
Begin(r) ==
    /\ Take(r, "start")
    /\ ~Full(r)
    /\ Hold(r, "mark")
    /\ cap' = [cap EXCEPT ![r] = [NoCapture EXCEPT
                   !.up = TRUE, !.ff = IF file[r] = "none" THEN "run" ELSE "bad"]]
    /\ file' = [file EXCEPT ![r] = IF @ = "none" THEN "part" ELSE @]
    /\ UNCHANGED <<row, over, active, items, errors, crashes, unsaid>>

\* The tuner, the directory or ffmpeg fails: retried while the programme airs.
BeginFails(r) ==
    /\ Take(r, "start")
    /\ ~Full(r)
    /\ IF r \in over THEN Hold(r, "giveup") ELSE Drop(r)
    /\ Error
    /\ UNCHANGED <<row, over, file, cap, active, items, crashes, unsaid>>

GiveUp(r) ==
    /\ In("giveup") /\ wk.cur = r
    /\ Back(r, "start")
    /\ SetFailed(r)
    /\ UNCHANGED <<over, file, cap, active, items, crashes>>

\* SetRecordingStartedFile, guarded on 'scheduled'.
MarkStarted(r) ==
    /\ In("mark") /\ wk.cur = r
    /\ row[r] = "scheduled"
    /\ row' = [row EXCEPT ![r] = "recording"]
    /\ active' = active \cup {r}
    /\ Back(r, "start")
    /\ UNCHANGED <<over, file, cap, items, errors, crashes, unsaid>>

\* Zero rows: stand down and remove the file.
StandDown(r) ==
    /\ In("mark") /\ wk.cur = r
    /\ row[r] # "scheduled"
    /\ cap' = [cap EXCEPT ![r] = NoCapture]
    /\ file' = [file EXCEPT ![r] = "none"]
    /\ Back(r, "start")
    /\ UNCHANGED <<row, over, active, items, errors, crashes, unsaid>>

\* An error: ffmpeg is killed; what it wrote stays.
MarkErrs(r) ==
    /\ In("mark") /\ wk.cur = r
    /\ Error
    /\ cap' = [cap EXCEPT ![r] = NoCapture]
    /\ IF r \in over THEN Hold(r, "giveup") ELSE Back(r, "start")
    /\ UNCHANGED <<row, over, file, active, items, crashes, unsaid>>

-----------------------------------------------------------------------------
(* reapFinishedCaptures.                                                   *)

ListExited ==
    /\ In("start") /\ wk.cur = NoRec /\ wk.todo = {}
    /\ wk' = [ph |-> "reap", cur |-> NoRec,
              todo |-> {r \in active : cap[r].ff \in {"ok", "bad"}}]
    /\ UNCHANGED <<row, over, file, cap, active, items, errors, crashes, unsaid>>

\* A transient failure: the next tick retries, until the window is over.
Transient(r) ==
    /\ Error
    /\ cap' = [cap EXCEPT ![r].up = FALSE]
    /\ Back(r, "reap") \/ Hold(r, "exhausted")

\* finalize and tryFinalize up to the status gate, the exit code and the size.
\* Without a DVR library the recording completes without an item.
Finalize(r) ==
    /\ Take(r, "reap")
    /\ row[r] = "recording"
    /\ cap' = [cap EXCEPT ![r].up = FALSE]
    /\ \E ph \in IF cap[r].ff = "ok" THEN {"create", "complete", "fail"} ELSE {"fail"} :
          Hold(r, ph)
    /\ UNCHANGED <<row, over, file, active, items, errors, crashes, unsaid>>

Forget(r) == active' = active \ {r} /\ cap' = [cap EXCEPT ![r] = NoCapture]

\* The user moved it out of 'recording': not finalized.
FinalizeSkips(r) ==
    /\ Take(r, "reap")
    /\ row[r] # "recording"
    /\ Forget(r)
    /\ Drop(r)
    /\ UNCHANGED <<row, over, file, items, errors, crashes, unsaid>>

FinalizeErrs(r) ==
    /\ Take(r, "reap")
    /\ Transient(r)
    /\ UNCHANGED <<row, over, file, active, items, crashes, unsaid>>

\* Non-zero exit or empty file, or the retries are exhausted.
FinalizeFails(r) ==
    /\ In("fail") \/ In("exhausted")
    /\ wk.cur = r
    /\ SetFailed(r)
    /\ Forget(r)
    /\ Back(r, "reap")
    /\ UNCHANGED <<over, file, items, crashes>>

\* CreateDVRMediaItem, once per session.
CreateItem(r) ==
    /\ In("create") /\ wk.cur = r
    /\ items' = [items EXCEPT ![r] = IF cap[r].item THEN @ ELSE @ + 1]
    /\ cap' = [cap EXCEPT ![r].item = TRUE]
    /\ Hold(r, "complete")
    /\ UNCHANGED <<row, over, file, active, errors, crashes, unsaid>>

CreateErrs(r) ==
    /\ In("create") /\ wk.cur = r
    /\ Transient(r)
    /\ UNCHANGED <<row, over, file, active, items, crashes, unsaid>>

\* Mutant: one attempt, and the session is forgotten.
CompleteErrsOnce(r) ==
    /\ In("complete") /\ wk.cur = r
    /\ Error
    /\ Forget(r)
    /\ Back(r, "reap")
    /\ UNCHANGED <<row, over, file, items, crashes, unsaid>>

\* markCompleted: SetRecordingCompleted, unguarded.
Complete(r) ==
    /\ In("complete") /\ wk.cur = r
    /\ row' = [row EXCEPT ![r] = "completed"]
    /\ Forget(r)
    /\ Back(r, "reap")
    /\ UNCHANGED <<over, file, items, errors, crashes, unsaid>>

CompleteErrs(r) ==
    /\ In("complete") /\ wk.cur = r
    /\ Transient(r)
    /\ UNCHANGED <<row, over, file, active, items, crashes, unsaid>>

-----------------------------------------------------------------------------
(* honorCancellations, and the process.                                    *)

ListActive ==
    /\ In("reap") /\ wk.cur = NoRec /\ wk.todo = {}
    /\ wk' = [ph |-> "honor", cur |-> NoRec, todo |-> active]
    /\ UNCHANGED <<row, over, file, cap, active, items, errors, crashes, unsaid>>

\* Mutant: cancellations are not honored.
HonorNothing(r) ==
    /\ Take(r, "honor")
    /\ Drop(r)
    /\ UNCHANGED <<row, over, file, cap, active, items, errors, crashes, unsaid>>

Honor(r) ==
    /\ Take(r, "honor")
    /\ Drop(r)
    /\ cap' = [cap EXCEPT ![r].up = @ /\ row[r] = "recording"]
    /\ UNCHANGED <<row, over, file, active, items, errors, crashes, unsaid>>

HonorErrs(r) ==
    /\ Take(r, "honor")
    /\ Error
    /\ Drop(r)
    /\ UNCHANGED <<row, over, file, cap, active, items, crashes, unsaid>>

TickEnds ==
    /\ In("honor") /\ wk.todo = {}
    /\ wk' = Idle
    /\ UNCHANGED <<row, over, file, cap, active, items, errors, crashes, unsaid>>

\* The process ends, by a crash or by shutdownActive; a new one starts with
\* reconcileInterrupted.
Restart ==
    /\ crashes < MaxCrashes /\ crashes' = crashes + 1
    /\ active' = {}
    /\ cap' = [r \in Rec |-> NoCapture]
    /\ LET left == {r \in Rec : row[r] = "recording"}
       IN  \/ /\ wk' = [Idle EXCEPT !.ph = "reconcile", !.todo = left]
              /\ unsaid' = {}
              /\ UNCHANGED errors
           \/ /\ Error
              /\ unsaid' = left
              /\ wk' = Idle
    /\ UNCHANGED <<row, over, file, items>>

Reconcile(r) ==
    /\ Take(r, "reconcile")
    /\ Drop(r)
    /\ SetFailed(r)
    /\ UNCHANGED <<over, file, cap, active, items, crashes>>

ReconcileEnds ==
    /\ In("reconcile") /\ wk.todo = {}
    /\ wk' = Idle
    /\ UNCHANGED <<row, over, file, cap, active, items, errors, crashes, unsaid>>

-----------------------------------------------------------------------------
Tick ==
    \/ ListDue \/ ListExited \/ ListActive \/ TickEnds \/ ReconcileEnds
    \/ \E r \in Rec :
        \/ Defer(r) \/ DeferFails(r) \/ Begin(r) \/ BeginFails(r) \/ GiveUp(r)
        \/ MarkStarted(r) \/ StandDown(r) \/ MarkErrs(r)
        \/ Finalize(r) \/ FinalizeSkips(r) \/ FinalizeErrs(r) \/ FinalizeFails(r)
        \/ CreateItem(r) \/ CreateErrs(r) \/ Complete(r) \/ CompleteErrs(r)
        \/ Honor(r) \/ HonorErrs(r) \/ Reconcile(r)

\* What time brings about while the recording is wanted: the programme ends,
\* the end timer fires 30 seconds later, and ffmpeg finishes the file.  Nothing
\* of this is assumed of a cancelled one, which the worker has to stop.
Ending(r) ==
    /\ row[r] # "cancelled"
    /\ ProgrammeEnds(r) \/ (r \in over /\ UpstreamEnds(r)) \/ FFmpegFinishes(r)

Next ==
    \/ Tick \/ Restart
    \/ \E r \in Rec :
        \/ ProgrammeEnds(r) \/ CancelRecording(r)
        \/ UpstreamEnds(r) \/ FFmpegFinishes(r) \/ FFmpegFails(r)

-----------------------------------------------------------------------------
(* Properties.                                                             *)

TypeOK ==
    /\ row \in [Rec -> {"scheduled", "recording", "completed", "failed", "cancelled"}]
    /\ over \subseteq Rec
    /\ file \in [Rec -> {"none", "part", "whole"}]
    /\ cap \in [Rec -> [up : BOOLEAN, ff : {"none", "run", "ok", "bad"}, item : BOOLEAN]]
    /\ active \subseteq Rec
    /\ items \in [Rec -> Nat]
    /\ wk \in [ph : {"idle", "start", "mark", "giveup", "reap", "create", "complete",
                      "fail", "exhausted", "honor", "reconcile"},
                todo : SUBSET Rec, cur : Rec \cup {NoRec}]
    /\ errors \in 0..MaxErrors /\ crashes \in 0..MaxCrashes
    /\ unsaid \subseteq Rec

\* No capture runs unattended: a tuner is held only for a capture the worker
\* will finalize or is just starting, and never for more than the caps allow.
CapturesAttended ==
    /\ \A r \in Rec : cap[r].up \/ cap[r].ff = "run" =>
                         r \in active \/ (In("mark") /\ wk.cur = r)
    /\ Cardinality(active) <= MaxCaptures
    /\ \A u \in {User[r] : r \in Rec} :
          Cardinality({r \in active : User[r] = u}) <= MaxPerUser

\* A row says 'recording' only while this process captures it or is about to
\* reconcile it, unless the one attempt to write its failure failed.
NothingStranded ==
    \A r \in Rec :
        row[r] = "recording" =>
            r \in active \/ r \in unsaid \/ (In("reconcile") /\ r \in wk.todo)

\* A finalize that is retried, before or after the item was created, files one
\* library item, and only for a capture that ffmpeg ended by itself.
OneItemPerCapture ==
    \A r \in Rec :
        /\ items[r] <= 1
        /\ items[r] = 1 \/ row[r] = "completed" => file[r] = "whole"

\* The worker overwrites a cancellation only when it had read the status before
\* the user cancelled, and then with a final status: a cancelled recording
\* never goes back to 'recording'.
CancelSticks ==
    [][\A r \in Rec :
        row[r] = "cancelled" /\ row'[r] # "cancelled" =>
            /\ r = wk.cur \/ (wk.ph \in {"start", "reconcile"} /\ r \in wk.todo)
            /\ \/ row'[r] = "failed"
               \/ row'[r] = "completed" /\ In("complete")]_dvrVars

\* Every due recording has a final status, or one that could not be written.
Settled ==
    \A r \in Rec : row[r] \in {"completed", "failed", "cancelled"} \/ r \in unsaid

\* Every due recording gets a final status, unless its failure could not be
\* written and no restart follows.
RecordingsEnd == []<>Settled

\* A capture whose recording was cancelled is stopped and its tuner freed.
CancelStopsCapture ==
    []<>(\A r \in Rec : row[r] = "cancelled" => ~cap[r].up)

\* Captures, rows and library items agree: see the parts.
CapturesAccounted ==
    TypeOK /\ CapturesAttended /\ NothingStranded /\ OneItemPerCapture
=============================================================================
