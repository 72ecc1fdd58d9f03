----------------------------- MODULE PostProcess ------------------------------
(***************************************************************************)
(* Post-processing of one recording: its job, and the files that commit    *)
(* moves while the database still names the old one.                       *)
(*                                                                         *)
(*   internal/livetv/dvr_postprocess.go        PostProcessor               *)
(*   internal/db/queries/dvr_postprocess.sql   the job's statements        *)
(*                                                                         *)
(* A file's content is the number of times it was rewritten: 0 is the      *)
(* capture itself.  A step is one file operation or one statement; ffmpeg, *)
(* ffprobe and the commercial detection have an outcome only.              *)
(***************************************************************************)
EXTENDS Integers, FiniteSets

CONSTANTS Path,       \* names a recording may have in the library folder
          Capture,    \* the one ffmpeg captured to
          MaxRuns,    \* bound: jobs run for the recording
          MaxFaults   \* bound: failing file operations and statements (one and
                      \* its undo count once), and crashes

VARIABLES
    job,     \* dvr_postprocess_jobs: kind and status
    at,      \* where the runner is
    opt,     \* the settings the run read
    db,      \* recordings.file_path
    src,     \* the file the run works on
    disk,    \* the content of each library file, or Absent
    kept,    \* contents moved to the originals folder
    temp,    \* content of the run's temporary file, or Absent
    final,   \* where this run puts its result
    runs, faults,
    asked,   \* the admin once let the original be deleted
    torn,    \* commit was cut short, or undone in part only, and the database may
             \* name no file
    lost     \* the end of a run could not be written

ppVars == <<job, at, opt, db, src, disk, kept, temp, final, runs, faults, asked, torn, lost>>

Absent == -1

Init ==
    /\ job = [kind |-> "full", st |-> "none"]
    /\ at = "idle"
    /\ opt = [same |-> FALSE, del |-> FALSE]
    /\ db = Capture /\ src = Capture
    /\ disk = [p \in Path |-> IF p = Capture THEN 0 ELSE Absent]
    /\ kept = {}
    /\ temp = Absent
    /\ final = Capture
    /\ runs = 0 /\ faults = 0
    /\ asked = FALSE /\ torn = FALSE /\ lost = FALSE

Fault == faults < MaxFaults /\ faults' = faults + 1

Go(from, to) == at = from /\ at' = to

\* The temporary files are removed whatever happens.
Fail == at' = "failed" /\ temp' = Absent

\* Where a dead process leaves the database naming a file that was moved.
Exposed ==
    \/ at = "place" /\ ~opt.del
    \/ at = "swap" /\ ~opt.del /\ final # src

-----------------------------------------------------------------------------
(* The queue.                                                              *)

\* QueueAfterCapture and Enqueue.  A job queued or running is left alone; a
\* full run is refused after a full run that ended well.
Enqueue(kind) ==
    /\ runs < MaxRuns
    /\ job.st \notin {"queued", "processing"}
    /\ kind = "full" => ~(job.st = "processed" /\ job.kind = "full")
    /\ job' = [kind |-> kind, st |-> "queued"]
    /\ runs' = runs + 1
    /\ UNCHANGED <<at, opt, db, src, disk, kept, temp, final, faults, asked, torn, lost>>

\* ClaimNextPostProcess; Run drains the queue whenever it wakes.
Claim ==
    /\ Go("idle", "probe")
    /\ job.st = "queued"
    /\ job' = [job EXCEPT !.st = "processing"]
    /\ src' = db
    /\ UNCHANGED <<opt, db, disk, kept, temp, final, runs, faults, asked, torn, lost>>

\* The file is missing or unreadable, or its rewriting or the verification
\* fails: nothing was touched.
ProbeFails ==
    /\ at = "probe"
    /\ Fail
    /\ \/ disk[src] = Absent /\ UNCHANGED faults
       \/ Fault
    /\ UNCHANGED <<job, opt, db, src, disk, kept, final, runs, asked, torn, lost>>

\* processDetect stores markers and touches no file.
Detect ==
    /\ job.kind = "detect" /\ disk[src] # Absent
    /\ Go("probe", "processed")
    /\ UNCHANGED <<job, opt, db, src, disk, kept, temp, final, runs, faults, asked, torn, lost>>

\* processFull: with neither remux nor transcode set, straight to the script.
NothingToRewrite ==
    /\ job.kind = "full" /\ disk[src] # Absent
    /\ Go("probe", "script")
    /\ UNCHANGED <<job, opt, db, src, disk, kept, temp, final, runs, faults, asked, torn, lost>>

\* The name commit picks for the result: uniquePath, unless the container stays
\* the same.
FinalName(o) == IF o.same THEN {src} ELSE {p \in Path : disk[p] = Absent}

\* Rewritten, verified and, if it came to that, cut.
Rewrite(o) ==
    /\ job.kind = "full" /\ disk[src] # Absent
    /\ Go("probe", IF o.del THEN "place" ELSE "aside")
    /\ opt' = o
    /\ asked' = (asked \/ o.del)
    /\ temp' = disk[src] + 1
    /\ final' \in FinalName(o)
    /\ UNCHANGED <<job, db, src, disk, kept, runs, faults, torn, lost>>

-----------------------------------------------------------------------------
(* commit.                                                                 *)

\* The capture moves into the originals folder.
MoveAside ==
    /\ Go("aside", "place")
    /\ kept' = kept \cup {disk[src]}
    /\ disk' = [disk EXCEPT ![src] = Absent]
    /\ UNCHANGED <<job, opt, db, src, temp, final, runs, faults, asked, torn, lost>>

MoveAsideFails ==
    /\ at = "aside"
    /\ Fault
    /\ Fail
    /\ UNCHANGED <<job, opt, db, src, disk, kept, final, runs, asked, torn, lost>>

Place ==
    /\ Go("place", "swap")
    /\ disk' = [disk EXCEPT ![final] = temp]
    /\ temp' = Absent
    /\ UNCHANGED <<job, opt, db, src, kept, final, runs, faults, asked, torn, lost>>

\* restoreOriginal moves the capture back; or cannot, which is only logged.
PlaceFails ==
    /\ at = "place"
    /\ Fault
    /\ Fail
    /\ \/ opt.del /\ UNCHANGED <<disk, kept, torn>>
       \/ /\ ~opt.del
          /\ disk' = [disk EXCEPT ![src] = temp - 1]
          /\ kept' = kept \ {temp - 1}
          /\ UNCHANGED torn
       \/ ~opt.del /\ torn' = TRUE /\ UNCHANGED <<disk, kept>>
    /\ UNCHANGED <<job, opt, db, src, final, runs, asked, lost>>

\* os.Stat of the file just placed fails: nothing is undone.
StatFails ==
    /\ at = "swap"
    /\ Fault
    /\ Fail
    /\ torn' = (torn \/ Exposed)
    /\ UNCHANGED <<job, opt, db, src, disk, kept, final, runs, asked, lost>>

\* SwapRecordingFile, in one transaction.
Swap ==
    /\ Go("swap", IF opt.del /\ final # src THEN "delete" ELSE "script")
    /\ db' = final
    /\ UNCHANGED <<job, opt, src, disk, kept, temp, final, runs, faults, asked, torn, lost>>

\* Mutant: the file operations stay when the transaction fails.
SwapFailsForward ==
    /\ at = "swap"
    /\ Fault
    /\ Fail
    /\ UNCHANGED <<job, opt, db, src, disk, kept, final, runs, asked, torn, lost>>

\* The transaction fails, or landed and its answer was lost.  Over the same name
\* the new file stays, and so does the one set aside; with a new name, the files
\* are moved back, each if its rename succeeds.
SwapFails ==
    LET old == disk[final] - 1
    IN  /\ at = "swap"
        /\ Fault
        /\ Fail
        /\ \/ final = src /\ UNCHANGED <<db, disk, kept, torn>>
           \/ /\ final # src
              /\ \E landed, back, restored \in BOOLEAN :
                    /\ restored => ~opt.del
                    /\ db' = IF landed THEN final ELSE db
                    /\ disk' = [p \in Path |-> IF p = final /\ back THEN Absent
                                              ELSE IF p = src /\ restored THEN old
                                              ELSE disk[p]]
                    /\ kept' = IF restored THEN kept \ {old} ELSE kept
                    /\ torn' = (\/ torn
                                \/ landed /\ back
                                \/ ~landed /\ ~opt.del /\ ~restored)
        /\ UNCHANGED <<job, opt, src, final, runs, asked, lost>>

DeleteOriginal ==
    /\ Go("delete", "script")
    /\ disk' = [disk EXCEPT ![src] = Absent]
    /\ UNCHANGED <<job, opt, db, src, kept, temp, final, runs, faults, asked, torn, lost>>

DeleteFails ==
    /\ Go("delete", "script")
    /\ Fault
    /\ UNCHANGED <<job, opt, db, src, disk, kept, temp, final, runs, asked, torn, lost>>

-----------------------------------------------------------------------------
ScriptRuns ==
    /\ Go("script", "processed")
    /\ UNCHANGED <<job, opt, db, src, disk, kept, temp, final, runs, faults, asked, torn, lost>>

ScriptFails ==
    /\ at = "script"
    /\ Fault
    /\ Fail
    /\ UNCHANGED <<job, opt, db, src, disk, kept, final, runs, asked, torn, lost>>

\* FinishPostProcess; when it fails the job stays 'processing'.
Finish ==
    /\ at \in {"processed", "failed"}
    /\ at' = "idle"
    /\ \/ job' = [job EXCEPT !.st = at] /\ UNCHANGED <<faults, lost>>
       \/ Fault /\ lost' = TRUE /\ UNCHANGED job
    /\ UNCHANGED <<opt, db, src, disk, kept, temp, final, runs, asked, torn>>

\* Mutant: jobs of a dead process are left as they are.
RestartLeaves ==
    /\ Fault
    /\ at' = "idle"
    /\ torn' = (torn \/ Exposed)
    /\ UNCHANGED <<job, opt, db, src, disk, kept, temp, final, runs, asked, lost>>

\* The process dies; the next one runs FailInterruptedPostProcess, whose failure
\* is only logged.  An abandoned temporary file is overwritten by the next run.
Restart ==
    /\ Fault
    /\ at' = "idle"
    /\ torn' = (torn \/ Exposed)
    /\ \/ /\ job' = [job EXCEPT !.st = IF @ = "processing" THEN "failed" ELSE @]
          /\ lost' = FALSE
       \/ job.st = "processing" /\ lost' = TRUE /\ UNCHANGED job
    /\ UNCHANGED <<opt, db, src, disk, kept, temp, final, runs, asked>>

-----------------------------------------------------------------------------
Settings == [same : BOOLEAN, del : BOOLEAN]

Runner ==
    \/ Claim \/ ProbeFails \/ Detect \/ NothingToRewrite
    \/ \E o \in Settings : Rewrite(o)
    \/ MoveAside \/ MoveAsideFails \/ Place \/ PlaceFails
    \/ StatFails \/ Swap \/ SwapFails \/ DeleteOriginal \/ DeleteFails
    \/ ScriptRuns \/ ScriptFails \/ Finish

Next == Runner \/ Restart \/ \E kind \in {"full", "detect"} : Enqueue(kind)

-----------------------------------------------------------------------------
(* Properties.                                                             *)

TypeOK ==
    /\ job \in [kind : {"full", "detect"},
                 st : {"none", "queued", "processing", "processed", "failed"}]
    /\ at \in {"idle", "probe", "aside", "place", "swap", "delete", "script",
               "processed", "failed"}
    /\ opt \in Settings
    /\ {db, src, final} \subseteq Path
    /\ disk \in [Path -> Absent..MaxRuns]
    /\ kept \subseteq 0..MaxRuns
    /\ temp \in Absent..MaxRuns
    /\ runs \in 0..MaxRuns /\ faults \in 0..MaxFaults
    /\ {asked, torn, lost} \subseteq BOOLEAN

\* Whatever fails and wherever the process dies, a complete copy of the
\* recording is on disk, and the capture itself unless its deletion was asked.
CaptureSurvives ==
    /\ kept # {} \/ \E p \in Path : disk[p] # Absent
    /\ asked \/ 0 \in kept \/ \E p \in Path : disk[p] = 0

\* Outside commit the database names a file that is there: a failure that commit
\* undoes puts the names and the files together again.  That is not so when the
\* process died or os.Stat failed while the capture was set aside, when the move
\* that was to bring it back failed, and when the undone transaction had landed.
DatabaseNamesFile ==
    torn \/ at \in {"place", "swap"} \/ disk[db] # Absent

\* A step changes a library file only if the run owns it: the file it was
\* given, or a name nobody used when it was picked.
OwnFilesOnly ==
    [][\A p \in Path : disk[p] # Absent /\ disk'[p] # disk[p] =>
            p = src \/ (p = final /\ at = "swap")]_ppVars

\* A job that was queued ends, and one a dead process left is failed: it stays
\* 'processing' only if FinishPostProcess, or FailInterruptedPostProcess at the
\* start of the process, failed; and then until a process starts that can fail it.
JobsEnd == []<>(job.st \in {"none", "processed", "failed"} \/ lost)

\* Files and database agree: see the parts.
RecordingSafe == TypeOK /\ CaptureSurvives /\ DatabaseNamesFile
=============================================================================
