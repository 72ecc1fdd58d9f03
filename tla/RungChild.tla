------------------------------ MODULE RungChild ------------------------------
(***************************************************************************)
(* The life of one ABR rung child: the encoder that serves one rung of an  *)
(* adaptive-bitrate playback.  Segment requests on several API instances   *)
(* start it, restart it at a new offset (a seek) and tear it down, while   *)
(* workers run the ffmpeg processes and wipe their directories.            *)
(*                                                                         *)
(*   internal/api/v1/transcode_abr.go   lockRungChild, ensureRungChild,    *)
(*                                      cleanupRungChildren                *)
(*   internal/api/v1/transcode.go       Stop, tearDown                     *)
(*   internal/transcode/session.go      Create, Delete, DeleteByMedia,     *)
(*                                      SetWorkerInfo                      *)
(*   internal/transcode/worker.go       runJob, watchdogVerdict,           *)
(*                                      wipeSessionDir, KillSession        *)
(*                                                                         *)
(* There is one parent session and one child session ID.  A restart reuses *)
(* the ID under a new incarnation number; the incarnation names the        *)
(* segment directory on a worker's disk (SessionDirName).  Each element    *)
(* of Req is one call of ensureRungChild and the job that call dispatches. *)
(* Every store operation is a step of its own.                             *)
(***************************************************************************)
EXTENDS Integers

CONSTANTS Req,       \* calls of ensureRungChild
          Inst,      \* API instances
          InstOf,    \* the instance a call runs on
          Worker,    \* transcode workers, each with a disk of its own
          Embedded,  \* the worker embedded in an instance (h.killer), or NoWorker
          TdInst,    \* the instance that handles the Stop or the beacon
          Faults,    \* which faults may happen, see FaultKinds
          Teardowns, \* how the parent may end: "stop", "beacon"
          MaxReruns, \* fallback runs of ffmpeg within one job
          NoReq, NoWorker

\* "cancel": the client of a call disconnects and its context is cancelled.
\* "valkey": Valkey answers the lock or the read of the child with an error.
\* "lease":  a holder stalls for longer than the lease's TTL and loses it.
\* "setup":  a job fails before its ffmpeg runs.
FaultKinds == {"cancel", "valkey", "lease", "setup"}

ASSUME RungAssumption ==
    /\ InstOf \in [Req -> Inst]
    /\ Embedded \in [Inst -> Worker \cup {NoWorker}]
    /\ TdInst \in Inst
    /\ Faults \subseteq FaultKinds
    /\ Teardowns \subseteq {"stop", "beacon"}
    /\ MaxReruns \in Nat
    /\ NoReq \notin Req
    /\ NoWorker \notin Worker

VARIABLES
    parent,     \* the parent session is in the store
    child,      \* incarnation of the child session in the store, or Absent
    addr,       \* its WorkerAddr
    mu,         \* holder of each instance's in-process mutex (abrChildLocks)
    lease,      \* holder of the Valkey lease on the child
    pc,         \* where each call is
    seen,       \* the incarnation each call read (the local variable child)
    inc,        \* the incarnation each call starts: its session's and its job's
    cancelled,  \* the call's context has been cancelled
    job,        \* the job each call dispatched
    dirs,       \* incarnations whose directory exists, per worker
    td,         \* where the teardown of the parent is
    tdInc,      \* directory the teardown remembered (cleanupRungChildren's dir)
    tdSnap      \* sessions the beacon's DeleteByMedia found and has yet to delete

vars == <<parent, child, addr, mu, lease, pc, seen, inc, cancelled, job, dirs,
          td, tdInc, tdSnap>>

store   == <<parent, child, addr>>
calls   == <<pc, seen, inc, cancelled>>
locks   == <<mu, lease>>
disks   == <<job, dirs>>
teardown == <<td, tdInc, tdSnap>>

Absent == -1

JobState == {"none", "queued", "starting", "running", "failed", "wiping", "done",
             "aborted"}
CallState == {"idle", "mutex", "lease", "read", "kill", "delete", "rmdir",
              "create", "guard", "undo", "dispatch", "unlock", "done"}
TdState == {"idle", "read", "kill", "child", "parent", "rm", "beacon", "done"}

NewJob(s, w) == [st |-> s, w |-> w, produced |-> FALSE, killed |-> FALSE,
                 reruns |-> 0]
NoJob == NewJob("none", NoWorker)

Init ==
    /\ parent = TRUE
    /\ child = Absent
    /\ addr = NoWorker
    /\ mu = [i \in Inst |-> NoReq]
    /\ lease = NoReq
    /\ pc = [r \in Req |-> "idle"]
    /\ seen = [r \in Req |-> Absent]
    /\ inc = [r \in Req |-> 0]
    /\ cancelled = [r \in Req |-> FALSE]
    /\ job = [r \in Req |-> NoJob]
    /\ dirs = [w \in Worker |-> {}]
    /\ td = "idle"
    /\ tdInc = 0
    /\ tdSnap = {}

-----------------------------------------------------------------------------
(* The calls of ensureRungChild.                                           *)

At(r, from, to) == pc[r] = from /\ pc' = [pc EXCEPT ![r] = to]

\* ABRVariantSegment read the parent before it calls ensureRungChild.
Begin(r) ==
    /\ parent
    /\ At(r, "idle", "mutex")
    /\ UNCHANGED <<store, locks, seen, inc, cancelled, disks, teardown>>

TakeMutex(r) ==
    /\ mu[InstOf[r]] = NoReq
    /\ mu' = [mu EXCEPT ![InstOf[r]] = r]
    /\ At(r, "mutex", "lease")
    /\ UNCHANGED <<store, lease, seen, inc, cancelled, disks, teardown>>

TakeLease(r) ==
    /\ ~cancelled[r]
    /\ lease = NoReq
    /\ lease' = r
    /\ At(r, "lease", "read")
    /\ UNCHANGED <<store, mu, seen, inc, cancelled, disks, teardown>>

\* Unlocking a mutex that cleanup dropped from the map frees nobody else's.
FreeMutex(r) ==
    mu' = [mu EXCEPT ![InstOf[r]] = IF @ = r THEN NoReq ELSE @]

\* The wait budget ran out, or the context ended: the caller starts nothing.
LeaseRefused(r) ==
    /\ lease # NoReq \/ cancelled[r]
    /\ At(r, "lease", "done")
    /\ FreeMutex(r)
    /\ UNCHANGED <<store, lease, seen, inc, cancelled, disks, teardown>>

\* Mutant: the error path unlocks the mutex and goes on.
FailsOpenUnlocked(r) ==
    /\ "valkey" \in Faults
    /\ ~cancelled[r]
    /\ At(r, "lease", "read")
    /\ FreeMutex(r)
    /\ UNCHANGED <<store, lease, seen, inc, cancelled, disks, teardown>>

\* Any other Valkey error fails open to the in-process mutex alone.
LeaseFailsOpen(r) ==
    /\ "valkey" \in Faults
    /\ ~cancelled[r]
    /\ At(r, "lease", "read")
    /\ UNCHANGED <<store, locks, seen, inc, cancelled, disks, teardown>>

\* The child exists and covers the segment, or a forced restart is inside the
\* restart floor: nothing to do.
KeepChild(r) ==
    /\ ~cancelled[r]
    /\ child # Absent
    /\ At(r, "read", "unlock")
    /\ UNCHANGED <<store, locks, seen, inc, cancelled, disks, teardown>>

\* Mutant: a restart keeps the incarnation.
RestartSameIncarnation(r) ==
    /\ ~cancelled[r]
    /\ child # Absent
    /\ At(r, "read", "kill")
    /\ seen' = [seen EXCEPT ![r] = child]
    /\ inc' = [inc EXCEPT ![r] = child]
    /\ UNCHANGED <<store, locks, cancelled, disks, teardown>>

\* The child exists but does not reach the segment: restart it.
RestartChild(r) ==
    /\ ~cancelled[r]
    /\ child # Absent
    /\ At(r, "read", "kill")
    /\ seen' = [seen EXCEPT ![r] = child]
    /\ inc' = [inc EXCEPT ![r] = child + 1]
    /\ UNCHANGED <<store, locks, cancelled, disks, teardown>>

\* No child - or the read failed, and the code takes the error for "no child".
FirstChild(r) ==
    /\ child = Absent \/ cancelled[r] \/ "valkey" \in Faults
    /\ At(r, "read", "create")
    /\ inc' = [inc EXCEPT ![r] = 0]
    /\ UNCHANGED <<store, locks, seen, cancelled, disks, teardown>>

\* KillSession signals every registered ffmpeg of the session on one worker,
\* all incarnations.  cmd.Wait reports the signal as an error exit.
KillSession(w) ==
    job' = [r \in Req |->
              IF job[r].w = w /\ job[r].st = "running"
              THEN [job[r] EXCEPT !.st = "failed", !.killed = TRUE]
              ELSE job[r]]

KillOld(r) ==
    /\ At(r, "kill", "delete")
    /\ KillSession(Embedded[InstOf[r]])
    /\ UNCHANGED <<store, locks, seen, inc, cancelled, dirs, teardown>>

\* Delete's error is ignored: with a cancelled context nothing is deleted.
DeleteOld(r) ==
    /\ At(r, "delete", "rmdir")
    /\ IF cancelled[r]
       THEN UNCHANGED <<child, addr>>
       ELSE child' = Absent /\ addr' = NoWorker
    /\ UNCHANGED <<parent, locks, seen, inc, cancelled, disks, teardown>>

\* Mutant: the directory is named by the session alone.
RemoveAllIncarnations(w, i) ==
    dirs' = [v \in Worker |-> IF v = w THEN {} ELSE dirs[v]]

RemoveDir(w, i) ==
    dirs' = [v \in Worker |-> IF v = w THEN dirs[v] \ {i} ELSE dirs[v]]

RemoveOldDir(r) ==
    /\ At(r, "rmdir", "create")
    /\ RemoveDir(Embedded[InstOf[r]], seen[r])
    /\ UNCHANGED <<store, locks, seen, inc, cancelled, job, teardown>>

CreateChild(r) ==
    /\ IF cancelled[r]
       THEN At(r, "create", "unlock") /\ UNCHANGED <<child, addr>>
       ELSE At(r, "create", "guard") /\ child' = inc[r] /\ addr' = NoWorker
    /\ UNCHANGED <<parent, locks, seen, inc, cancelled, disks, teardown>>

\* The resurrection guard: is the parent still in the store?
CheckParent(r) ==
    /\ IF parent /\ ~cancelled[r]
       THEN At(r, "guard", "dispatch")
       ELSE At(r, "guard", "undo")
    /\ UNCHANGED <<store, locks, seen, inc, cancelled, disks, teardown>>

UndoChild(r) ==
    /\ At(r, "undo", "unlock")
    /\ IF cancelled[r]
       THEN UNCHANGED <<child, addr>>
       ELSE child' = Absent /\ addr' = NoWorker
    /\ UNCHANGED <<parent, locks, seen, inc, cancelled, disks, teardown>>

DispatchJob(r) ==
    /\ ~cancelled[r]
    /\ At(r, "dispatch", "unlock")
    /\ \E w \in Worker :
          job' = [job EXCEPT ![r] = NewJob("queued", w)]
    /\ UNCHANGED <<store, locks, seen, inc, cancelled, dirs, teardown>>

\* No capable worker, or the push failed: logged, the session stays.
DispatchFails(r) ==
    /\ At(r, "dispatch", "unlock")
    /\ UNCHANGED <<store, locks, seen, inc, cancelled, disks, teardown>>

\* Mutant: the deferred unlock forgets the mutex.
UnlockLeaseOnly(r) ==
    /\ At(r, "unlock", "done")
    /\ lease' = IF lease = r THEN NoReq ELSE lease
    /\ UNCHANGED <<store, mu, seen, inc, cancelled, disks, teardown>>

\* The deferred unlock: compare-and-delete of the lease, then the mutex.
Unlock(r) ==
    /\ At(r, "unlock", "done")
    /\ lease' = IF lease = r THEN NoReq ELSE lease
    /\ FreeMutex(r)
    /\ UNCHANGED <<store, seen, inc, cancelled, disks, teardown>>

Cancel(r) ==
    /\ "cancel" \in Faults
    /\ pc[r] \notin {"idle", "unlock", "done"}
    /\ ~cancelled[r]
    /\ cancelled' = [cancelled EXCEPT ![r] = TRUE]
    /\ UNCHANGED <<store, locks, pc, seen, inc, disks, teardown>>

LoseLease(r) ==
    /\ "lease" \in Faults
    /\ lease = r
    /\ lease' = NoReq
    /\ UNCHANGED <<store, mu, calls, disks, teardown>>

Call(r) ==
    \/ TakeMutex(r) \/ TakeLease(r) \/ LeaseRefused(r) \/ LeaseFailsOpen(r)
    \/ KeepChild(r) \/ RestartChild(r) \/ FirstChild(r)
    \/ KillOld(r) \/ DeleteOld(r) \/ RemoveOldDir(r) \/ CreateChild(r)
    \/ CheckParent(r) \/ UndoChild(r) \/ DispatchJob(r) \/ DispatchFails(r)
    \/ Unlock(r)

-----------------------------------------------------------------------------
(* The worker's run of the job call r dispatched.                          *)

SetJob(r, from, to) ==
    job[r].st = from /\ job' = [job EXCEPT ![r].st = to]

\* Dequeue, MkdirAll, cmd.Start.  Nothing looks at the session first.
StartJob(r) ==
    /\ SetJob(r, "queued", "starting")
    /\ dirs' = [dirs EXCEPT ![job[r].w] = @ \cup {inc[r]}]
    /\ UNCHANGED <<store, locks, calls, teardown>>

\* The directory cannot be made, or a part of a stacked movie is missing, or no
\* tone-map fits: runJob returns, and what it made stays on disk.
SetupFails(r) ==
    /\ "setup" \in Faults
    /\ SetJob(r, "queued", "aborted")
    /\ \/ UNCHANGED dirs
       \/ dirs' = [dirs EXCEPT ![job[r].w] = @ \cup {inc[r]}]
    /\ UNCHANGED <<store, locks, calls, teardown>>

\* cmd.Start fails, which counts as an error exit.
SpawnFails(r) ==
    /\ "setup" \in Faults
    /\ SetJob(r, "starting", "failed")
    /\ UNCHANGED <<store, locks, calls, dirs, teardown>>

\* SetWorkerInfo stamps whatever incarnation the store holds now; then the
\* process is registered in activeJobs, where KillSession can find it.
StampJob(r) ==
    /\ SetJob(r, "starting", "running")
    /\ addr' = IF child = Absent THEN addr ELSE job[r].w
    /\ UNCHANGED <<parent, child, locks, calls, dirs, teardown>>

\* Nobody asks for segments once no rerun is left, so they are not counted then.
ProduceSegment(r) ==
    /\ job[r].st = "running"
    /\ ~job[r].produced
    /\ job[r].reruns < MaxReruns
    /\ job' = [job EXCEPT ![r].produced = TRUE]
    /\ UNCHANGED <<store, locks, calls, dirs, teardown>>

FfmpegFails(r) ==
    /\ SetJob(r, "running", "failed")
    /\ UNCHANGED <<store, locks, calls, dirs, teardown>>

FfmpegCompletes(r) ==
    /\ SetJob(r, "running", "wiping")
    /\ UNCHANGED <<store, locks, calls, dirs, teardown>>

\* Hardware-decode fallback and encoder fail-over: an error exit with no
\* segment on disk clears the directory and runs ffmpeg again.
Rerun(r) ==
    /\ job[r].st = "failed"
    /\ ~job[r].produced
    /\ job[r].reruns < MaxReruns
    /\ job' = [job EXCEPT ![r] = [job[r] EXCEPT !.st = "starting", !.reruns = @ + 1]]
    /\ dirs' = [dirs EXCEPT ![job[r].w] = @ \cup {inc[r]}]
    /\ UNCHANGED <<store, locks, calls, teardown>>

\* Dead-chroma retry: the first segment came out green, so the run is killed,
\* its directory cleared and ffmpeg run again in software.
ChromaRetry(r) ==
    /\ job[r].st = "running"
    /\ child = inc[r]
    /\ job[r].produced
    /\ job[r].reruns < MaxReruns
    /\ job' = [job EXCEPT ![r] = [job[r] EXCEPT !.st = "starting", !.produced = FALSE,
                                                !.reruns = @ + 1]]
    /\ dirs' = [dirs EXCEPT ![job[r].w] = @ \cup {inc[r]}]
    /\ UNCHANGED <<store, locks, calls, teardown>>

GiveUp(r) ==
    /\ SetJob(r, "failed", "wiping")
    /\ UNCHANGED <<store, locks, calls, dirs, teardown>>

\* Mutant: the watchdog only looks whether the session exists.
KillsWhenGone(r) ==
    /\ child = Absent
    /\ SetJob(r, "running", "wiping")
    /\ UNCHANGED <<store, locks, calls, dirs, teardown>>

\* Mutant: the watchdog takes a missing session for a transient error.
KillsWhenMoved(r) ==
    /\ child # Absent /\ child # inc[r]
    /\ SetJob(r, "running", "wiping")
    /\ UNCHANGED <<store, locks, calls, dirs, teardown>>

\* watchdogVerdict: the session is gone, or restarted under another incarnation.
WatchdogKills(r) ==
    /\ child # inc[r]
    /\ SetJob(r, "running", "wiping")
    /\ UNCHANGED <<store, locks, calls, dirs, teardown>>

\* watchdogVerdict: no segment was fetched for idleKillThreshold.
IdleKills(r) ==
    /\ child = inc[r]
    /\ \A q \in Req : pc[q] \in {"idle", "done"}
    /\ SetJob(r, "running", "wiping")
    /\ UNCHANGED <<store, locks, calls, dirs, teardown>>

\* wipeSessionDir after its delay: the session is gone or has moved on, or
\* sessionDirWipeMaxWait has passed.
WipeDir(r) ==
    /\ SetJob(r, "wiping", "done")
    /\ RemoveDir(job[r].w, inc[r])
    /\ UNCHANGED <<store, locks, calls, teardown>>

sweepOrphanedSessions(w) == dirs' = [dirs EXCEPT ![w] = {}]

\* A worker dies and starts again: its ffmpegs are gone, its queue is in
\* Valkey, and sweepOrphanedSessions empties its disk.
WorkerRestart(w) ==
    /\ \E r \in Req : job[r].w = w /\ job[r].st \notin {"queued", "done"}
    /\ job' = [r \in Req |-> IF job[r].w = w /\ job[r].st # "queued"
                             THEN [job[r] EXCEPT !.st = "done"]
                             ELSE job[r]]
    /\ sweepOrphanedSessions(w)
    /\ UNCHANGED <<store, locks, calls, teardown>>

Run(r) ==
    \/ StartJob(r) \/ StampJob(r) \/ Rerun(r) \/ GiveUp(r)
    \/ WatchdogKills(r) \/ IdleKills(r) \/ WipeDir(r)

-----------------------------------------------------------------------------
(* Teardown of the parent: Stop (or a supersede), or the progress beacon.   *)

Td(from, to) == td = from /\ td' = to

StopParent ==
    /\ "stop" \in Teardowns
    /\ parent
    /\ Td("idle", "read")
    /\ UNCHANGED <<store, locks, calls, disks, tdInc, tdSnap>>

\* cleanupRungChildren, for the one rung.
CleanupRead ==
    /\ Td("read", "kill")
    /\ tdInc' = IF child = Absent THEN 0 ELSE child
    /\ UNCHANGED <<store, locks, calls, disks, tdSnap>>

CleanupKill ==
    /\ Td("kill", "child")
    /\ KillSession(Embedded[TdInst])
    /\ UNCHANGED <<store, locks, calls, dirs, tdInc, tdSnap>>

\* Delete the child, then abrChildLocks.Delete: the next call on this instance
\* makes a new mutex even if a holder is still inside the old one.
CleanupChild ==
    /\ Td("child", "parent")
    /\ child' = Absent
    /\ addr' = NoWorker
    /\ mu' = [mu EXCEPT ![TdInst] = NoReq]
    /\ UNCHANGED <<parent, lease, calls, disks, tdInc, tdSnap>>

DeleteParent ==
    /\ Td("parent", "rm")
    /\ parent' = FALSE
    /\ UNCHANGED <<child, addr, locks, calls, disks, tdInc, tdSnap>>

DelayedRemove ==
    /\ Td("rm", "done")
    /\ RemoveDir(Embedded[TdInst], tdInc)
    /\ UNCHANGED <<store, locks, calls, job, tdInc, tdSnap>>

\* DeleteByMedia reads every session first and deletes the matches one by one.
BeaconSnapshot ==
    /\ "beacon" \in Teardowns
    /\ parent
    /\ Td("idle", "beacon")
    /\ tdSnap' = {"parent"} \cup (IF child = Absent THEN {} ELSE {"child"})
    /\ UNCHANGED <<store, locks, calls, disks, tdInc>>

BeaconDelete(s) ==
    /\ td = "beacon"
    /\ s \in tdSnap
    /\ tdSnap' = tdSnap \ {s}
    /\ parent' = (parent /\ s # "parent")
    /\ child' = IF s = "child" THEN Absent ELSE child
    /\ addr' = IF s = "child" THEN NoWorker ELSE addr
    /\ UNCHANGED <<locks, calls, disks, td, tdInc>>

\* releaseABRChildLocks.
BeaconRelease ==
    /\ tdSnap = {}
    /\ Td("beacon", "done")
    /\ mu' = [mu EXCEPT ![TdInst] = NoReq]
    /\ UNCHANGED <<store, lease, calls, disks, tdInc, tdSnap>>

Cleanup ==
    \/ CleanupRead \/ CleanupKill \/ CleanupChild \/ DeleteParent
    \/ DelayedRemove \/ BeaconRelease
    \/ \E s \in {"parent", "child"} : BeaconDelete(s)

-----------------------------------------------------------------------------
Next ==
    \/ \E r \in Req : \/ Begin(r) \/ Call(r) \/ Cancel(r) \/ LoseLease(r)
                      \/ Run(r)
                      \/ ProduceSegment(r) \/ FfmpegFails(r) \/ FfmpegCompletes(r)
                      \/ ChromaRetry(r) \/ SetupFails(r) \/ SpawnFails(r)
    \/ \E w \in Worker : WorkerRestart(w)
    \/ StopParent \/ BeaconSnapshot \/ Cleanup

Spec == Init /\ [][Next]_vars

\* A call that has begun keeps running, a worker keeps serving its queue and
\* its watchdog, a teardown that has begun completes.  Whether clients ask for
\* segments or stop, and whether ffmpeg ends by itself, is left open.
Fairness ==
    /\ \A r \in Req : WF_vars(Call(r)) /\ WF_vars(Run(r))
    /\ WF_vars(Cleanup)

FairSpec == Spec /\ Fairness

-----------------------------------------------------------------------------
(* Properties.                                                             *)

Job == [st : JobState, w : Worker \cup {NoWorker}, produced : BOOLEAN,
        killed : BOOLEAN, reruns : 0..MaxReruns]

\* Every variable keeps its type; exactly the dispatched jobs have a worker.
TypeOK ==
    /\ parent \in BOOLEAN
    /\ child \in Nat \cup {Absent}
    /\ addr \in Worker \cup {NoWorker}
    /\ mu \in [Inst -> Req \cup {NoReq}]
    /\ lease \in Req \cup {NoReq}
    /\ pc \in [Req -> CallState]
    /\ seen \in [Req -> Nat \cup {Absent}]
    /\ inc \in [Req -> Nat]
    /\ cancelled \in [Req -> BOOLEAN]
    /\ job \in [Req -> Job]
    /\ dirs \in [Worker -> SUBSET Nat]
    /\ td \in TdState
    /\ tdInc \in Nat
    /\ tdSnap \in SUBSET {"parent", "child"}
    /\ \A r \in Req : job[r].st # "none" <=> job[r].w \in Worker

Dispatched(r) == job[r].st # "none"
Encoding(r) == job[r].st \in {"starting", "running"}

\* While nobody tears the parent down, no two jobs of the rung share an
\* incarnation, so no two ffmpegs share a directory.  ensureRungChild relies
\* on it for everything the watchdog and the deferred wipe decide.
UniqueIncarnation ==
    td = "idle" =>
        \A r, q \in Req :
            r # q /\ Dispatched(r) /\ Dispatched(q) => inc[r] # inc[q]

\* While nobody tears the parent down, the encoder of the session's current
\* incarnation has its directory: neither the immediate RemoveAll of a restart
\* nor a deferred wipe ever removes the live run's segments.
LiveEncoderHasDir ==
    td = "idle" =>
        \A r \in Req :
            Encoding(r) /\ inc[r] = child => inc[r] \in dirs[job[r].w]

InSection(r) ==
    pc[r] \in {"read", "kill", "delete", "rmdir", "create", "guard", "undo",
               "dispatch"}

\* lockRungChild fails open to the in-process mutex, and that mutex still
\* works: until a teardown drops it from the map, two calls on one instance
\* are never both between the read of the child and the dispatch, whatever
\* Valkey, the lease or the clients do.
InProcessExclusion ==
    td = "idle" =>
        \A r, q \in Req :
            r # q /\ InSection(r) /\ InSection(q) => InstOf[r] # InstOf[q]

\* An encoder whose session was restarted or deleted is shot by the watchdog,
\* even where no KillSession reaches it: on a remote worker, or before its
\* process was registered.
SupersededEncoderDies ==
    \A r \in Req :
        (Encoding(r) /\ inc[r] # child) ~> (~Encoding(r) \/ inc[r] = child)

\* The directory a job left that failed before its ffmpeg ran.
LeftByAbort(w, i) ==
    \E r \in Req : job[r].st = "aborted" /\ job[r].w = w /\ inc[r] = i

\* Once the parent is gone every encoder ends and every directory is reclaimed
\* for good, whatever the order of the teardown and the restarts in flight -
\* but for those of jobs that failed before their ffmpeg ran, which only the
\* worker's next start sweeps.
TeardownReclaims ==
    ~parent ~> [](/\ \A r \in Req : job[r].st \in {"none", "done", "aborted"}
                  /\ \A w \in Worker : \A i \in dirs[w] : LeftByAbort(w, i))

\* A call of ensureRungChild always returns: the mutex and the lease, taken in
\* this order by everybody and dropped by cleanup, never block it for ever.
CallsReturn == \A r \in Req : pc[r] # "idle" ~> pc[r] = "done"

-----------------------------------------------------------------------------
(* The inductive strengthening of the invariants above.                    *)

HoldsMutex(r) == pc[r] = "lease" \/ InSection(r) \/ pc[r] = "unlock"

\* Whoever is past Lock holds the mutex of its instance.
MutexInv == td = "idle" => \A r \in Req : HoldsMutex(r) => mu[InstOf[r]] = r

\* Without faults whoever is past lockRungChild holds the lease, and nobody's
\* context ends.
LeaseInv ==
    \A r \in Req : /\ ~cancelled[r]
                   /\ InSection(r) \/ pc[r] = "unlock" => lease = r

\* A call dispatches once, at the end of its section.
DispatchedLate == \A r \in Req : Dispatched(r) => pc[r] \in {"unlock", "done"}

AllBelow(i) == \A q \in Req : Dispatched(q) => inc[q] < i

\* How far the incarnations of dispatched jobs reach, by where the holder of
\* the lock is: a restart's number is above all of them from the moment the old
\* session is deleted until its own job is dispatched.
IncarnationInv ==
    td = "idle" =>
        /\ parent
        /\ child = Absent =>
              \/ \A q \in Req : ~Dispatched(q)
              \/ \E r \in Req : pc[r] \in {"rmdir", "create"}
        /\ child # Absent => AllBelow(child + 1)
        /\ \A r \in Req :
              /\ pc[r] \in {"kill", "delete"} => child # Absent /\ inc[r] = child + 1
              /\ pc[r] \in {"rmdir", "create"} => child = Absent /\ AllBelow(inc[r])
              /\ pc[r] \in {"guard", "dispatch"} => child = inc[r] /\ AllBelow(inc[r])
              /\ pc[r] # "undo"

\* The inductive invariant behind UniqueIncarnation and LiveEncoderHasDir.
RestartInv ==
    /\ LeaseInv
    /\ DispatchedLate
    /\ IncarnationInv
    /\ UniqueIncarnation
    /\ LiveEncoderHasDir

-----------------------------------------------------------------------------
(* What comments in the code say and the code does not do.                 *)

\* transcode_abr.go, resurrection guard: "either cleanup saw our child and
\* killed it, or we see the parent gone and undo ourselves".  After both have
\* finished no child session may be left without a parent.
NoOrphanChild ==
    (td = "done" /\ ~parent /\ \A r \in Req : pc[r] \in {"idle", "done"})
        => child = Absent

\* transcode_abr.go: "nothing the dying run does can touch the replacement's
\* files" and "the incarnation scheme keeps a duplicate's files apart": two
\* running encoders never write the same directory of one worker.
FilesApart ==
    td = "idle" =>
        \A r, q \in Req :
            r # q /\ Encoding(r) /\ Encoding(q) /\ job[r].w = job[q].w
                => inc[r] # inc[q]

\* session.go, SetWorkerInfo: "The API uses WorkerAddr to proxy segment
\* requests to the correct worker": the stamped worker is one that was given
\* the session's current incarnation.
StampedByOwner ==
    child # Absent /\ addr # NoWorker =>
        \E r \in Req : Dispatched(r) /\ job[r].w = addr /\ inc[r] = child

\* worker.go, encoder fail-over: "a stopped session never triggers fail-over":
\* a run that KillSession ended is not started again.
KilledStaysDown ==
    [][\A r \in Req : job[r].killed => ~(~Encoding(r) /\ Encoding(r)')]_vars
=============================================================================
