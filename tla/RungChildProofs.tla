--------------------------- MODULE RungChildProofs ---------------------------
(* Proofs about RungChild, for any number of calls, instances and workers.  *)
EXTENDS RungChild, TLAPS

\* One step of Next, split into the actors it belongs to.
CallStep(r) == Begin(r) \/ Call(r) \/ Cancel(r) \/ LoseLease(r)
RunStep(r) == \/ Run(r) \/ ProduceSegment(r) \/ FfmpegFails(r) \/ FfmpegCompletes(r)
              \/ ChromaRetry(r) \/ SetupFails(r) \/ SpawnFails(r)
TdStep == StopParent \/ BeaconSnapshot \/ Cleanup

LEMMA NextSplit ==
    Next <=> \/ \E r \in Req : CallStep(r) \/ RunStep(r)
             \/ \E w \in Worker : WorkerRestart(w)
             \/ TdStep
BY DEF Next, CallStep, RunStep, TdStep

LEMMA JobKilled ==
    ASSUME NEW j \in Job PROVE [j EXCEPT !.st = "failed", !.killed = TRUE] \in Job
BY Zenon DEF Job, JobState

LEMMA JobProduced ==
    ASSUME NEW j \in Job PROVE [j EXCEPT !.produced = TRUE] \in Job
BY Zenon DEF Job

LEMMA JobRetried ==
    ASSUME NEW j \in Job, j.reruns + 1 \in 0..MaxReruns
    PROVE  [j EXCEPT !.st = "starting", !.produced = FALSE, !.reruns = @ + 1] \in Job
<1>1. "starting" \in JobState BY DEF JobState
<1> QED BY <1>1, Zenon DEF Job

LEMMA JobRerun ==
    ASSUME NEW j \in Job, j.reruns + 1 \in 0..MaxReruns
    PROVE  [j EXCEPT !.st = "starting", !.reruns = @ + 1] \in Job
<1>1. "starting" \in JobState BY DEF JobState
<1> QED BY <1>1, Zenon DEF Job

LEMMA JobQueued ==
    ASSUME NEW w \in Worker PROVE NewJob("queued", w) \in Job
BY RungAssumption DEF Job, JobState, NewJob

\* What KillSession leaves alone: a job's worker, and the state of every job
\* that is not running.
Killed(r) ==
    /\ job'[r].w = job[r].w
    /\ job'[r].st # job[r].st => job[r].st = "running" /\ job'[r].st = "failed"

LEMMA KillType ==
    ASSUME job \in [Req -> Job], NEW w, KillSession(w)
    PROVE  job' \in [Req -> Job] /\ \A r \in Req : Killed(r)
<1>1. job' \in [Req -> Job] BY JobKilled DEF KillSession
<1>2. ASSUME NEW r \in Req PROVE Killed(r)
  <2>1. CASE job[r].w = w /\ job[r].st = "running"
    <3>1. job[r] \in Job OBVIOUS
    <3>2. job'[r] = [job[r] EXCEPT !.st = "failed", !.killed = TRUE]
          BY <2>1 DEF KillSession
    <3>3. job'[r].w = job[r].w /\ job'[r].st = "failed" BY <3>1, <3>2 DEF Job
    <3> QED BY <2>1, <3>3 DEF Killed
  <2>2. CASE ~(job[r].w = w /\ job[r].st = "running")
    BY <2>2 DEF KillSession, Killed
  <2> QED BY <2>1, <2>2
<1> QED BY <1>1, <1>2

LEMMA TypeInit == Init => TypeOK
BY RungAssumption DEF Init, TypeOK, Job, NoJob, NewJob, JobState, CallState, TdState, Absent

LEMMA TypeNext == TypeOK /\ [Next]_vars => TypeOK'
<1> SUFFICES ASSUME TypeOK, [Next]_vars PROVE TypeOK'
    OBVIOUS
<1> USE RungAssumption DEF TypeOK, store, calls, locks, disks, teardown
<1>1. ASSUME NEW r \in Req, CallStep(r) PROVE TypeOK'
  <2> USE <1>1 DEF At, CallState, Absent
  <2>1. CASE Begin(r) BY <2>1 DEF Begin
  <2>2. CASE TakeMutex(r) BY <2>2 DEF TakeMutex
  <2>3. CASE TakeLease(r) BY <2>3 DEF TakeLease
  <2>4. CASE LeaseRefused(r) BY <2>4 DEF LeaseRefused, FreeMutex
  <2>5. CASE LeaseFailsOpen(r) BY <2>5 DEF LeaseFailsOpen
  <2>6. CASE KeepChild(r) BY <2>6 DEF KeepChild
  <2>7. CASE RestartChild(r) BY <2>7 DEF RestartChild
  <2>8. CASE FirstChild(r) BY <2>8 DEF FirstChild
  <2>9. CASE KillOld(r) 
    <3>1. job' \in [Req -> Job] /\ \A q \in Req : Killed(q)
          BY <2>9, KillType DEF KillOld
    <3> QED BY <2>9, <3>1 DEF KillOld, Killed
  <2>10. CASE DeleteOld(r) BY <2>10 DEF DeleteOld
  <2>11. CASE RemoveOldDir(r) BY <2>11 DEF RemoveOldDir, RemoveDir
  <2>12. CASE CreateChild(r) BY <2>12 DEF CreateChild
  <2>13. CASE CheckParent(r) BY <2>13 DEF CheckParent
  <2>14. CASE UndoChild(r) BY <2>14 DEF UndoChild
  <2>15. CASE DispatchJob(r) BY <2>15, JobQueued DEF DispatchJob, NewJob
  <2>16. CASE DispatchFails(r) BY <2>16 DEF DispatchFails
  <2>17. CASE Unlock(r) BY <2>17 DEF Unlock, FreeMutex
  <2>18. CASE Cancel(r) BY <2>18 DEF Cancel
  <2>19. CASE LoseLease(r) BY <2>19 DEF LoseLease
  <2> QED BY <2>1, <2>2, <2>3, <2>4, <2>5, <2>6, <2>7, <2>8, <2>9, <2>10, <2>11,
             <2>12, <2>13, <2>14, <2>15, <2>16, <2>17, <2>18, <2>19
          DEF CallStep, Call
<1>2. ASSUME NEW r \in Req, RunStep(r) PROVE TypeOK'
  <2> USE <1>2 DEF SetJob, Job, JobState, Absent
  <2>1. CASE StartJob(r) BY <2>1 DEF StartJob
  <2>2. CASE StampJob(r) BY <2>2 DEF StampJob
  <2>3. CASE Rerun(r)
    <3>1. job'[r] = [job[r] EXCEPT !.st = "starting", !.reruns = @ + 1]
          BY <2>3 DEF Rerun
    <3>2. job[r].reruns + 1 \in 0..MaxReruns BY <2>3, RungAssumption DEF Rerun
    <3>3. job'[r] \in Job BY <3>1, <3>2, JobRerun
    <3>4. job'[r].w = job[r].w /\ job'[r].st = "starting" BY <3>1
    <3>5. job[r].st = "failed" /\ dirs' \in [Worker -> SUBSET Nat]
          BY <2>3 DEF Rerun
    <3> QED BY <2>3, <3>3, <3>4, <3>5 DEF Rerun
  <2>4. CASE GiveUp(r) BY <2>4 DEF GiveUp
  <2>5. CASE WatchdogKills(r) BY <2>5 DEF WatchdogKills
  <2>6. CASE IdleKills(r) BY <2>6 DEF IdleKills
  <2>7. CASE WipeDir(r) BY <2>7 DEF WipeDir, RemoveDir
  <2>8. CASE ProduceSegment(r) 
    <3>1. job'[r] = [job[r] EXCEPT !.produced = TRUE] BY <2>8 DEF ProduceSegment
    <3>2. job'[r] \in Job BY <3>1, JobProduced
    <3>3. job'[r].w = job[r].w BY <3>1
    <3> QED BY <2>8, <3>2, <3>3 DEF ProduceSegment
  <2>9. CASE FfmpegFails(r) BY <2>9 DEF FfmpegFails
  <2>10. CASE FfmpegCompletes(r) BY <2>10 DEF FfmpegCompletes
  <2>11. CASE ChromaRetry(r)
    <3>1. job'[r] = [job[r] EXCEPT !.st = "starting", !.produced = FALSE,
                                   !.reruns = @ + 1]
          BY <2>11 DEF ChromaRetry
    <3>2. job[r].reruns + 1 \in 0..MaxReruns BY <2>11, RungAssumption DEF ChromaRetry
    <3>3. job'[r] \in Job BY <3>1, <3>2, JobRetried
    <3>4. job'[r].w = job[r].w /\ job'[r].st = "starting" BY <3>1
    <3>5. job[r].st = "running" /\ dirs' \in [Worker -> SUBSET Nat]
          BY <2>11 DEF ChromaRetry
    <3> QED BY <2>11, <3>3, <3>4, <3>5 DEF ChromaRetry
  <2>12. CASE SetupFails(r)
    <3>1. dirs' \in [Worker -> SUBSET Nat] BY <2>12 DEF SetupFails
    <3>2. /\ job' \in [Req -> Job]
          /\ \A q \in Req : job'[q].st # "none" <=> job'[q].w \in Worker
      BY <2>12 DEF SetupFails
    <3> QED BY <2>12, <3>1, <3>2 DEF SetupFails
  <2>13. CASE SpawnFails(r) BY <2>13 DEF SpawnFails
  <2> QED BY <2>1, <2>2, <2>3, <2>4, <2>5, <2>6, <2>7, <2>8, <2>9, <2>10, <2>11,
             <2>12, <2>13
          DEF RunStep, Run
<1>3. ASSUME NEW w \in Worker, WorkerRestart(w) PROVE TypeOK'
  BY <1>3 DEF WorkerRestart, sweepOrphanedSessions, Job, JobState
<1>4. ASSUME TdStep PROVE TypeOK'
  <2> USE <1>4 DEF Td, TdState, Absent
  <2>1. CASE StopParent BY <2>1 DEF StopParent
  <2>2. CASE BeaconSnapshot BY <2>2 DEF BeaconSnapshot
  <2>3. CASE CleanupRead BY <2>3 DEF CleanupRead
  <2>4. CASE CleanupKill 
    <3>1. job' \in [Req -> Job] /\ \A q \in Req : Killed(q)
          BY <2>4, KillType DEF CleanupKill
    <3> QED BY <2>4, <3>1 DEF CleanupKill, Killed
  <2>5. CASE CleanupChild BY <2>5 DEF CleanupChild
  <2>6. CASE DeleteParent BY <2>6 DEF DeleteParent
  <2>7. CASE DelayedRemove BY <2>7 DEF DelayedRemove, RemoveDir
  <2>8. CASE BeaconRelease BY <2>8 DEF BeaconRelease
  <2>9. ASSUME NEW s \in {"parent", "child"}, BeaconDelete(s) PROVE TypeOK'
        BY <2>9 DEF BeaconDelete
  <2> QED BY <2>1, <2>2, <2>3, <2>4, <2>5, <2>6, <2>7, <2>8, <2>9
          DEF TdStep, Cleanup
<1>5. CASE UNCHANGED vars BY <1>5 DEF vars
<1> QED BY <1>1, <1>2, <1>3, <1>4, <1>5, NextSplit

\* Type correctness of the rung child protocol, under every combination of
\* faults and teardowns.
THEOREM TypeCorrect == Spec => []TypeOK
BY TypeInit, TypeNext, PTL DEF Spec

-----------------------------------------------------------------------------
(* The in-process mutex, under every combination of faults.                *)

LEMMA MutexInit == Init => MutexInv
BY DEF Init, MutexInv, HoldsMutex, InSection

LEMMA MutexNext == TypeOK /\ MutexInv /\ [Next]_vars => MutexInv'
<1> SUFFICES ASSUME TypeOK, MutexInv, [Next]_vars, td' = "idle"
             PROVE  (\A r \in Req : HoldsMutex(r) => mu[InstOf[r]] = r)'
    BY DEF MutexInv
<1> USE RungAssumption DEF TypeOK, store, calls, locks, disks, teardown
<1>1. ASSUME NEW r \in Req, CallStep(r)
      PROVE  (\A q \in Req : HoldsMutex(q) => mu[InstOf[q]] = q)'
  <2> USE <1>1 DEF MutexInv, HoldsMutex, InSection, At, CallState
  <2>1. td = "idle"
        BY DEF CallStep, Begin, Call, Cancel, LoseLease, TakeMutex, TakeLease,
               LeaseRefused, LeaseFailsOpen, KeepChild, RestartChild, FirstChild,
               KillOld, DeleteOld, RemoveOldDir, CreateChild, CheckParent, UndoChild,
               DispatchJob, DispatchFails, Unlock
  <2>2. CASE TakeMutex(r) BY <2>1, <2>2 DEF TakeMutex
  <2>3. CASE LeaseRefused(r) \/ Unlock(r)
        BY <2>1, <2>3 DEF LeaseRefused, Unlock, FreeMutex
  <2>4. CASE Begin(r) \/ Cancel(r) \/ LoseLease(r)
        BY <2>1, <2>4 DEF Begin, Cancel, LoseLease
  <2>5. CASE TakeLease(r) \/ LeaseFailsOpen(r) \/ KeepChild(r) \/ RestartChild(r)
             \/ FirstChild(r)
        BY <2>1, <2>5 DEF TakeLease, LeaseFailsOpen, KeepChild, RestartChild, FirstChild
  <2>6. CASE KillOld(r) \/ DeleteOld(r) \/ RemoveOldDir(r) \/ CreateChild(r)
        BY <2>1, <2>6 DEF KillOld, DeleteOld, RemoveOldDir, CreateChild
  <2>7. CASE CheckParent(r) \/ UndoChild(r) \/ DispatchJob(r) \/ DispatchFails(r)
        BY <2>1, <2>7 DEF CheckParent, UndoChild, DispatchJob, DispatchFails
  <2> QED BY <2>2, <2>3, <2>4, <2>5, <2>6, <2>7 DEF CallStep, Call
<1>2. ASSUME UNCHANGED <<pc, mu, td>>
      PROVE  (\A q \in Req : HoldsMutex(q) => mu[InstOf[q]] = q)'
  BY <1>2 DEF MutexInv, HoldsMutex, InSection
<1>3. ASSUME NEW r \in Req, RunStep(r) PROVE UNCHANGED <<pc, mu, td>>
  BY <1>3 DEF RunStep, Run, StartJob, StampJob, Rerun, GiveUp, WatchdogKills, IdleKills,
         WipeDir, ProduceSegment, FfmpegFails, FfmpegCompletes, ChromaRetry,
         SetupFails, SpawnFails
<1>4. ASSUME NEW w \in Worker, WorkerRestart(w) PROVE UNCHANGED <<pc, mu, td>>
  BY <1>4 DEF WorkerRestart
<1>5. ASSUME TdStep PROVE FALSE
  BY <1>5 DEF TdStep, Cleanup, StopParent, BeaconSnapshot, CleanupRead, CleanupKill,
         CleanupChild, DeleteParent, DelayedRemove, BeaconRelease, BeaconDelete, Td
<1>6. CASE UNCHANGED vars BY <1>2, <1>6 DEF vars
<1> QED BY <1>1, <1>2, <1>3, <1>4, <1>5, <1>6, NextSplit

\* lockRungChild's promise when it fails open: whatever faults happen, two calls
\* on one API instance are never both between read and dispatch, until a
\* teardown drops the mutex.
THEOREM FailOpenKeepsTheMutex == Spec => []InProcessExclusion
<1>1. MutexInv => InProcessExclusion
  BY RungAssumption DEF MutexInv, InProcessExclusion, HoldsMutex
<1> QED BY <1>1, MutexInit, MutexNext, TypeCorrect, PTL DEF Spec

-----------------------------------------------------------------------------
(* Incarnations and directories, when nothing fails.                       *)

LEMMA RestartInit == Init => RestartInv
BY DEF Init, RestartInv, LeaseInv, DispatchedLate, IncarnationInv, UniqueIncarnation,
       LiveEncoderHasDir, InSection, Dispatched, Encoding, NoJob, NewJob, AllBelow, Absent

\* The lease: every step of a call keeps it exclusive.
LEMMA LeaseNext ==
    ASSUME Faults = {}, TypeOK, LeaseInv, [Next]_vars PROVE LeaseInv'
<1> USE RungAssumption DEF TypeOK, store, calls, locks, disks, teardown
<1>1. ASSUME NEW r \in Req, CallStep(r) PROVE LeaseInv'
  <2> USE <1>1 DEF LeaseInv, InSection, At, CallState
  <2>1. CASE TakeLease(r) BY <2>1 DEF TakeLease
  <2>2. CASE LeaseRefused(r) \/ Unlock(r) BY <2>2 DEF LeaseRefused, Unlock
  <2>3. CASE Begin(r) \/ TakeMutex(r) BY <2>3 DEF Begin, TakeMutex
  <2>4. CASE Cancel(r) \/ LoseLease(r) \/ LeaseFailsOpen(r)
        BY <2>4 DEF Cancel, LoseLease, LeaseFailsOpen
  <2>5. CASE KeepChild(r) \/ RestartChild(r) \/ FirstChild(r)
        BY <2>5 DEF KeepChild, RestartChild, FirstChild
  <2>6. CASE KillOld(r) \/ DeleteOld(r) \/ RemoveOldDir(r) \/ CreateChild(r)
        BY <2>6 DEF KillOld, DeleteOld, RemoveOldDir, CreateChild
  <2>7. CASE CheckParent(r) \/ UndoChild(r) \/ DispatchJob(r) \/ DispatchFails(r)
        BY <2>7 DEF CheckParent, UndoChild, DispatchJob, DispatchFails
  <2> QED BY <2>1, <2>2, <2>3, <2>4, <2>5, <2>6, <2>7 DEF CallStep, Call
<1>2. ASSUME UNCHANGED <<pc, lease, cancelled>> PROVE LeaseInv'
  BY <1>2 DEF LeaseInv, InSection
<1>3. ASSUME NEW r \in Req, RunStep(r) PROVE UNCHANGED <<pc, lease, cancelled>>
  BY <1>3 DEF RunStep, Run, StartJob, StampJob, Rerun, GiveUp, WatchdogKills, IdleKills,
         WipeDir, ProduceSegment, FfmpegFails, FfmpegCompletes, ChromaRetry,
         SetupFails, SpawnFails
<1>4. ASSUME NEW w \in Worker, WorkerRestart(w) PROVE UNCHANGED <<pc, lease, cancelled>>
  BY <1>4 DEF WorkerRestart
<1>5. ASSUME TdStep PROVE UNCHANGED <<pc, lease, cancelled>>
  BY <1>5 DEF TdStep, Cleanup, StopParent, BeaconSnapshot, CleanupRead, CleanupKill,
         CleanupChild, DeleteParent, DelayedRemove, BeaconRelease, BeaconDelete, Td
<1>6. CASE UNCHANGED vars BY <1>2, <1>6 DEF vars
<1> QED BY <1>1, <1>2, <1>3, <1>4, <1>5, <1>6, NextSplit

\* A step of the job of r moves that job alone, from one dispatched state to
\* another, and lets it encode only once its directory exists.
LEMMA RunEffect ==
    ASSUME TypeOK, NEW r \in Req, RunStep(r)
    PROVE  /\ UNCHANGED <<parent, child, pc, inc, td>>
           /\ \A q \in Req : q # r => job'[q] = job[q]
           /\ job'[r].w = job[r].w
           /\ Dispatched(r) /\ Dispatched(r)'
           /\ \/ /\ Encoding(r)' => Encoding(r)
                 /\ \/ dirs' = dirs
                    \/ ~Encoding(r)' /\ RemoveDir(job[r].w, inc[r])
              \/ dirs' = [dirs EXCEPT ![job[r].w] = @ \cup {inc[r]}]
<1> USE DEF TypeOK, store, calls, locks, disks, teardown, SetJob, Dispatched, Encoding
<1>0. job[r] \in Job /\ job \in [Req -> Job] OBVIOUS
<1>1. CASE StartJob(r) BY <1>0, <1>1 DEF StartJob, Job
<1>2. CASE StampJob(r) BY <1>0, <1>2 DEF StampJob, Job
<1>3. CASE Rerun(r) BY <1>0, <1>3 DEF Rerun, Job
<1>4. CASE GiveUp(r) BY <1>0, <1>4 DEF GiveUp, Job
<1>5. CASE WatchdogKills(r) BY <1>0, <1>5 DEF WatchdogKills, Job
<1>6. CASE IdleKills(r) BY <1>0, <1>6 DEF IdleKills, Job
<1>7. CASE WipeDir(r) BY <1>0, <1>7 DEF WipeDir, Job
<1>8. CASE ProduceSegment(r) BY <1>0, <1>8 DEF ProduceSegment, Job
<1>9. CASE FfmpegFails(r) BY <1>0, <1>9 DEF FfmpegFails, Job
<1>10. CASE FfmpegCompletes(r) BY <1>0, <1>10 DEF FfmpegCompletes, Job
<1>11. CASE ChromaRetry(r) BY <1>0, <1>11 DEF ChromaRetry, Job
<1>12. CASE SetupFails(r) BY <1>0, <1>12 DEF SetupFails, Job
<1>13. CASE SpawnFails(r) BY <1>0, <1>13 DEF SpawnFails, Job
<1> QED BY <1>1, <1>2, <1>3, <1>4, <1>5, <1>6, <1>7, <1>8, <1>9, <1>10, <1>11,
           <1>12, <1>13
        DEF RunStep, Run

\* A restarted worker ends the jobs it had taken and empties its disk.
LEMMA WorkerRestartEffect ==
    ASSUME TypeOK, NEW w \in Worker, WorkerRestart(w)
    PROVE  /\ UNCHANGED <<parent, child, pc, inc, td>>
           /\ \A r \in Req : /\ job'[r].w = job[r].w
                             /\ Dispatched(r)' <=> Dispatched(r)
                             /\ Encoding(r)' => Encoding(r) /\ job[r].w # w
           /\ \A v \in Worker : v # w => dirs'[v] = dirs[v]
<1> USE RungAssumption DEF TypeOK
<1>1. /\ UNCHANGED <<parent, child, pc, inc, td>>
      /\ \A v \in Worker : v # w => dirs'[v] = dirs[v]
  BY DEF WorkerRestart, sweepOrphanedSessions, store, calls, teardown
<1>2. ASSUME NEW r \in Req
      PROVE  /\ job'[r].w = job[r].w
             /\ Dispatched(r)' <=> Dispatched(r)
             /\ Encoding(r)' => Encoding(r) /\ job[r].w # w
  <2>1. job[r] \in Job OBVIOUS
  <2>2. CASE job[r].w = w /\ job[r].st # "queued"
    <3>1. job'[r] = [job[r] EXCEPT !.st = "done"] BY <2>2 DEF WorkerRestart
    <3>2. job'[r].w = job[r].w /\ job'[r].st = "done" BY <2>1, <3>1 DEF Job
    <3> QED BY <2>2, <3>2 DEF Dispatched, Encoding
  <2>3. CASE ~(job[r].w = w /\ job[r].st # "queued")
    BY <2>3 DEF WorkerRestart, Dispatched, Encoding
  <2> QED BY <2>2, <2>3
<1> QED BY <1>1, <1>2

LEMMA DispatchedNext ==
    ASSUME TypeOK, DispatchedLate, [Next]_vars PROVE DispatchedLate'
<1> USE RungAssumption DEF TypeOK, store, calls, locks, disks, teardown
<1>1. ASSUME NEW r \in Req, CallStep(r) PROVE DispatchedLate'
  <2> USE <1>1 DEF DispatchedLate, Dispatched, At, CallState
  <2>1. CASE TakeMutex(r) \/ TakeLease(r) \/ LeaseRefused(r) \/ Unlock(r)
        BY <2>1 DEF TakeMutex, TakeLease, LeaseRefused, Unlock
  <2>2. CASE Begin(r) \/ Cancel(r) \/ LoseLease(r) \/ LeaseFailsOpen(r)
        BY <2>2 DEF Begin, Cancel, LoseLease, LeaseFailsOpen
  <2>3. CASE KeepChild(r) \/ RestartChild(r) \/ FirstChild(r)
        BY <2>3 DEF KeepChild, RestartChild, FirstChild
  <2>4. CASE DeleteOld(r) \/ RemoveOldDir(r) \/ CreateChild(r)
        BY <2>4 DEF DeleteOld, RemoveOldDir, CreateChild
  <2>5. CASE CheckParent(r) \/ UndoChild(r) \/ DispatchFails(r)
        BY <2>5 DEF CheckParent, UndoChild, DispatchFails
  <2>6. CASE KillOld(r)
    <3>1. \A q \in Req : Killed(q) BY <2>6, KillType DEF KillOld
    <3> QED BY <2>6, <3>1 DEF KillOld, Killed
  <2>7. CASE DispatchJob(r) BY <2>7 DEF DispatchJob
  <2> QED BY <2>1, <2>2, <2>3, <2>4, <2>5, <2>6, <2>7 DEF CallStep, Call
<1>2. ASSUME NEW r \in Req, RunStep(r) PROVE DispatchedLate'
  BY <1>2, RunEffect DEF DispatchedLate, Dispatched
<1>3. ASSUME NEW w \in Worker, WorkerRestart(w) PROVE DispatchedLate'
  BY <1>3, WorkerRestartEffect DEF DispatchedLate
<1>4. ASSUME TdStep PROVE DispatchedLate'
  <2>1. CASE CleanupKill
    <3>1. \A q \in Req : Killed(q) BY <2>1, KillType DEF CleanupKill
    <3> QED BY <2>1, <3>1 DEF CleanupKill, Killed, DispatchedLate, Dispatched
  <2>2. CASE ~CleanupKill
    <3>1. UNCHANGED <<pc, job>>
      BY <1>4, <2>2 DEF TdStep, Cleanup, StopParent, BeaconSnapshot, CleanupRead,
         CleanupChild, DeleteParent, DelayedRemove, BeaconRelease, BeaconDelete, Td
    <3> QED BY <3>1 DEF DispatchedLate, Dispatched
  <2> QED BY <2>1, <2>2
<1>5. CASE UNCHANGED vars BY <1>5 DEF vars, DispatchedLate, Dispatched
<1> QED BY <1>1, <1>2, <1>3, <1>4, <1>5, NextSplit

\* A step that is not a teardown step leaves td alone; a teardown step never
\* leads back to the state before it.
LEMMA TdStays ==
    ASSUME TypeOK, [Next]_vars, td' = "idle" PROVE td = "idle" /\ ~TdStep
<1> USE DEF store, calls, locks, disks, teardown
<1>1. ASSUME NEW r \in Req, CallStep(r) PROVE td' = td
  BY <1>1 DEF CallStep, Begin, Call, Cancel, LoseLease, TakeMutex, TakeLease,
         LeaseRefused, LeaseFailsOpen, KeepChild, RestartChild, FirstChild,
         KillOld, DeleteOld, RemoveOldDir, CreateChild, CheckParent, UndoChild,
         DispatchJob, DispatchFails, Unlock
<1>2. ASSUME NEW r \in Req, RunStep(r) PROVE td' = td BY <1>2, RunEffect
<1>3. ASSUME NEW w \in Worker, WorkerRestart(w) PROVE td' = td
  BY <1>3 DEF WorkerRestart
<1>4. ASSUME TdStep PROVE FALSE
  BY <1>4 DEF TdStep, Cleanup, StopParent, BeaconSnapshot, CleanupRead, CleanupKill,
         CleanupChild, DeleteParent, DelayedRemove, BeaconRelease, BeaconDelete, Td
<1>5. CASE UNCHANGED vars BY <1>4, <1>5 DEF vars
<1> QED BY <1>1, <1>2, <1>3, <1>4, <1>5, NextSplit

LEMMA IncarnationNext ==
    ASSUME Faults = {}, TypeOK, LeaseInv, DispatchedLate, IncarnationInv, [Next]_vars
    PROVE  IncarnationInv'
<1> SUFFICES ASSUME td' = "idle" PROVE IncarnationInv'
    BY DEF IncarnationInv
<1> USE RungAssumption DEF TypeOK, store, calls, locks, disks, teardown
<1>0. td = "idle" /\ ~TdStep BY TdStays
<1>1. ASSUME NEW r \in Req, CallStep(r) PROVE IncarnationInv'
  <2> USE <1>0, <1>1 DEF IncarnationInv, AllBelow, Dispatched, At, CallState, Absent
  <2>1. CASE Begin(r) BY <2>1 DEF Begin
  <2>12. CASE TakeMutex(r) BY <2>12 DEF TakeMutex
  <2>13. CASE TakeLease(r) BY <2>13 DEF TakeLease
  <2>14. CASE LeaseRefused(r) BY <2>14 DEF LeaseRefused
  <2>15. CASE KeepChild(r) BY <2>15 DEF KeepChild
  <2>16. CASE DispatchFails(r) BY <2>16 DEF DispatchFails
  <2>17. CASE Unlock(r) BY <2>17 DEF Unlock
  <2>2. CASE Cancel(r) \/ LoseLease(r) \/ LeaseFailsOpen(r)
        BY <2>2 DEF Cancel, LoseLease, LeaseFailsOpen
  <2>3. CASE RestartChild(r)
        BY <2>3 DEF RestartChild, DispatchedLate
  <2>4. CASE FirstChild(r)
        BY <2>4 DEF FirstChild, DispatchedLate, LeaseInv, InSection
  <2>5. CASE KillOld(r)
    <3>1. \A q \in Req : Killed(q) BY <2>5, KillType DEF KillOld
    <3> QED BY <2>5, <3>1 DEF KillOld, Killed
  <2>6. CASE DeleteOld(r)
        BY <2>6 DEF DeleteOld, LeaseInv, InSection
  <2>7. CASE RemoveOldDir(r) BY <2>7 DEF RemoveOldDir
  <2>8. CASE CreateChild(r)
        BY <2>8 DEF CreateChild, LeaseInv, InSection
  <2>9. CASE CheckParent(r) BY <2>9 DEF CheckParent, LeaseInv
  <2>10. CASE UndoChild(r) BY <2>10 DEF UndoChild
  <2>11. CASE DispatchJob(r)
        BY <2>11 DEF DispatchJob, LeaseInv, InSection
  <2> QED BY <2>1, <2>2, <2>3, <2>4, <2>5, <2>6, <2>7, <2>8, <2>9, <2>10, <2>11,
             <2>12, <2>13, <2>14, <2>15, <2>16, <2>17
          DEF CallStep, Call
<1>2. ASSUME UNCHANGED <<parent, child, pc, inc, td>>,
             \A q \in Req : Dispatched(q)' <=> Dispatched(q)
      PROVE  IncarnationInv'
  BY <1>0, <1>2 DEF IncarnationInv, AllBelow
<1>3. ASSUME NEW r \in Req, RunStep(r) PROVE IncarnationInv'
  BY <1>2, <1>3, RunEffect DEF Dispatched
<1>4. ASSUME NEW w \in Worker, WorkerRestart(w) PROVE IncarnationInv'
  BY <1>2, <1>4, WorkerRestartEffect
<1>5. CASE UNCHANGED vars BY <1>2, <1>5 DEF vars, Dispatched
<1> QED BY <1>0, <1>1, <1>3, <1>4, <1>5, NextSplit

\* A call that is not dispatching changes neither the dispatched jobs nor their
\* incarnations.
LEMMA CallEffect ==
    ASSUME TypeOK, DispatchedLate, NEW r \in Req, CallStep(r), ~DispatchJob(r)
    PROVE  \A q \in Req : /\ job'[q].w = job[q].w
                          /\ Dispatched(q)' <=> Dispatched(q)
                          /\ Encoding(q)' => Encoding(q)
                          /\ Dispatched(q) => inc'[q] = inc[q]
<1> USE DEF TypeOK, store, calls, locks, disks, teardown, Dispatched, Encoding, At
<1>1. CASE KillOld(r)
  <2>1. \A q \in Req : Killed(q) BY <1>1, KillType DEF KillOld
  <2> QED BY <1>1, <2>1 DEF KillOld, Killed
<1>2. CASE RestartChild(r) \/ FirstChild(r)
  BY <1>2 DEF RestartChild, FirstChild, DispatchedLate
<1>3. CASE ~KillOld(r) /\ ~RestartChild(r) /\ ~FirstChild(r)
  <2>1. UNCHANGED <<job, inc>>
    BY <1>3 DEF CallStep, Begin, Call, Cancel, LoseLease, TakeMutex, TakeLease,
         LeaseRefused, LeaseFailsOpen, KeepChild, DeleteOld, RemoveOldDir, CreateChild,
         CheckParent, UndoChild, DispatchFails, Unlock
  <2> QED BY <2>1
<1> QED BY <1>1, <1>2, <1>3

LEMMA UniqueNext ==
    ASSUME TypeOK, DispatchedLate, IncarnationInv, UniqueIncarnation, [Next]_vars
    PROVE  UniqueIncarnation'
<1> SUFFICES ASSUME td' = "idle" PROVE UniqueIncarnation'
    BY DEF UniqueIncarnation
<1>0. td = "idle" /\ ~TdStep BY TdStays
<1>1. ASSUME \A q \in Req : /\ Dispatched(q)' <=> Dispatched(q)
                            /\ Dispatched(q) => inc'[q] = inc[q]
      PROVE  UniqueIncarnation'
  BY <1>0, <1>1 DEF UniqueIncarnation
<1>2. ASSUME NEW r \in Req, CallStep(r), ~DispatchJob(r) PROVE UniqueIncarnation'
  BY <1>1, <1>2, CallEffect
<1>3. ASSUME NEW r \in Req, DispatchJob(r) PROVE UniqueIncarnation'
  <2>1. \A q \in Req : Dispatched(q) => inc[q] < inc[r]
    BY <1>0, <1>3 DEF DispatchJob, At, IncarnationInv, AllBelow
  <2>2. inc' = inc /\ \A q \in Req : q # r => job'[q] = job[q]
    BY <1>3 DEF DispatchJob
  <2>3. \A q \in Req : q # r => (Dispatched(q)' <=> Dispatched(q))
    BY <2>2 DEF Dispatched
  <2> QED BY <1>0, <2>1, <2>2, <2>3 DEF UniqueIncarnation, TypeOK
<1>4. ASSUME NEW r \in Req, RunStep(r) PROVE UniqueIncarnation'
  BY <1>1, <1>4, RunEffect DEF Dispatched
<1>5. ASSUME NEW w \in Worker, WorkerRestart(w) PROVE UniqueIncarnation'
  BY <1>1, <1>5, WorkerRestartEffect
<1>6. CASE UNCHANGED vars BY <1>1, <1>6 DEF vars, Dispatched
<1> QED BY <1>0, <1>2, <1>3, <1>4, <1>5, <1>6, NextSplit DEF CallStep, Call

LEMMA LiveDirNext ==
    ASSUME TypeOK, DispatchedLate, IncarnationInv, UniqueIncarnation,
           LiveEncoderHasDir, [Next]_vars
    PROVE  LiveEncoderHasDir'
<1> SUFFICES ASSUME td' = "idle", NEW q \in Req, Encoding(q)', inc'[q] = child'
             PROVE  inc'[q] \in dirs'[job'[q].w]
    BY DEF LiveEncoderHasDir
<1> USE RungAssumption DEF TypeOK, store, calls, locks, disks, teardown
<1>0. td = "idle" /\ ~TdStep BY TdStays
<1>1. Encoding(q) /\ inc[q] = child => inc[q] \in dirs[job[q].w]
  BY <1>0 DEF LiveEncoderHasDir
<1>2. Encoding(q) => Dispatched(q) /\ job[q].w \in Worker
  BY DEF Encoding, Dispatched
<1>3. ASSUME NEW r \in Req, CallStep(r) PROVE inc'[q] \in dirs'[job'[q].w]
  <2>1. CASE DispatchJob(r)
    BY <1>1, <2>1 DEF DispatchJob, Encoding, NewJob
  <2>2. CASE ~DispatchJob(r)
    <3>1. Encoding(q) /\ job'[q].w = job[q].w /\ inc'[q] = inc[q] /\ Dispatched(q)
      BY <1>2, <1>3, <2>2, CallEffect
    <3>2. CASE RemoveOldDir(r)
      <4>1. child' = Absent
        BY <1>0, <3>2 DEF RemoveOldDir, At, IncarnationInv
      <4>2. inc[q] = Absent BY <3>1, <4>1
      <4>3. inc[q] \in Nat OBVIOUS
      <4> QED BY <4>2, <4>3 DEF Absent
    <3>3. CASE CreateChild(r)
      <4>1. inc[q] < inc[r] /\ child' \in {child, inc[r]}
        BY <1>0, <3>1, <3>3 DEF CreateChild, At, IncarnationInv, AllBelow
      <4>2. dirs' = dirs BY <3>3 DEF CreateChild
      <4> QED BY <1>1, <3>1, <4>1, <4>2
    <3>4. CASE DeleteOld(r) \/ UndoChild(r)
      <4>1. child' \in {child, Absent} /\ dirs' = dirs
        BY <3>4 DEF DeleteOld, UndoChild
      <4> QED BY <1>1, <3>1, <4>1 DEF Absent
    <3>5. CASE ~RemoveOldDir(r) /\ ~CreateChild(r) /\ ~DeleteOld(r) /\ ~UndoChild(r)
      <4>1. dirs' = dirs /\ child' = child
        BY <1>3, <2>2, <3>5 DEF CallStep, Begin, Call, Cancel, LoseLease, TakeMutex,
           TakeLease, LeaseRefused, LeaseFailsOpen, KeepChild, RestartChild, FirstChild,
           KillOld, CheckParent, DispatchFails, Unlock
      <4> QED BY <1>1, <3>1, <4>1
    <3> QED BY <3>2, <3>3, <3>4, <3>5
  <2> QED BY <2>1, <2>2
<1>4. ASSUME NEW r \in Req, RunStep(r) PROVE inc'[q] \in dirs'[job'[q].w]
  <2>1. /\ child' = child /\ inc' = inc /\ job'[q].w = job[q].w
        /\ Dispatched(r) /\ Dispatched(q) /\ job[q].w \in Worker
    BY <1>2, <1>4, RunEffect DEF Encoding, Dispatched
  <2>2. CASE q # r
    <3>1. Encoding(q) /\ inc[q] # inc[r]
      BY <1>0, <1>4, <2>1, <2>2, RunEffect DEF Encoding, UniqueIncarnation
    <3>2. inc[q] \in dirs[job[q].w] BY <1>1, <2>1, <3>1
    <3> QED BY <1>4, <2>1, <3>1, <3>2, RunEffect DEF RemoveDir
  <2>3. CASE q = r
    <3>1. CASE Encoding(r) BY <1>1, <1>4, <2>1, <2>3, <3>1, RunEffect
    <3>2. CASE ~Encoding(r) BY <1>4, <2>1, <2>3, <3>2, RunEffect
    <3> QED BY <3>1, <3>2
  <2> QED BY <2>2, <2>3
<1>5. ASSUME NEW w \in Worker, WorkerRestart(w) PROVE inc'[q] \in dirs'[job'[q].w]
  BY <1>1, <1>2, <1>5, WorkerRestartEffect
<1>6. CASE UNCHANGED vars BY <1>1, <1>6 DEF vars, Encoding
<1> QED BY <1>0, <1>3, <1>4, <1>5, <1>6, NextSplit

\* RestartInv is inductive when nothing fails.
LEMMA RestartInvariant == ASSUME Faults = {} PROVE Spec => []RestartInv
<1>1. TypeOK /\ RestartInv /\ [Next]_vars => RestartInv'
  BY LeaseNext, DispatchedNext, IncarnationNext, UniqueNext, LiveDirNext DEF RestartInv
<1> QED BY <1>1, RestartInit, TypeCorrect, PTL DEF Spec

\* With a reachable Valkey and connected clients, no two jobs of a rung ever
\* share an incarnation, for any number of requests, instances and workers.
THEOREM IncarnationsAreUnique ==
    ASSUME Faults = {} PROVE Spec => []UniqueIncarnation
<1>1. RestartInv => UniqueIncarnation BY DEF RestartInv
<1> QED BY <1>1, RestartInvariant, PTL

\* Under the same conditions the live encoder's directory is never removed
\* from under it by a restart or by a deferred wipe.
THEOREM LiveDirIsKept ==
    ASSUME Faults = {} PROVE Spec => []LiveEncoderHasDir
<1>1. RestartInv => LiveEncoderHasDir BY DEF RestartInv
<1> QED BY <1>1, RestartInvariant, PTL
=============================================================================
