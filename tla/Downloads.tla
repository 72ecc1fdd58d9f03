------------------------------ MODULE Downloads -------------------------------
(***************************************************************************)
(* Converted downloads of one file at one quality: the users' jobs, the    *)
(* conversion they share, the runner that encodes it and the cleanup.      *)
(*                                                                         *)
(*   internal/downloads/service.go    Request, Delete                      *)
(*   internal/downloads/runner.go     Runner                               *)
(*   internal/downloads/cleanup.go    Cleaner                              *)
(*   internal/db/queries/downloads.sql  the statements                     *)
(*                                                                         *)
(* A step is one statement (or transaction) with the file operations next  *)
(* to it.  Optimized versions share queue and runner and are left out.     *)
(***************************************************************************)
EXTENDS Integers, FiniteSets

CONSTANTS User,
          MaxConv,    \* bound: conversions ever created
          Slot,       \* the runner's MaxConcurrent slots
          MaxFaults   \* bound: failing statements and encodes, lost heartbeats, crashes

VARIABLES
    st,        \* download_conversions.status
    fresh,     \* updated_at is less than staleAfter old
    job,       \* the conversion each user's job points at, 0 for no job
    del,       \* the conversion a Delete under way may have to cancel
    run,       \* execute: what each slot does, and for which conversion
    running,   \* r.running: the slot registered for a conversion
    part, final,   \* the conversions with a file in progress, a finished file
    ev,        \* the conversion the cleanup is evicting
    nfaults,
    unsure     \* conversions whose heartbeat was lost, or eviction not written

dlVars == <<st, fresh, job, del, run, running, part, final, ev, nfaults, unsure>>

Conv == 1..MaxConv
NoConv == 0
Free == [pc |-> "free", conv |-> NoConv]

Init ==
    /\ st = [k \in Conv |-> "none"]
    /\ fresh = [k \in Conv |-> FALSE]
    /\ job = [u \in User |-> NoConv]
    /\ del = [u \in User |-> NoConv]
    /\ run = [e \in Slot |-> Free]
    /\ running = [k \in Conv |-> {}]
    /\ part = {} /\ final = {}
    /\ ev = NoConv
    /\ nfaults = 0
    /\ unsure = {}

Fault == nfaults < MaxFaults /\ nfaults' = nfaults + 1

Live == {k \in Conv : st[k] \in {"queued", "running", "ready"}}

On(e, pc) == run[e].pc = pc

Go(e, pc) == run' = [run EXCEPT ![e].pc = pc]

\* execute returns: the slot is free, the registration removed, whosever it is.
Leave(e) ==
    /\ run' = [run EXCEPT ![e] = Free]
    /\ running' = [running EXCEPT ![run[e].conv] = {}]

-----------------------------------------------------------------------------
(* The service.                                                            *)

\* Request: a live job comes back unchanged; otherwise the job is pointed at
\* the live conversion, or at a new queued one.
Request(u) ==
    /\ job[u] \notin Live
    /\ \/ \E k \in Live : job' = [job EXCEPT ![u] = k] /\ UNCHANGED st
       \/ /\ Live = {}
          /\ \E k \in Conv :
                /\ st[k] = "none" /\ \A i \in 1..k - 1 : st[i] # "none"
                /\ st' = [st EXCEPT ![k] = "queued"]
                /\ job' = [job EXCEPT ![u] = k]
    /\ UNCHANGED <<fresh, del, run, running, part, final, ev, nfaults, unsure>>

DeleteJob(u) ==
    /\ job[u] # NoConv /\ del[u] = NoConv
    /\ del' = [del EXCEPT ![u] = job[u]]
    /\ job' = [job EXCEPT ![u] = NoConv]
    /\ UNCHANGED <<st, fresh, run, running, part, final, ev, nfaults, unsure>>

\* DeleteUnreferencedPendingConversion, then Cancel of what runs here: its
\* ffmpeg is killed, and execute treats that as a failed encode.
DeletePending(u) ==
    LET k == del[u]
    IN  /\ k # NoConv
        /\ del' = [del EXCEPT ![u] = NoConv]
        /\ IF st[k] \in {"queued", "running"} /\ \A v \in User : job[v] # k
           THEN /\ st' = [st EXCEPT ![k] = "gone"]
                /\ run' = [e \in Slot |->
                              IF e \in running[k] /\ On(e, "encode")
                              THEN [run[e] EXCEPT !.pc = "failing"] ELSE run[e]]
                /\ part' = part \ {k}
           ELSE UNCHANGED <<st, run, part>>
        /\ UNCHANGED <<fresh, job, running, final, ev, nfaults, unsure>>

DeleteErrs(u) ==
    /\ del[u] # NoConv
    /\ Fault
    /\ del' = [del EXCEPT ![u] = NoConv]
    /\ UNCHANGED <<st, fresh, job, run, running, part, final, ev, unsure>>

-----------------------------------------------------------------------------
(* The runner.                                                             *)

\* fill: a free slot claims a queued conversion, and ffmpeg starts.
Claim(e) ==
    /\ On(e, "free")
    /\ \E k \in Conv :
          /\ st[k] = "queued"
          /\ st' = [st EXCEPT ![k] = "running"]
          /\ fresh' = [fresh EXCEPT ![k] = TRUE]
          /\ run' = [run EXCEPT ![e] = [pc |-> "encode", conv |-> k]]
          /\ running' = [running EXCEPT ![k] = {e}]
          /\ part' = part \cup {k}
    /\ UNCHANGED <<job, del, final, ev, nfaults, unsure>>

\* Mutant: zero rows are taken for a heartbeat like any other.
BeatOn(e) ==
    /\ On(e, "encode")
    /\ fresh' = [fresh EXCEPT ![run[e].conv] = TRUE]
    /\ UNCHANGED <<st, job, del, run, running, part, final, ev, nfaults, unsure>>

\* heartbeat: zero rows mean that the conversion was cancelled.
Beat(e) ==
    /\ On(e, "encode")
    /\ IF st[run[e].conv] = "running"
       THEN fresh' = [fresh EXCEPT ![run[e].conv] = TRUE] /\ UNCHANGED run
       ELSE Go(e, "cancelled") /\ UNCHANGED fresh
    /\ UNCHANGED <<st, job, del, running, part, final, ev, nfaults, unsure>>

\* ffmpeg is done: convert renames its output.
Finish(e) ==
    LET k == run[e].conv
    IN  /\ On(e, "encode")
        /\ IF k \in part
           THEN Go(e, "mark") /\ part' = part \ {k} /\ final' = final \cup {k}
           ELSE Go(e, "failing") /\ UNCHANGED <<part, final>>
        /\ UNCHANGED <<st, fresh, job, del, running, ev, nfaults, unsure>>

EncodeFails(e) ==
    /\ On(e, "encode")
    /\ Fault
    /\ Go(e, "failing")
    /\ UNCHANGED <<st, fresh, job, del, running, part, final, ev, unsure>>

\* MarkDownloadConversionReady; with zero rows or an error the file goes.
MarkReady(e) ==
    LET k == run[e].conv
    IN  /\ On(e, "mark")
        /\ Leave(e)
        /\ \/ /\ st[k] = "running"
              /\ st' = [st EXCEPT ![k] = "ready"]
              /\ UNCHANGED <<final, nfaults>>
           \/ /\ final' = final \ {k}
              /\ UNCHANGED st
              /\ IF st[k] = "running" THEN Fault ELSE UNCHANGED nfaults
        /\ UNCHANGED <<fresh, job, del, part, ev, unsure>>

Cancelled(e) ==
    /\ On(e, "cancelled")
    /\ Leave(e)
    /\ part' = part \ {run[e].conv}
    /\ UNCHANGED <<st, fresh, job, del, final, ev, nfaults, unsure>>

\* The part is removed and the failure written, if the row is still pending.
MarkFailed(e) ==
    LET k == run[e].conv
    IN  /\ On(e, "failing")
        /\ Leave(e)
        /\ part' = part \ {k}
        /\ \/ /\ st' = [st EXCEPT ![k] = IF @ \in {"queued", "running"} THEN "failed" ELSE @]
              /\ UNCHANGED nfaults
           \/ Fault /\ UNCHANGED st
        /\ UNCHANGED <<fresh, job, del, final, ev, unsure>>

\* Two minutes without a heartbeat: nobody encodes it any more, or its
\* heartbeats failed or came too late.
Lapse(k) ==
    /\ st[k] = "running" /\ fresh[k]
    /\ fresh' = [fresh EXCEPT ![k] = FALSE]
    /\ IF \E e \in Slot : run[e].conv = k
       THEN Fault /\ unsure' = unsure \cup {k}
       ELSE UNCHANGED <<nfaults, unsure>>
    /\ UNCHANGED <<st, job, del, run, running, part, final, ev>>

\* Mutant: every running conversion goes back to the queue.
RequeueAll(k) ==
    /\ st[k] = "running"
    /\ st' = [st EXCEPT ![k] = "queued"]
    /\ UNCHANGED <<fresh, job, del, run, running, part, final, ev, nfaults, unsure>>

RequeueStale(k) ==
    /\ st[k] = "running" /\ ~fresh[k]
    /\ st' = [st EXCEPT ![k] = "queued"]
    /\ UNCHANGED <<fresh, job, del, run, running, part, final, ev, nfaults, unsure>>

\* The process dies and starts again.
Crash ==
    /\ Fault
    /\ run' = [e \in Slot |-> Free]
    /\ running' = [k \in Conv |-> {}]
    /\ ev' = NoConv
    /\ unsure' = unsure \cup ({ev} \ {NoConv})
    /\ del' = [u \in User |-> NoConv]
    /\ UNCHANGED <<st, fresh, job, part, final>>

-----------------------------------------------------------------------------
(* The cleanup task.                                                       *)

\* evict, of a file past its expiry or over the size limit: the file goes
\* first, then the row is marked.
EvictFile(k) ==
    /\ ev = NoConv /\ st[k] = "ready"
    /\ ev' = k
    /\ final' = final \ {k}
    /\ UNCHANGED <<st, fresh, job, del, run, running, part, nfaults, unsure>>

EvictMark ==
    /\ ev # NoConv
    /\ ev' = NoConv
    /\ \/ /\ st' = [st EXCEPT ![ev] = IF @ = "ready" THEN "expired" ELSE @]
          /\ UNCHANGED <<nfaults, unsure>>
       \/ Fault /\ unsure' = unsure \cup {ev} /\ UNCHANGED st
    /\ UNCHANGED <<fresh, job, del, run, running, part, final>>

\* removeOrphans: files of conversions that are not live, not written lately.
Sweep(k) ==
    /\ k \in part \cup final /\ k \notin Live
    /\ \A e \in Slot : run[e].conv # k
    /\ part' = part \ {k} /\ final' = final \ {k}
    /\ UNCHANGED <<st, fresh, job, del, run, running, ev, nfaults, unsure>>

\* Old failed and expired rows are forgotten, and the jobs that point at them.
Purge(k) ==
    /\ st[k] \in {"failed", "expired"}
    /\ st' = [st EXCEPT ![k] = "gone"]
    /\ job' = [u \in User |-> IF job[u] = k THEN NoConv ELSE job[u]]
    /\ UNCHANGED <<fresh, del, run, running, part, final, ev, nfaults, unsure>>

-----------------------------------------------------------------------------
\* What a slot gets to do.  Nothing is assumed of an encode whose conversion is
\* not running any more: it has to be stopped.
Works(e) ==
    \/ Claim(e) \/ MarkReady(e) \/ Cancelled(e) \/ MarkFailed(e)
    \/ IF On(e, "encode") /\ st[run[e].conv] = "running" THEN Finish(e) ELSE Beat(e)

Keeps(k) == Lapse(k) \/ RequeueStale(k) \/ Sweep(k)

Next ==
    \/ \E u \in User : Request(u) \/ DeleteJob(u) \/ DeletePending(u) \/ DeleteErrs(u)
    \/ \E e \in Slot : \/ Claim(e) \/ Beat(e) \/ Finish(e) \/ EncodeFails(e)
                       \/ MarkReady(e) \/ Cancelled(e) \/ MarkFailed(e)
    \/ \E k \in Conv : \/ Lapse(k) \/ RequeueStale(k)
                       \/ EvictFile(k) \/ Sweep(k) \/ Purge(k)
    \/ EvictMark \/ Crash

-----------------------------------------------------------------------------
(* Properties.                                                             *)

TypeOK ==
    /\ st \in [Conv -> {"none", "queued", "running", "ready", "failed", "expired", "gone"}]
    /\ fresh \in [Conv -> BOOLEAN]
    /\ job \in [User -> Conv \cup {NoConv}]
    /\ del \in [User -> Conv \cup {NoConv}]
    /\ run \in [Slot -> [pc : {"free", "encode", "mark", "cancelled", "failing"},
                         conv : Conv \cup {NoConv}]]
    /\ running \in [Conv -> SUBSET Slot]
    /\ part \subseteq Conv /\ final \subseteq Conv
    /\ ev \in Conv \cup {NoConv}
    /\ nfaults \in 0..MaxFaults
    /\ unsure \subseteq Conv

\* Two encodes never write one conversion's file, across crashes, requeues,
\* deletions and new requests, as long as its heartbeats get through.
OneEncode ==
    \A e, f \in Slot :
        e # f /\ run[e].conv = run[f].conv => run[e].conv \in unsure \cup {NoConv}

\* A conversion that is offered as ready has its file, unless it is just being
\* evicted, the eviction could not be written, or heartbeats were lost while it
\* was encoded: the losing encode then removes the winner's file.
ReadyHasFile == \A k \in Conv : st[k] = "ready" => k \in final \cup unsure \cup {ev}

\* A conversion that a job points at is never deleted under it, however a
\* Delete of one user and a Request of another overlap.
WaitedIsKept == \A u \in User : job[u] # NoConv => st[job[u]] # "gone"

\* See the parts.
DownloadsAccounted == TypeOK /\ OneEncode /\ ReadyHasFile /\ WaitedIsKept

\* Every conversion that is waited for ends, after whatever crash.
ConversionsEnd == []<>(\A k \in Conv : st[k] \notin {"queued", "running"})

\* A cancelled encode is stopped, here or by its heartbeat, and gives its slot
\* back.
EncodesStop == []<>(\A e \in Slot : On(e, "free"))

\* What failed, cancelled or dead encodes left on disk is reclaimed.
FilesReclaimed == []<>(part \cup final \subseteq Live)
=============================================================================
