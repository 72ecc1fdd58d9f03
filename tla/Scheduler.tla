------------------------------ MODULE Scheduler -------------------------------
(***************************************************************************)
(* One scheduled task, leased and run by several server instances.         *)
(*                                                                         *)
(*   internal/scheduler/scheduler.go        Scheduler                      *)
(*   internal/scheduler/pgx.go              PgxQuerier                     *)
(*   internal/db/queries/scheduled_tasks.sql                               *)
(*   internal/api/v1/tasks.go               RunNow                         *)
(*                                                                         *)
(* Time is the moments at which next_run_at comes to lie in the past.  A   *)
(* run is named by the number of its lease.                                *)
(***************************************************************************)
EXTENDS Integers, FiniteSets

CONSTANTS Server,      \* the instances that tick
          MaxDue,      \* bound: times the task comes due
          MaxMishaps   \* bound: failing statements, crashes

VARIABLES
    due,       \* next_run_at has elapsed
    elapsed,   \* history: how often it came to
    leases,    \* history: how often the task was leased
    ex,        \* execute: where each run is, and on which instance
    runrow,    \* task_runs.status of each run
    last,      \* scheduled_tasks.last_status
    mishaps

schedVars == <<due, elapsed, leases, ex, runrow, last, mishaps>>

Run == 1..MaxDue

Init ==
    /\ due = FALSE /\ elapsed = 0 /\ leases = 0
    /\ ex = [n \in Run |-> [pc |-> "none", on |-> {}, result |-> "none"]]
    /\ runrow = [n \in Run |-> "none"]
    /\ last = "none"
    /\ mishaps = 0

Mishap == mishaps < MaxMishaps /\ mishaps' = mishaps + 1

On(n, pc) == ex[n].pc = pc

Go(n, pc) == ex' = [ex EXCEPT ![n].pc = pc]

\* The time passes, or RunNow sets next_run_at to the present.
ComeDue ==
    /\ ~due /\ elapsed < MaxDue
    /\ due' = TRUE
    /\ elapsed' = elapsed + 1
    /\ UNCHANGED <<leases, ex, runrow, last, mishaps>>

\* Mutant: next_run_at is advanced when the run ends, not with the lease.
TickLeavesDue(p) ==
    /\ due /\ leases < MaxDue
    /\ leases' = leases + 1
    /\ ex' = [ex EXCEPT ![leases + 1] = [pc |-> "leased", on |-> {p}, result |-> "none"]]
    /\ UNCHANGED <<due, elapsed, runrow, last, mishaps>>

\* tick: LeaseDueTasks advances next_run_at in the transaction that picks the
\* task; a transaction that failed leaves it due.
Tick(p) ==
    /\ due
    /\ due' = FALSE
    /\ leases' = leases + 1
    /\ ex' = [ex EXCEPT ![leases + 1] = [pc |-> "leased", on |-> {p}, result |-> "none"]]
    /\ UNCHANGED <<elapsed, runrow, last, mishaps>>

\* The transaction landed and Commit reports an error: tick runs nothing, and the
\* due time is passed over.
CommitUnknown(p) ==
    /\ due
    /\ Mishap
    /\ due' = FALSE
    /\ UNCHANGED <<elapsed, leases, ex, runrow, last>>

\* No handler for the type: the failure is recorded without a run.
UnknownType(n) ==
    /\ On(n, "leased")
    /\ ex' = [ex EXCEPT ![n].pc = "record", ![n].result = "failed"]
    /\ UNCHANGED <<due, elapsed, leases, runrow, last, mishaps>>

\* Without a task_runs row there is no run.
CreateRun(n) ==
    /\ On(n, "leased")
    /\ \/ Go(n, "running") /\ runrow' = [runrow EXCEPT ![n] = "running"] /\ UNCHANGED mishaps
       \/ Mishap /\ Go(n, "over") /\ UNCHANGED runrow
    /\ UNCHANGED <<due, elapsed, leases, last>>

\* safeRun: the handler returns, fails or panics.
Handler(n) ==
    /\ On(n, "running")
    /\ \E res \in {"success", "failed"} :
          ex' = [ex EXCEPT ![n].pc = "finish", ![n].result = res]
    /\ UNCHANGED <<due, elapsed, leases, runrow, last, mishaps>>

FinishRun(n) ==
    /\ On(n, "finish")
    /\ Go(n, "record")
    /\ \/ runrow' = [runrow EXCEPT ![n] = ex[n].result] /\ UNCHANGED mishaps
       \/ Mishap /\ UNCHANGED runrow
    /\ UNCHANGED <<due, elapsed, leases, last>>

RecordResult(n) ==
    /\ On(n, "record")
    /\ Go(n, "over")
    /\ \/ last' = ex[n].result /\ UNCHANGED mishaps
       \/ Mishap /\ UNCHANGED last
    /\ UNCHANGED <<due, elapsed, leases, runrow>>

\* An instance dies; its runs are gone, the rows stay.
Crash(p) ==
    /\ Mishap
    /\ ex' = [n \in Run |-> IF ex[n].on = {p} /\ ex[n].pc # "over"
                            THEN [ex[n] EXCEPT !.pc = "dead"] ELSE ex[n]]
    /\ UNCHANGED <<due, elapsed, leases, runrow, last>>

Goes(n) == UnknownType(n) \/ CreateRun(n) \/ Handler(n) \/ FinishRun(n) \/ RecordResult(n)

Next ==
    \/ ComeDue
    \/ \E p \in Server : Tick(p) \/ CommitUnknown(p) \/ Crash(p)
    \/ \E n \in Run : \/ UnknownType(n) \/ CreateRun(n) \/ Handler(n)
                      \/ FinishRun(n) \/ RecordResult(n)

-----------------------------------------------------------------------------
(* Properties.                                                             *)

TypeOK ==
    /\ due \in BOOLEAN
    /\ elapsed \in 0..MaxDue /\ leases \in 0..MaxDue
    /\ ex \in [Run -> [pc : {"none", "leased", "running", "finish", "record", "over", "dead"},
                       on : SUBSET Server, result : {"none", "success", "failed"}]]
    /\ runrow \in [Run -> {"none", "running", "success", "failed"}]
    /\ last \in {"none", "success", "failed"}
    /\ mishaps \in 0..MaxMishaps

\* Instances that tick together do not fire one due time twice; nor skip one, but
\* for a lease that landed and whose Commit reported an error.
OncePerDue ==
    LET taken == elapsed - (IF due THEN 1 ELSE 0)
    IN  leases <= taken /\ taken - leases <= mishaps

\* A row that says running is run by someone, and a run that ended has left its
\* own result, however runs of one task overlap; but for the runs of an instance
\* that died, and one for every statement that failed: nothing puts those right.
RunsAccounted ==
    Cardinality({n \in Run :
        /\ ~On(n, "dead")
        /\ \/ runrow[n] = "running" /\ ex[n].pc \notin {"running", "finish"}
           \/ On(n, "over") /\ runrow[n] \notin {"none", ex[n].result}}) <= mishaps

\* See the parts.
TasksAccounted == TypeOK /\ OncePerDue /\ RunsAccounted

\* Every due time is taken up and every run ends.
TasksRun == []<>(~due) /\ []<>(\A n \in Run : ex[n].pc \in {"none", "over", "dead"})
=============================================================================
