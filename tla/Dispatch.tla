------------------------------- MODULE Dispatch -------------------------------
(***************************************************************************)
(* How transcode jobs reach the workers and how a worker's slots are       *)
(* counted.                                                                *)
(*                                                                         *)
(*   internal/transcode/session.go  DispatchJob, EnqueueJob, AckDispatch,  *)
(*                                  DequeueJob, selectWorker, workerScore  *)
(*   internal/transcode/worker.go   jobLoop, TryReserveSlot,               *)
(*                                  SetMaxSessions, register               *)
(*                                                                         *)
(* Workers have equal capabilities and jobs equal cost: the score is the   *)
(* headroom.  The cost counters move with the job counters and are left    *)
(* out.  Each Valkey command and each atomic operation is a step.          *)
(***************************************************************************)
EXTENDS Integers, FiniteSets

CONSTANTS Job,       \* jobs, each dispatched once
          Rsv,       \* converted downloads that want a slot (TryReserveSlot)
          Worker,
          Embedded,  \* the worker in the API process, which downloads reserve on
          Max,       \* maxSessions a worker starts with
          Caps,      \* values an admin may set the embedded worker's to
          Faults,    \* which faults may happen
          MaxMishaps,  \* bound: how many of them
          NoWorker, NoJob

\* "expiry":     jobs wait in a queue for longer than the counter's TTL.
\* "unregister": a worker's registration lapses for a while (workerTTL).
\* "valkey":     a command of DispatchJob, DequeueJob or AckDispatch fails.
\* "crash":      a remote worker dies with jobs in its hands, and comes back.
ASSUME DispatchAssumption ==
    /\ IsFiniteSet(Job) /\ IsFiniteSet(Rsv)
    /\ Embedded \in Worker
    /\ Max \in Nat \ {0}
    /\ Caps \subseteq Nat \ {0}
    /\ Faults \subseteq {"expiry", "unregister", "valkey", "crash"}
    /\ MaxMishaps \in Nat
    /\ NoWorker \notin Worker
    /\ NoJob \notin Job

VARIABLES
    st,      \* where each job is
    to,      \* the worker it was routed to, or NoWorker for the global queue
    cnt,     \* transcode:dispatched:<addr>
    reg,     \* ActiveSessions and MaxSessions of the last heartbeat, and if it is there
    active,  \* activeSessions of each worker
    max,     \* maxSessions of each worker
    loop,    \* where each worker's jobLoop is
    cur,     \* the job in its hands
    rsv,     \* where each reservation is
    leak,    \* history: counts that lost their job since the counter was last gone
    mishaps  \* faults so far

vars == <<st, to, cnt, reg, active, max, loop, cur, rsv, leak, mishaps>>

Init ==
    /\ st = [j \in Job |-> "new"]
    /\ to = [j \in Job |-> NoWorker]
    /\ cnt = [w \in Worker |-> 0]
    /\ reg = [w \in Worker |-> [up |-> TRUE, active |-> 0, max |-> Max]]
    /\ active = [w \in Worker |-> 0]
    /\ max = [w \in Worker |-> Max]
    /\ loop = [w \in Worker |-> "check"]
    /\ cur = [w \in Worker |-> NoJob]
    /\ rsv = [v \in Rsv |-> [st |-> "new", read |-> 0]]
    /\ leak = [w \in Worker |-> 0]
    /\ mishaps = 0

Mishap(kind) ==
    /\ kind \in Faults
    /\ mishaps < MaxMishaps
    /\ mishaps' = mishaps + 1

-----------------------------------------------------------------------------
(* DispatchJob.                                                            *)

\* workerScore with equal capabilities; 0 for a full worker.
Score(w) ==
    LET used == reg[w].active + cnt[w]
    IN  IF used >= reg[w].max THEN 0 ELSE reg[w].max - used

Registered == {w \in Worker : reg[w].up}

\* The best of the registered workers; with every one full, still one of them.
selectWorker == {w \in Registered : \A v \in Registered : Score(w) >= Score(v)}

\* Read the registrations and the counters, and choose.  With no worker
\* registered, or when they cannot be read, the job goes to the global queue.
Route(j) ==
    /\ st[j] = "new"
    /\ st' = [st EXCEPT ![j] = "routed"]
    /\ \/ \E w \in selectWorker : to' = [to EXCEPT ![j] = w] /\ UNCHANGED mishaps
       \/ Registered = {} /\ UNCHANGED <<to, mishaps>>
       \/ Registered # {} /\ Mishap("valkey") /\ UNCHANGED to
    /\ UNCHANGED <<cnt, reg, active, max, loop, cur, rsv, leak>>

\* INCR the counter - jobs for the global queue are not counted.
Count(j) ==
    /\ st[j] = "routed"
    /\ st' = [st EXCEPT ![j] = "counted"]
    /\ cnt' = [w \in Worker |-> IF w = to[j] THEN cnt[w] + 1 ELSE cnt[w]]
    /\ UNCHANGED <<to, reg, active, max, loop, cur, rsv, leak, mishaps>>

\* The INCR fails, which DispatchJob does not look at.
CountFails(j) ==
    /\ Mishap("valkey")
    /\ st[j] = "routed" /\ to[j] # NoWorker
    /\ st' = [st EXCEPT ![j] = "counted"]
    /\ UNCHANGED <<to, cnt, reg, active, max, loop, cur, rsv, leak>>

\* RPUSH.
Push(j) ==
    /\ st[j] = "counted"
    /\ st' = [st EXCEPT ![j] = "queued"]
    /\ UNCHANGED <<to, cnt, reg, active, max, loop, cur, rsv, leak, mishaps>>

\* The RPUSH fails and the caller gets the error; the count stays.
PushFails(j) ==
    /\ Mishap("valkey")
    /\ st[j] = "counted"
    /\ st' = [st EXCEPT ![j] = "refused"]
    /\ leak' = [w \in Worker |-> IF w = to[j] THEN leak[w] + 1 ELSE leak[w]]
    /\ UNCHANGED <<to, cnt, reg, active, max, loop, cur, rsv>>

-----------------------------------------------------------------------------
(* jobLoop of worker w.                                                    *)

LoopAt(w, from, next) == loop[w] = from /\ loop' = [loop EXCEPT ![w] = next]

CheckSlot(w) ==
    /\ active[w] < max[w]
    /\ LoopAt(w, "check", "pop")
    /\ UNCHANGED <<st, to, cnt, reg, active, max, cur, rsv, leak, mishaps>>

Queue(w) == {j \in Job : st[j] = "queued" /\ to[j] \in {w, NoWorker}}

\* BLPOP; the worker's own queue comes first.
Dequeue(w) ==
    /\ LoopAt(w, "pop", "add")
    /\ \E j \in Queue(w) :
          /\ to[j] = NoWorker => \A i \in Queue(w) : to[i] = NoWorker
          /\ st' = [st EXCEPT ![j] = "popped"]
          /\ cur' = [cur EXCEPT ![w] = j]
    /\ UNCHANGED <<to, cnt, reg, active, max, rsv, leak, mishaps>>

\* BLPOP fails: nothing was popped, or what was popped went with its reply.
DequeueFails(w) ==
    /\ Mishap("valkey")
    /\ LoopAt(w, "pop", "check")
    /\ \/ UNCHANGED <<st, leak>>
       \/ \E j \in Queue(w) :
             /\ to[j] = NoWorker => \A i \in Queue(w) : to[i] = NoWorker
             /\ st' = [st EXCEPT ![j] = "lost"]
             /\ leak' = [leak EXCEPT ![w] = IF to[j] = w THEN @ + 1 ELSE @]
    /\ UNCHANGED <<to, cnt, reg, active, max, cur, rsv>>

\* BLPOP's five seconds are over.
DequeueTimeout(w) ==
    /\ Queue(w) = {}
    /\ LoopAt(w, "pop", "check")
    /\ UNCHANGED <<st, to, cnt, reg, active, max, cur, rsv, leak, mishaps>>

AddActive(w) ==
    /\ LoopAt(w, "add", "decr")
    /\ active' = [active EXCEPT ![w] = @ + 1]
    /\ UNCHANGED <<st, to, cnt, reg, max, cur, rsv, leak, mishaps>>

\* Mutant: the job is never acknowledged.
AckNothing(w) ==
    /\ LoopAt(w, "decr", "run")
    /\ UNCHANGED <<st, to, cnt, reg, active, max, cur, rsv, leak, mishaps>>

\* AckDispatch, first command: DECR, whatever queue the job came from.
AckDecr(w) ==
    /\ LoopAt(w, "decr", IF cnt[w] <= 1 THEN "del" ELSE "run")
    /\ cnt' = [cnt EXCEPT ![w] = @ - 1]
    /\ UNCHANGED <<st, to, reg, active, max, cur, rsv, leak, mishaps>>

\* AckDispatch, second command: DEL after a result of zero or less.
AckDel(w) ==
    /\ LoopAt(w, "del", "run")
    /\ cnt' = [cnt EXCEPT ![w] = 0]
    /\ leak' = [leak EXCEPT ![w] = 0]
    /\ UNCHANGED <<st, to, reg, active, max, cur, rsv, mishaps>>

\* A command of AckDispatch fails, which nobody looks at: the DECR, whose job stays
\* counted, its reply, so that a counter at zero is not deleted, or the DEL.
AckFails(w) ==
    /\ Mishap("valkey")
    /\ \/ LoopAt(w, "decr", "run") /\ UNCHANGED cnt
          /\ leak' = [leak EXCEPT ![w] = IF to[cur[w]] = w THEN @ + 1 ELSE @]
       \/ LoopAt(w, "decr", "run") /\ cnt' = [cnt EXCEPT ![w] = @ - 1] /\ UNCHANGED leak
       \/ LoopAt(w, "del", "run") /\ UNCHANGED <<cnt, leak>>
    /\ UNCHANGED <<st, to, reg, active, max, cur, rsv>>

\* The job runs in a goroutine of its own.
RunJob(w) ==
    /\ LoopAt(w, "run", "check")
    /\ st' = [st EXCEPT ![cur[w]] = "running"]
    /\ to' = [to EXCEPT ![cur[w]] = w]
    /\ cur' = [cur EXCEPT ![w] = NoJob]
    /\ UNCHANGED <<cnt, reg, active, max, rsv, leak, mishaps>>

\* Mutant: a panic skips the decrement.
EndWithoutRelease(j) ==
    /\ st[j] = "running"
    /\ st' = [st EXCEPT ![j] = "done"]
    /\ UNCHANGED <<to, cnt, reg, active, max, loop, cur, rsv, leak, mishaps>>

\* runJob returns or panics; the deferred decrement runs in both cases.
EndJob(j) ==
    /\ st[j] = "running"
    /\ st' = [st EXCEPT ![j] = "done"]
    /\ active' = [active EXCEPT ![to[j]] = @ - 1]
    /\ UNCHANGED <<to, cnt, reg, max, loop, cur, rsv, leak, mishaps>>

-----------------------------------------------------------------------------
(* Reservations, heartbeats, admin.                                        *)

\* TryReserveSlot: load both counters ...
ReserveRead(v) ==
    /\ rsv[v].st = "new"
    /\ active[Embedded] < max[Embedded]
    /\ rsv' = [rsv EXCEPT ![v] = [st |-> "read", read |-> active[Embedded]]]
    /\ UNCHANGED <<st, to, cnt, reg, active, max, loop, cur, leak, mishaps>>

\* Mutant: a plain store of what was read plus one.
ReserveStore(v) ==
    /\ rsv[v].st = "read"
    /\ active' = [active EXCEPT ![Embedded] = rsv[v].read + 1]
    /\ rsv' = [rsv EXCEPT ![v].st = "held"]
    /\ UNCHANGED <<st, to, cnt, reg, max, loop, cur, leak, mishaps>>

\* ... compare and swap; try again when the counter moved.
ReserveSwap(v) ==
    /\ rsv[v].st = "read"
    /\ IF active[Embedded] = rsv[v].read
       THEN /\ active' = [active EXCEPT ![Embedded] = @ + 1]
            /\ rsv' = [rsv EXCEPT ![v].st = "held"]
       ELSE rsv' = [rsv EXCEPT ![v].st = "new"] /\ UNCHANGED active
    /\ UNCHANGED <<st, to, cnt, reg, max, loop, cur, leak, mishaps>>

ReserveRelease(v) ==
    /\ rsv[v].st = "held"
    /\ active' = [active EXCEPT ![Embedded] = @ - 1]
    /\ rsv' = [rsv EXCEPT ![v].st = "done"]
    /\ UNCHANGED <<st, to, cnt, reg, max, loop, cur, leak, mishaps>>

\* register: the heartbeat copies the counters.
Heartbeat(w) ==
    /\ loop[w] # "down"
    /\ reg' = [reg EXCEPT ![w] = [up |-> TRUE, active |-> active[w], max |-> max[w]]]
    /\ UNCHANGED <<st, to, cnt, active, max, loop, cur, rsv, leak, mishaps>>

Unregister(w) ==
    /\ Mishap("unregister")
    /\ reg[w].up
    /\ reg' = [reg EXCEPT ![w] = [up |-> FALSE, active |-> 0, max |-> 0]]
    /\ UNCHANGED <<st, to, cnt, active, max, loop, cur, rsv, leak>>

\* The counter's TTL runs out while jobs wait.
CounterExpires(w) ==
    /\ Mishap("expiry")
    /\ cnt[w] # 0
    /\ cnt' = [cnt EXCEPT ![w] = 0]
    /\ leak' = [leak EXCEPT ![w] = 0]
    /\ UNCHANGED <<st, to, reg, active, max, loop, cur, rsv>>

\* A remote worker dies: what it had popped is gone, nothing puts it back, and
\* its registration and its counter stay.  (An idle worker loses nothing.)
Crash(w) ==
    /\ Mishap("crash")
    /\ w # Embedded
    /\ active[w] > 0 \/ cur[w] # NoJob
    /\ st' = [j \in Job |-> IF cur[w] = j \/ (st[j] = "running" /\ to[j] = w)
                            THEN "lost" ELSE st[j]]
    /\ leak' = IF loop[w] \in {"add", "decr"} /\ to[cur[w]] = w
               THEN [leak EXCEPT ![w] = @ + 1] ELSE leak
    /\ loop' = [loop EXCEPT ![w] = "down"]
    /\ cur' = [cur EXCEPT ![w] = NoJob]
    /\ active' = [active EXCEPT ![w] = 0]
    /\ UNCHANGED <<to, cnt, reg, max, rsv>>

\* It is started again under its address, and registers before it takes jobs.
Start(w) ==
    /\ LoopAt(w, "down", "check")
    /\ reg' = [reg EXCEPT ![w] = [up |-> TRUE, active |-> 0, max |-> max[w]]]
    /\ UNCHANGED <<st, to, cnt, active, max, cur, rsv, leak, mishaps>>

SetMaxSessions ==
    /\ \E n \in Caps : max' = [max EXCEPT ![Embedded] = n]
    /\ UNCHANGED <<st, to, cnt, reg, active, loop, cur, rsv, leak, mishaps>>

-----------------------------------------------------------------------------
Dispatching(j) == Route(j) \/ Count(j) \/ CountFails(j) \/ Push(j) \/ PushFails(j)
JobLoop(w) ==
    \/ CheckSlot(w) \/ Dequeue(w) \/ DequeueFails(w) \/ DequeueTimeout(w) \/ AddActive(w)
    \/ AckDecr(w) \/ AckDel(w) \/ AckFails(w) \/ RunJob(w) \/ Start(w)
Reservation(v) ==
    ReserveRead(v) \/ ReserveSwap(v) \/ ReserveRelease(v)

Next ==
    \/ \E j \in Job : Dispatching(j) \/ EndJob(j)
    \/ \E v \in Rsv : Reservation(v)
    \/ \E w \in Worker :
          JobLoop(w) \/ Heartbeat(w) \/ Unregister(w) \/ CounterExpires(w) \/ Crash(w)
    \/ SetMaxSessions

Spec == Init /\ [][Next]_vars

\* Dispatches finish, loops keep looping (a dead worker is started again), encodes
\* end and release their slot.
FairSpec ==
    /\ Spec
    /\ \A j \in Job : WF_vars(Count(j) \/ Push(j)) /\ WF_vars(EndJob(j))
    /\ \A w \in Worker : WF_vars(JobLoop(w))
    /\ \A v \in Rsv : WF_vars(ReserveSwap(v) \/ ReserveRelease(v))

-----------------------------------------------------------------------------
TypeOK ==
    /\ st \in [Job -> {"new", "routed", "counted", "queued", "popped", "running",
                       "done", "refused", "lost"}]
    /\ to \in [Job -> Worker \cup {NoWorker}]
    /\ cnt \in [Worker -> Int]
    /\ reg \in [Worker -> [up : BOOLEAN, active : Nat, max : Nat]]
    /\ active \in [Worker -> Nat]
    /\ max \in [Worker -> Nat \ {0}]
    /\ loop \in [Worker -> {"check", "pop", "add", "decr", "del", "run", "down"}]
    /\ cur \in [Worker -> Job \cup {NoJob}]
    /\ rsv \in [Rsv -> [st : {"new", "read", "held", "done"},
                        read : Nat]]
    /\ leak \in [Worker -> Nat]
    /\ mishaps \in 0..MaxMishaps

\* What occupies worker w's slots: running jobs, the job the loop has added,
\* reservations.
Occupants(w) ==
    {j \in Job : \/ st[j] = "running" /\ to[j] = w
                 \/ cur[w] = j /\ loop[w] \in {"decr", "del", "run"}}
Held(w) == {v \in Rsv : rsv[v].st = "held" /\ w = Embedded}

\* activeSessions is exact: every exit path of runJob, every release and every
\* lost compare-and-swap leaves it equal to the slots really in use.
ActiveIsExact ==
    \A w \in Worker : active[w] = Cardinality(Occupants(w)) + Cardinality(Held(w))

\* While nobody lowers the cap, the slots a worker uses never exceed it by more
\* than the one job its loop was waiting for when a reservation took the last
\* slot: the check in jobLoop and the compare-and-swap in TryReserveSlot do not
\* exclude each other, but they do not let the overshoot grow either.
SlotsBounded == \A w \in Worker : active[w] <= max[w] + 1

\* Slots are given back exactly once, on every exit, and never overrun by more
\* than that one job.
SlotsExact == TypeOK /\ ActiveIsExact /\ SlotsBounded

InFlight(w) ==
    {j \in Job : \/ to[j] = w /\ st[j] \in {"counted", "queued"}
                 \/ cur[w] = j /\ to[j] = w /\ loop[w] \in {"add", "decr"}}

\* The dispatch counter claims a job that is not there, and so keeps playback away
\* from an idle worker, only for a job that left without its DECR - a failed push, a
\* pop whose reply was lost, a worker that died with it, a failed DECR - and only
\* until the counter is next deleted or expires.
NoPhantomJobs == \A w \in Worker : cnt[w] <= Cardinality(InFlight(w)) + leak[w]

\* Every job that was pushed is taken and ends, whatever the counters say: it
\* runs, or it goes with a crashed worker or the lost reply of a pop.
JobsRun == \A j \in Job : st[j] = "queued" ~> st[j] \in {"done", "lost"}

\* worker.go, TryReserveSlot: "it counts against the same transcode concurrency
\* as playback": reservations and jobs together stay within maxSessions.
WithinCap == \A w \in Worker : active[w] <= max[w]

\* session.go, DispatchJob: the counter "tracks jobs dispatched but not yet
\* started by the worker".
CounterCovers == \A w \in Worker : cnt[w] >= Cardinality(InFlight(w))
=============================================================================
