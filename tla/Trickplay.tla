------------------------------ MODULE Trickplay -------------------------------
(***************************************************************************)
(* The trickplay generation queue: a backlog drained by one goroutine, a   *)
(* backfill task that generates on its own, and one generation slot.       *)
(*                                                                         *)
(*   internal/trickplay/queue.go      Queue                                *)
(*   internal/trickplay/generator.go  Generate                             *)
(*   internal/db/queries/trickplay.sql, trickplay_queue.sql                *)
(*   internal/scheduler/handlers_trickplay.go   the backfill               *)
(*                                                                         *)
(* Waiting for an idle box (acquire's busy loop) is waiting for a step.    *)
(***************************************************************************)
EXTENDS Integers, Sequences, SequencesExt

CONSTANTS Title,       \* the media items
          MaxPending,  \* the backlog's cap
          MaxAsks,     \* bound: EnqueueFront calls
          MaxTrips     \* bound: failing writes, crashes

VARIABLES
    backlog, inflight,  \* q.pending and q.inflight
    slot,               \* the holder of the generation slot
    wake,               \* a token is in q.wake
    gen,                \* Run ("run") and the backfill ("task"): where they are
    status,             \* trickplay_status
    whole,              \* the items whose directory holds a complete set of sprites
    down,               \* the context is cancelled
    asks, trips,
    orphans             \* history: items whose 'pending' row could not be settled

tpVars == <<backlog, inflight, slot, wake, gen, status, whole, down, asks, trips, orphans>>

Doer == {"run", "task"}
Off == [pc |-> "idle", item |-> {}]

Init ==
    /\ backlog = <<>> /\ inflight = {}
    /\ slot = {}
    /\ wake = FALSE
    /\ gen = [d \in Doer |-> Off]
    /\ status = [i \in Title |-> "none"]
    /\ whole = {}
    /\ down = FALSE
    /\ asks = 0 /\ trips = 0
    /\ orphans = {}

Trip == trips < MaxTrips /\ trips' = trips + 1

On(d, pc) == gen[d].pc = pc

Go(d, pc) == gen' = [gen EXCEPT ![d].pc = pc]

Has(d, i) == gen[d].item = {i}

Known(i) == i \in Range(backlog) \cup inflight

-----------------------------------------------------------------------------
(* Entering the queue.                                                     *)

Enqueue(i) ==
    /\ ~Known(i) /\ Len(backlog) < MaxPending
    /\ backlog' = Append(backlog, i)
    /\ wake' = TRUE
    /\ UNCHANGED <<inflight, slot, gen, status, whole, down, asks, trips, orphans>>

\* Mutant: an item being generated can be put at the head again.
FrontAnyway(i) ==
    /\ asks < MaxAsks
    /\ asks' = asks + 1
    /\ backlog' = <<i>> \o SelectSeq(backlog, LAMBDA j : j # i)
    /\ wake' = TRUE
    /\ UNCHANGED <<inflight, slot, gen, status, whole, down, trips, orphans>>

\* Past the cap, if need be.
EnqueueFront(i) ==
    /\ asks < MaxAsks
    /\ asks' = asks + 1
    /\ i \notin inflight
    /\ backlog' = <<i>> \o SelectSeq(backlog, LAMBDA j : j # i)
    /\ wake' = TRUE
    /\ UNCHANGED <<inflight, slot, gen, status, whole, down, trips, orphans>>

-----------------------------------------------------------------------------
(* Run and Process.                                                        *)

\* next; with an empty backlog, Run waits to be woken.
Pop ==
    /\ On("run", "idle")
    /\ IF backlog = <<>>
       THEN Go("run", "sleep") /\ UNCHANGED <<backlog, inflight>>
       ELSE /\ backlog' = Tail(backlog)
            /\ inflight' = inflight \cup {Head(backlog)}
            /\ gen' = [gen EXCEPT !["run"] = [pc |-> "acquire", item |-> {Head(backlog)}]]
    /\ UNCHANGED <<slot, wake, status, whole, down, asks, trips, orphans>>

Wakes ==
    /\ On("run", "sleep") /\ wake
    /\ wake' = FALSE
    /\ Go("run", "idle")
    /\ UNCHANGED <<backlog, inflight, slot, status, whole, down, asks, trips, orphans>>

\* Process: the backfill lists items that have no row or an orphaned one.
Process(i) ==
    /\ On("task", "idle") /\ ~down
    /\ status[i] = "none" \/ (status[i] = "pending" /\ i \in orphans)
    /\ ~Known(i)
    /\ inflight' = inflight \cup {i}
    /\ gen' = [gen EXCEPT !["task"] = [pc |-> "acquire", item |-> {i}]]
    /\ UNCHANGED <<backlog, slot, wake, status, whole, down, asks, trips, orphans>>

Acquire(d) ==
    /\ On(d, "acquire") /\ slot = {}
    /\ slot' = {d}
    /\ Go(d, "start")
    /\ UNCHANGED <<backlog, inflight, wake, status, whole, down, asks, trips, orphans>>

\* The context, or the backfill's deadline, ends while it waits for the slot or
\* for an idle box.
GiveUp(d) ==
    /\ gen[d].pc \in {"acquire", "start"}
    /\ d = "task" \/ down
    /\ slot' = slot \ {d}
    /\ Go(d, "finish")
    /\ UNCHANGED <<backlog, inflight, wake, status, whole, down, asks, trips, orphans>>

\* Generate: the row says pending before the item's directory is wiped.
Start(d) ==
    /\ On(d, "start") /\ ~down
    /\ \E i \in gen[d].item :
          /\ Go(d, "work")
          /\ status' = [status EXCEPT ![i] = "pending"]
          /\ whole' = whole \ {i}
          /\ orphans' = orphans \ {i}
    /\ UNCHANGED <<backlog, inflight, slot, wake, down, asks, trips>>

\* No file, or no duration; or a statement failed before anything was written.
Skip(d) ==
    /\ On(d, "start")
    /\ \E i \in gen[d].item : \/ status' = [status EXCEPT ![i] = "skipped"] /\ UNCHANGED trips
                              \/ Trip /\ UNCHANGED status
    /\ Go(d, "release")
    /\ UNCHANGED <<backlog, inflight, slot, wake, whole, down, asks, orphans>>

\* Sprites and index are written; then the row, if that can be.
Complete(d) ==
    /\ On(d, "work") /\ ~down
    /\ \E i \in gen[d].item :
          /\ whole' = whole \cup {i}
          /\ \/ status' = [status EXCEPT ![i] = "done"] /\ UNCHANGED <<trips, orphans>>
             \/ Trip /\ orphans' = orphans \cup {i} /\ UNCHANGED status
    /\ Go(d, "release")
    /\ UNCHANGED <<backlog, inflight, slot, wake, down, asks>>

\* ffmpeg fails, or the generator panics.
Fails(d) ==
    /\ On(d, "work") /\ ~down
    /\ \E i \in gen[d].item :
          \/ status' = [status EXCEPT ![i] = "failed"] /\ UNCHANGED <<trips, orphans>>
          \/ Trip /\ orphans' = orphans \cup {i} /\ UNCHANGED status
    /\ Go(d, "release")
    /\ UNCHANGED <<backlog, inflight, slot, wake, whole, down, asks>>

\* The context was cancelled: ffmpeg is dead, and the pending row is deleted.
Interrupted(d) ==
    /\ On(d, "work") /\ down
    /\ \E i \in gen[d].item :
          \/ status' = [status EXCEPT ![i] = "none"] /\ UNCHANGED <<trips, orphans>>
          \/ Trip /\ orphans' = orphans \cup {i} /\ UNCHANGED status
    /\ Go(d, "release")
    /\ UNCHANGED <<backlog, inflight, slot, wake, whole, down, asks>>

Release(d) ==
    /\ On(d, "release")
    /\ slot' = {}
    /\ Go(d, "finish")
    /\ UNCHANGED <<backlog, inflight, wake, status, whole, down, asks, trips, orphans>>

\* finish; a cancelled Run does not come back.
Finish(d) ==
    /\ On(d, "finish")
    /\ inflight' = inflight \ gen[d].item
    /\ gen' = [gen EXCEPT ![d] = [Off EXCEPT !.pc = IF down THEN "over" ELSE "idle"]]
    /\ UNCHANGED <<backlog, slot, wake, status, whole, down, asks, trips, orphans>>

-----------------------------------------------------------------------------
Shutdown ==
    /\ ~down
    /\ down' = TRUE
    /\ gen' = [d \in Doer |-> IF gen[d].pc \in {"idle", "sleep"} THEN [Off EXCEPT !.pc = "over"] ELSE gen[d]]
    /\ UNCHANGED <<backlog, inflight, slot, wake, status, whole, asks, trips, orphans>>

\* The server starts again, after a shutdown or a crash; the memory is new, and
\* six hours later what the crash left pending counts as orphaned.
Restart ==
    /\ \/ (\A d \in Doer : On(d, "over")) /\ UNCHANGED <<trips, orphans>>
       \/ /\ Trip
          /\ orphans' = orphans \cup {i \in Title : status[i] = "pending"}
    /\ backlog' = <<>> /\ inflight' = {} /\ slot' = {} /\ wake' = FALSE
    /\ gen' = [d \in Doer |-> Off]
    /\ down' = FALSE
    /\ UNCHANGED <<status, whole, asks>>

\* Work goes on: the slot is released, the box idle now and then.
Steps(d) ==
    \/ d = "run" /\ (Pop \/ Wakes)
    \/ Acquire(d) \/ Start(d) \/ Skip(d) \/ Complete(d) \/ Fails(d) \/ Interrupted(d)
    \/ down /\ GiveUp(d)
    \/ Release(d) \/ Finish(d)

Next ==
    \/ \E i \in Title : Enqueue(i) \/ EnqueueFront(i) \/ Process(i)
    \/ Pop \/ Wakes
    \/ \E d \in Doer :
          \/ Acquire(d) \/ GiveUp(d) \/ Start(d) \/ Skip(d) \/ Complete(d) \/ Fails(d)
          \/ Interrupted(d) \/ Release(d) \/ Finish(d)
    \/ Shutdown \/ Restart

-----------------------------------------------------------------------------
(* Properties.                                                             *)

TypeOK ==
    /\ backlog \in Seq(Title) /\ Len(backlog) <= MaxPending + MaxAsks
    /\ inflight \subseteq Title
    /\ slot \subseteq Doer
    /\ wake \in BOOLEAN /\ down \in BOOLEAN
    /\ gen \in [Doer -> [pc : {"idle", "sleep", "acquire", "start", "work", "release",
                               "finish", "over"},
                         item : SUBSET Title]]
    /\ status \in [Title -> {"none", "pending", "done", "failed", "skipped"}]
    /\ whole \subseteq Title
    /\ asks \in 0..MaxAsks /\ trips \in 0..MaxTrips
    /\ orphans \subseteq Title

\* One ffmpeg at a time, and an item is queued or in hand once, between Run,
\* the backfill and requests for the head of the queue.
OneAtATime ==
    /\ ~(On("run", "work") /\ On("task", "work"))
    /\ \A i \in Title :
          /\ ~(Has("run", i) /\ Has("task", i))
          /\ i \in inflight <=> \E d \in Doer : Has(d, i)
          /\ i \in inflight => i \notin Range(backlog)
    /\ IsInjective(backlog)

\* What the row calls done is on disk, whole, also while it is made again.
DoneIsWhole == \A i \in Title : status[i] = "done" => i \in whole

\* A pending row is being worked on, or is one the backfill will list again.
NoneStranded ==
    \A i \in Title :
        status[i] = "pending" => i \in orphans \/ \E d \in Doer : Has(d, i) /\ On(d, "work")

\* See the parts.
SpritesAccounted == TypeOK /\ OneAtATime /\ DoneIsWhole /\ NoneStranded

\* Run is never left asleep, nor the slot taken, while items wait.
BacklogDrains == []<>(backlog = <<>> \/ down)
=============================================================================
