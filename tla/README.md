# A verification development for OnScreen

OnScreen is a self-hosted media server written in Go. One or more API
instances share a PostgreSQL database and a Valkey store; transcode workers,
one embedded in an API process and others remote, take jobs from Valkey
queues, run ffmpeg and serve HLS segments. Beside them run the live TV proxy,
the DVR, library scans, conversions for download, scheduled tasks and the
delivery of notifications. This directory holds TLA+ models of the parts where
the concurrency is. TLC checks the models on small instances, TLAPS proves the
central results for every size.

`PROJECT.json` is the index: components, runs, mutants, the map from each
definition to the source lines it models, findings, hazards, theorems.

Run a check with `tlc -config Playback.cfg MCPlayback`, a proof with
`tlapm RungServeProofs.tla`.

## 1. Inventory

### The transcoding core

| Part | State it keeps | Operations | Module |
|---|---|---|---|
| ABR rung child (`internal/api/v1/transcode_abr.go`, `transcode.go`, `internal/transcode/worker.go`) | parent and child session, incarnation number, per-process mutex, Valkey lease, jobs, segment directories | `ensureRungChild`, `lockRungChild`, `cleanupRungChildren`, `tearDown`, the progress beacon, `runJob`, watchdog, `KillSession`, deferred wipe | `RungChild` |
| Valkey lease (`internal/valkey/lock.go`) | key with token and TTL, renewal goroutine | `TryLock`, `Lock`, `renew`, `Release` | `ValkeyLease` |
| Session store (`internal/transcode/session.go`) | session key, index set | `Create`, `Delete`, `mutateSession` and its callers, `List`, `DeleteByMedia`, expiry | `SessionStore`, `AtomicSession` |
| Segment serving (`ABRVariantSegment`) | the child's start segment, what its encoder has written, the restart floor | init and media segment requests, forced restart, waits | `RungServe` |
| Job dispatch and worker slots (`session.go`, `worker.go`) | queues, dispatch counters, registrations, `activeSessions`, `maxSessions` | `DispatchJob`, `DequeueJob`, `AckDispatch`, `jobLoop`, `TryReserveSlot`, heartbeat, `SetMaxSessions` | `Dispatch` |
| Per-user cap and supersede (`transcode.go`, `transcode_abr.go`, `session.go`) | the user's sessions, the cap lock | `Start`, `startABR`, `supersedeUserItem`, `CreateWithUserCap`, `Stop` | `UserCap` |
| Auto-continue (`internal/transcode/continuation.go`) | `index.m3u8`, `cont.m3u8`, skip and attempt counters | `continueShortSession`, the stitch goroutine | `Continuation` |

How they interact. A `Start` passes the cap and creates a parent session
(`UserCap`, `SessionStore`). A segment request on a rung (`RungServe`) calls
`ensureRungChild`, which takes the in-process mutex and then the lease
(`ValkeyLease`), replaces the child session under its next incarnation and
dispatches a job (`RungChild`, `Dispatch`). The worker's loop pops the job,
stamps its address on the session, runs ffmpeg, and extends a playlist that
ended early (`Continuation`). `Stop`, a supersede or the beacon tear the
parent and its children down while all of this goes on. Components share
state only through Valkey keys, the worker's directories and, on one
instance, Go memory.

What is hard. Nothing spans two Valkey commands: each read-modify-write is
either an optimistic transaction (`mutateSession`), or under a lock that may
expire, or unprotected. A request's context may end between any two commands.
Locks fail open by design. A job that was superseded may not even have started.
Cleanup runs from four places. The properties that make each part correct:

- rung child: no two encoders in one directory, the live encoder keeps its
  directory, superseded encoders die, a teardown leaves nothing running;
- lease: a holder keeps its key while its process lives, and nobody loses
  theirs to somebody else;
- store: overlapping updates act as if atomic, every stored session is listed;
- serving: the bytes for segment N are segment N, every request is answered;
- dispatch: the slot count is exact, every queued job runs;
- cap: never more live sessions than allowed, no lock or session left behind;
- auto-continue: the playlist grows, ends, and omits only the unreadable.

### The services beside it

| Part | State it keeps | Operations | Module |
|---|---|---|---|
| Live TV over HLS (`internal/livetv/hls.go`, `api/v1/livetv_stream.go`) | one session per channel with its tuner, ffmpeg, directory and viewer count; reservations; close timers | `Lookup`, `Acquire`, `Release`, teardown, the reaper | `LiveHLS` |
| DVR worker (`internal/livetv/dvr_worker.go`, `dvr.go`) | `recordings` rows, captures, files, library items | the tick (reap, start, honour cancellations), finalize with its retries, cancel, reconcile at start | `DVR` |
| DVR post-processing (`internal/livetv/dvr_postprocess.go`, its adapter) | the job row, the file name in the database, the files on disk | enqueue, claim, rewrite, move aside, place, swap, delete the original, script, restart | `PostProcess` |
| Converted downloads (`internal/downloads`) | conversion rows with heartbeats, users' jobs, `.part` and final files | `Request`, `Delete`, claim, encode, `Heartbeat`, `MarkReady`, requeue, evict, sweep, crash | `Downloads` |
| Refresh tokens (`cmd/server/auth_service.go`) | `sessions` rows with current and previous hash | `Refresh` (look up, rotate, landed, look again, wipe), sign in, `Logout` | `RefreshTokens` |
| Scheduler (`internal/scheduler`) | `next_run_at`, `task_runs`, `last_status` | `LeaseDueTasks`, `execute`, `RunNow`, crash | `Scheduler` |
| Trickplay (`internal/trickplay`) | backlog, in-flight set, the one slot, status rows, sprites | `Enqueue`, `EnqueueFront`, `Run`, `Process`, `Generate`, shutdown, restart | `Trickplay` |
| Plugin notifications (`internal/plugin/dispatcher.go`) | the plugin's worker and its bounded queue | `Dispatch`, `workerFor`, `enqueue`, deliver, edits, `Close` | `Plugins` |
| Library scans (`internal/scanner`, `internal/domain/media/service.go`, `cmd/server/main.go`) | `media_files` rows, soft-deleted items, scans in flight, debounced events | full scan, folder scan, `processFile`, orphan deletion, purge, clean-up | `Library` |

How they interact. The DVR worker creates a library item for a finished capture
and post-processing rewrites its file; a conversion for download reserves a slot
of the embedded transcode worker (`Dispatch`); the scheduler starts the
trickplay backfill; a finished scan queues trickplay. These are calls at an
end: none of the nine reads another's protocol state afterwards, so each
is modelled with the others as its surroundings and they are not composed.

What is hard. Each keeps a row and something outside the database (a process, a
file, a goroutine) in step, with no transaction over both. Several statements
make one operation; any of them may fail, the process may die between them,
and another actor may write the row in between. What makes each correct:

- live TV: tuners within the cap and one per channel, viewers keep their
  stream, every request is answered, every tuner comes back;
- DVR: no capture unattended, no row stranded, one item per capture, a
  cancellation sticks and stops the capture;
- post-processing: the recording survives every failure, a run touches its own
  files only, the database names a file that exists;
- downloads: one encode per conversion, ready means there is a file, files are
  reclaimed;
- tokens: exchanged once, a caller told to retry has a token to retry with, the
  owner's own races do not end all sessions;
- scheduler: a due time fires once, `task_runs` tells the truth, runs end;
- trickplay: one generation at a time, done rows have sprites, the backlog
  drains;
- plugins: one worker per plugin, `Close` returns;
- library: what is on disk is listed, a volume's absence deletes no majority.

### Parts that are not modelled

- *Stream tracker* (`internal/streaming/tracker.go`): a display table whose
  entries expire after 45 seconds. `upsert` (line 131) is a read-modify-write
  without a lock and may bring back a removed stream, until the entry expires.
- *Circuit breaker* (`internal/plugin/breaker.go`): in `Plugins` it is a free
  choice between refusing and allowing a delivery. After the cooldown several
  concurrent calls may all be the probe (line 31).
- *Segment tokens, requests, watch events and limits*: they have protocol state
  and are in the plan.
- *Playback decision*: stateless tables over codec profiles.
- *Enrichment, metadata, artwork, subtitles, podcasts, scrobbling, email*:
  clients of external services, a request and a write each.
- *Request/response handlers, the generated SQL layer, configuration,
  observability, ffmpeg's arguments and hardware probes, web and native
  clients*: no protocol TLC could say anything about. They make up most of the
  implementation's lines, and modelling them would mean transcribing them;
  the map therefore covers a small share of the repository by lines and most
  of its protocols.

Within `Library`, hierarchies (shows, seasons, artists, albums), photos, move
detection and deduplication are left out. Within `Downloads`, optimized
versions; within `RefreshTokens`, epoch bumps, second factors and expiry;
within `Scheduler`, cron arithmetic; within `DVR`, matching and retention.

## 2. Modules and their correspondence to the code

Every action stands for the code between two points where another process can
get in: one Valkey command, one critical section of Go memory, one file
operation. A call is an element of a constant set with a program counter `pc`;
it runs once. Operators marked `Mutant:` are broken variants used only to show
that a property can fail; no specification uses them.

**RungChild** One parent, one rung. `Req` are calls of `ensureRungChild` on
instances `InstOf`. `mu` is the `sync.Mutex` per rung and process, `lease`
the Valkey lease (its inside is ValkeyLease), `child` the stored incarnation
or `Absent`, `addr` the stamped worker, `job` the job each call dispatched with
its state, `dirs` the segment directories per worker, `td` a teardown by
`Stop` or the beacon. `RestartChild` .. `DispatchJob` are the steps of a
restart in the code's order; `UndoChild` is the resurrection guard. On the
worker: `StartJob`, `SetupFails` and `SpawnFails` (the two ways `runJob` ends
without a running ffmpeg), `StampJob`, `Rerun` and `GiveUp` (encoder
fail-over), `ChromaRetry`, `WatchdogKills`, `IdleKills`, `WipeDir`,
`WorkerRestart`. Faults are named in `FaultKinds`: a failing Valkey, a
cancelled context, a lost lease, a job whose setup fails. The early returns
of `runJob` come before its deferred wipe, so the directory of such a job
stays until the worker's next start; `TeardownReclaims` excepts it.

**ValkeyLease** Time is a tick; `Tick` ages the key and the tickers. `late`
and `errs` record what makes a holder unhealthy: a missed firing, failed
renewals in a row.

**SessionStore** One session id. The key carries a version number, WATCH
remembers it, EXEC compares it. `Create`, `Delete` and the two scans are the
separate commands they are in the code, in their order. A mutator in `CanSkip`
may find nothing to change (`Skip`): the fields its callback looks at, such as
ages and owners, are not in the model. **AtomicSession** is
the abstract specification: a session that is created, removed and updated
atomically, each update at most once. `SessionStore` implements it under the
mapping `applied <- {m : pc[m] = "ok"}`.

**RungServe** The handler from the client's side. `ensureRungChild` is one step
here, since it runs under the rung lock; a caller that waits too long for the lease
another instance holds goes on without it (`LockBusy`). `floor` is the restart-floor key,
`stamps`/`since` encode that every wait is longer than the floor. Requests come
at any time. Two histories say where the handler's translation goes stale: `moved`
are the requests whose child another one restarted elsewhere while they waited,
`refused` those whose own restart was refused by the floor (or by a lock held too
long) although they count on the file number 0 of the child it would have made.
`Translate` and `Seek` are the two steps in which a request learns which file is
its own; neither history outlives them.

**Dispatch** Each Valkey command of `DispatchJob` and `AckDispatch`, each
atomic operation of `jobLoop` and `TryReserveSlot`. Reservations and cap
changes concern the embedded worker, as in the code. Faults: a failing INCR or
RPUSH (`CountFails`, `PushFails`), a BLPOP that fails before or after it has
popped (`DequeueFails`: with its reply the job is lost), a failing DECR or DEL of
`AckDispatch`, whose error nobody looks at (`AckFails`), a lapsing registration, an
expiring counter, and the death of a remote worker, which takes the job in its
hands with it and comes back with empty slots. `leak` counts what such a fault
leaves in the dispatch counter; `NoPhantomJobs` allows for it and nothing else.

**UserCap** `Start` from its first check to the answer: `Reject` and `Plan` are
the early returns before and after the supersede, the rest follows the cap
lock, the session and the dispatch. `Answers(s)` is what a
Valkey command of call `s` may return: only errors once its client has left.
`excused` records that the cap was given up on purpose (a fall-open) or is out
of `Start`'s hands (a lapsed lock, a viewer who returns to a stale session).

**Continuation** The source is a line of positions with defects that stop a
linear read (`stops`) and defects where no seek can start (`dead`), chosen
freely in `Init`. The worker, the stitch goroutine and a polling player
interleave. A disk fault strikes writes of `index.m3u8`, and the second read of
`cont.m3u8` with which a finished run is folded in (`readFileOrNil`): the index is
then written without that run. A failing removal of an old `cont.m3u8` is left out.

**LiveHLS** Each critical section of `p.mu` or `s.mu` is a step, and each call
outside them. A session is named after the request that creates it.
`creating` is the reservation that bridges the unlock between the decision to
tune and the publish; `late` counts teardowns that nobody can stop any more.

**DVR** The worker is one thread (`wk`: its phase, the rows left in it, the one
in hand), interrupted between two statements by users who cancel, programmes
that end, captures that exit and the death of the process. `unsaid` records
the rows whose failure could not be written.

**PostProcess** `disk` says which version of the recording each name holds,
`kept` what was moved aside, `temp` the rewrite in progress. Where commit fails,
the moves that undo it may fail as well, and the transaction it undoes may have
landed (`PlaceFails`, `SwapFails`). `torn` records that commit was cut short or
undone in part only. `lost` records a job whose end was not written, by
`FinishPostProcess` or by `FailInterruptedPostProcess` at the next start.

**Downloads** One title: conversions are numbered, users point at them with
jobs. `fresh` is a heartbeat less than two minutes old; `unsure` records
conversions whose heartbeats were lost, or whose eviction could not be written.

**RefreshTokens** A device with two concurrent requests, and a second session of
the user. Tokens are numbers. `RotateErrs` is a statement that failed at the
client and may have committed at the server.

**Scheduler** Time is the moments a task comes due. `Tick` is the whole
transaction of `LeaseDueTasks` (SKIP LOCKED, next_run advanced); `CommitUnknown`
is one that landed while its Commit reported an error, so that nothing runs.

**Trickplay** `Run` and the backfill (`gen["run"]`, `gen["task"]`) compete for
the slot. `wake` is the channel of capacity one.

**Plugins** Senders that read the plugin's row, find or replace its worker and
enqueue, interleaved with edits, deliveries and `Close`. `workerFor` may fail to
make the new client after it stopped the old worker; a delivery may panic
(`Panic`), which ends the worker and leaves it in the map.

**Library** A path is a folder of `Weight[p]` files that come and go together;
its row, and its items by number, of which one at most is not soft-deleted.
`proc` follows one file through `processFile`: `Probe` decides, `Mark`,
`Touch`, `Item`, `File`, `Update`, `Create` and `Restore` are its statements.
`Files`, `Rewalk`, `List`, `Delete`, `Empty`, `Expired`, `Purge` and `Cleanup`
are the rest of `scan`. `marred` records the two known ways a file is hidden:
two scans at work on it at once, and a write that was cut short.

**Services** puts the nine side by side. A behaviour moves one of them only, chosen
in `Init` (`part`), since they share no state. **MCServices** instantiates it and
adds the fairness. **MCPlayback** does the same with `UserCap` and `RungServe`, the
two parts of a user's way to a stream; **MCRungServe** has the second alone.

External behaviour (Valkey's expiry and transactions, ffmpeg's exits, client
disconnects) is modelled from how the code uses it.

## 3. Runs

| Run | Instance | Shows |
|---|---|---|
| `rung_restart` | 3 calls on 2 instances, 2 workers, no fault, no teardown, worker restarts, 1 rerun | `UniqueIncarnation`, `LiveEncoderHasDir` |
| `rung_teardown` | 2 calls on one instance, every fault, `Stop` or beacon, fairness | `InProcessExclusion`, `SupersededEncoderDies`, `TeardownReclaims`, `CallsReturn` |
| `rung_orphan` | 2 calls, `Stop` | **violated**: finding 1 |
| `lease` | 2 calls, TTL 6, wait 2, up to 2 failed renewals in a row, stalls, crashes, cancellations | `HolderOwnsKey`, `NobodyEvicts`, `OnlyHolderExtends`, `LeftoverExpires`, `LockReturns` |
| `store` | 2 mutators, 2 creations, 2 scans, 2 attempts | refinement of `AtomicSession` (`UpdatesAreAtomic`), `SnapshotCurrent`, `StoreInv`, `MutatorsReturn` |
| `dispatch` | 2 jobs, 2 workers with 1 slot, 1 reservation, cap raised to 2, every fault, 2 mishaps | `SlotsExact`, `NoPhantomJobs`, `JobsRun` |
| `playback` | two parts. Starts: 3 on 2 items, cap 1, Valkey errors, disconnects, returning viewers. Serving: 2 requests on 2 instances that may overlap, 4 segments, lookahead 1 | `UserCapInv`, `LockFreed`, `OrphanReaped`; `ServedIsRequested`, `RequestsAnswered` |
| `serve_wrong` | 2 requests on one instance, 5 segments, lookahead 1 | **violated**: finding 4 |
| `continue` | 6 units from 1, margin 1, 3 continuations, skip up to 2, every fault, all defect patterns | `ContinuationInv`, `PlaylistSettles`, `PlayerEnds` |
| `continue_replay` | the same source, 6 continuations, no fault | **violated**: finding 2 |
| `services` | the nine services, below | 6 invariants, 8 temporal properties |
| `library_hidden` | 2 folders, 1 change on disk, no fault, no playlist | **violated**: finding 3 |

The instances in `services`, and what is checked of each:

| Part | Instance | Properties |
|---|---|---|
| `hls` | 3 requests on 2 channels, 1 tuner | `TunersAccounted`, `StreamsSettle` |
| `dvr` | 2 recordings of 2 users, both caps 1, 1 error, 1 crash | `CapturesAccounted`, `RecordingsSettle` |
| `post` | 3 file names, 3 runs, 2 faults | `RecordingSafe`, `JobsSettle` |
| `downloads` | 2 users, 2 conversions, 2 slots, 1 fault | `DownloadsAccounted`, `DownloadsSettle` |
| `auth` | 2 concurrent requests, 4 tokens, 1 outage | `RotationSafe`, `RacesAreTolerated` |
| `tasks` | 2 servers, 2 due times, 1 mishap | `TasksSettle` |
| `trickplay` | 2 items, backlog of 1, 1 viewer's ask, 1 trip | `SpritesSettle` |
| `plugins` | 2 senders, 2 workers, 1 edit, queue of 1, panics | `WorkersSettle` |
| `library` | folders of 1 and 4 files, the first watched; new or indexed library, any disk; 1 change, 1 slip | `LibrarySettles` |

Type invariants are checked in `store` (`StoreInv`), `dispatch` (`SlotsExact`),
`playback` (`UserCapInv`), `continue` (`ContinuationInv`) and, part by part, in
`services`; they are proved as parts of the theorems on those invariants (section
5). Those of `RungChild`, `ValkeyLease` and `RungServe` are proved only
(`TypeCorrect`, `LeaseTypeCorrect`, and a lemma of `ServedSegments`), those of
`Scheduler`, `Trickplay`, `Plugins` and `Library` checked only.

*Why the bounds are enough.* Two calls make every pairwise race; the third in
`rung_restart` lets a restart supersede an encoder while another call is still
in flight, the third in `playback` competes for a lock its holder lost. A lease of six
ticks has a renewal period of two, so that a missed firing, a failed renewal
and an expiry are distinct; two failed renewals is one more than the design
tolerates. Two attempts make the last and a not-last conflict differ. Four
segments let a child that starts in the middle hold files on both sides of the
lookahead, and a restarted one a file with the old child's index.
Six units of source leave room for two dead positions, a skip past them and a
second stall. Two workers of a plugin are one and its replacement. In `dispatch`
two mishaps let a worker die after a push failed.
Three live requests are a first viewer, a joiner and a rival for the only
tuner. Three names let a second rewrite find both the capture's name and the
first rewrite's taken. Four tokens are two sessions and two rotations, the depth
at which a token is neither current nor previous. Weights 1 and 4 are the smallest at which
the 50 % guard stops a deletion (4 known, 1 walked) and lets one pass. One slip,
error or crash per behaviour may fall on every statement. In `post` a failure and
that of its undo are one fault, so that a second may strike what they left behind.

*Deadlock* is not checked: calls are made once, jobs end, and a system with
nothing left to do may rest. That nobody waits for ever is stated as liveness.

*Fairness.* Weak fairness on the steps of a call that has begun (a goroutine
runs on; every wait in it has a deadline), on the worker's loop, watchdog and
deferred wipe, on a teardown that has begun, on TTLs, timers and tickers; in
`services` on the DVR's ticks and the end of a programme (captures have a
duration), the post-processing runner, encodes whose row still runs, heartbeats
and requeues, scheduler ticks, the generation loops, plugin deliveries (they have
a timeout), and the periodic full scan (it exists when a library's scan interval
is set). Never on an error, a cancellation, a client's decision, or the
progress of an encoder that was told to stop. Since one part moves per
behaviour of `services` and of `playback`, one WF formula serves an actor of each part: the
actions of the other parts are disabled throughout. The one strong fairness is
in `Continuation`: once the stop channel is closed, Go's `select` chooses
pseudo-randomly between it and the ticker and does not pick the ticker for ever.

*Mutants.* Every property of every passing run has a mutant: a plausible bug (a
guard dropped, an unconditional DEL, a reset forgotten, an item taken to be
live) under which TLC finds the property violated.

## 4. Findings

1. `rung_orphan` `tearDown` cleans up the rung children and then deletes the
   parent. A call that creates its child between the two sees the parent still
   there, and the child session survives both. The comment on the guard says
   one of the two must notice.
2. `continue_replay` `producedEnd` is the sum of the listed durations. It does
   not include what an earlier continuation skipped, so the next one starts too
   early and lists the same stretch twice.
3. `library_hidden` A new file is handled by a folder scan and a full scan at
   once. The first has found or created its item when another clean-up sweeps
   the item, which has no file yet; the second creates a new item of the same
   title. The first inserts the row, and the unique title refuses to restore
   its item; the unique path refuses the second's row. The row is active, its
   item soft-deleted, and since an unchanged active file is skipped, no later
   scan repairs it.
4. `serve_wrong` A request whose segment is out of reach forces a restart and sets
   `localSeg = 0`, whether or not the restart was refused (`transcode_abr.go:517`).
   When it was, because another request restarted the rung less than two seconds
   before, file 0 of that other child is served as segment N. The comment says that
   a rejected restart "simply serves from the existing child" (`:731`).

*Divergences without a run of their own.* The modules also state the following
claims of comments and docs. TLC refutes each one on the instance given;
they are kept as definitions and not as runs.

| Definition | Claim | What happens | Instance |
|---|---|---|---|
| `RungChild!FilesApart` | "the incarnation scheme keeps a duplicate's files apart" | a failed read counts as "no child" and restarts at incarnation 0; or a disconnect between `Delete` and `Create` loses the number | 2 calls, `"valkey"`; 3 calls, `"cancel"` |
| `RungChild!StampedByOwner` | "proxy segment requests to the correct worker" | a superseded job that starts late stamps the new incarnation | 2 calls, no fault |
| `RungChild!KilledStaysDown` | "a stopped session never triggers fail-over" | a kill through `KillSession` before the first segment looks like an encoder failure and is run again | 2 calls, no fault |
| `SessionStore!IndexComplete`, without its exception for healed scans | "List returns all active sessions" | the SREM of a scan hits the entry of a session created after the scan's GET | `store` |
| `Dispatch!WithinCap` | a reservation "counts against the same transcode concurrency" | the loop checks before a five-second BLPOP and adds afterwards | `dispatch` |
| `Dispatch!CounterCovers` | the counter "tracks jobs dispatched but not yet started" | an INCR between DECR and DEL is erased | `dispatch` |
| `UserCap!OneStreamPerItem` | "one stream per user/item" | two Starts list the prior sessions before either creates its own | the starts of `playback` without faults, cap 2 |
| `UserCap!RefusedLeavesNothing` | "Clean up the orphaned Valkey session" | the clean-up uses the context whose end made the dispatch fail | the starts of `playback` with disconnects, cap 2 |
| `RungServe!ServedIsRequested`, for `moved` requests too | "then serves it" (`transcode_abr.go:419`) | another request restarts the child between the translation and the answer | 2 requests on one instance, 4 segments |
| `UserCap!OneWriter` | "only one writer occupies the (count→decide→write) window at a time" (`session.go:306`) | the lock is released by an unconditional DEL (`:343`), so a holder slower than the TTL deletes its successor's | 3 starts on 3 items, cap 2, slow holders |

In the services the properties make an exception, by a guard or a history
variable, for what the code does against a comment of its own:

- *Live TV.* The reaper zeroes the count, unlocks, then tears down; a viewer who
  joins in between makes the teardown bail, and the dead session stays mapped
  until that viewer leaves (`hls.go:635` "ensures the session is torn down").
- *DVR.* `SetRecordingCompleted` and `SetRecordingFailed` have no guard and may
  overwrite a cancel that came after the worker's read ("A cancelled recording
  must stay cancelled", `dvr_worker.go:442`). An error of `SetRecordingFailed` is
  ignored: the row is stranded until a restart. After a failed
  `SetRecordingStartedFile` the partial file stays, and the retry's `ffmpeg -n`
  refuses it ("the next tick retries and captures the remainder"). A crash
  after the item was created leaves a failed row with an item.
- *Post-processing.* "the capture was never touched (the swap is the last step)"
  (`dvr_postprocess.go:246`) does not hold when the process dies between the
  move aside and the swap. A failing script after the commit, or a detect run
  after a full one, allows a second rewrite (`:208`). A failed `Stat` after the
  file was placed undoes nothing. A move that is to bring the capture back may
  itself fail (`:540`, `:574`), and a transaction that is undone on disk may have
  landed: the database then names a file that is not there, while a whole copy
  stays under another name. An error of `FailInterruptedPostProcess` is logged
  (`:248`) and the job stays 'processing' until a process starts that can fail it.
- *Downloads.* When heartbeats are lost for two minutes a second encode starts,
  both write one `.part`, and the loser removes the winner's file
  (`service.go:87` "a file at OutputPath is always complete"). A failed
  `MarkExpired` leaves a ready row without a file.
- *Tokens.* A request still under way when its token is two rotations old wipes
  the family within the grace (acknowledged at `auth_service.go:585`).
- *Scheduler.* A crash or a failed `FinishRun` leaves a run 'running'; a failed
  `CreateRun` loses it silently; a slow handler may overlap its own next run. A
  lease that landed while its Commit reported an error passes a due time over.
- *Trickplay.* "the status row is never left in 'pending' on exit"
  (`generator.go:82`) does not hold when `MarkDone` or `MarkFailed` fails.
- *Plugins.* "admin edits take effect on the next dispatch" (`dispatcher.go:164`):
  a slow `Dispatch` that read the old endpoint replaces the new worker, and the
  replaced worker's queue is lost without an audit row. A worker whose delivery
  panicked stays in the map, and events given to it are lost until an edit replaces
  it (the comment at `:200` promises that the panic is logged "instead of tearing
  down the whole dispatcher process", no more). When the new client
  cannot be made the old worker is gone
  already, and this event is dropped. "The first call after
  the cooldown is the probe" (`breaker.go:11`): several may be.
- *Auto-continue.* A fold that cannot read `cont.m3u8` again writes the list from
  before that run (`continuation.go:349`): what players had been shown is taken
  back, and since the next run starts behind it with a skip, readable segments may
  be missing.
- *Dispatch.* The errors of DECR and DEL are ignored (`session.go:860`): the worker
  looks busier than it is until its counter expires or reaches zero.
- *Library.* A crash or a failed restore between the row and its item hides the
  file for good. An error of `ListActiveFilesForLibrary` is ignored
  (`scanner.go:645`), reads as no files and passes the 50 % guard ("a mount blip
  can never turn into a false mass-delete", `:652`): `NoMassDelete` says nothing of
  a scan that knew of no file. Integer division also lets 1 of 3 pass.
  The comment says orphans are "marked missing" and `markOrphanedFiles`
  deletes them, so move detection, which matches missing rows only, sees no
  moved file. A file indexed by a folder scan after the full scan's walk is
  deleted by that scan and indexed again by the next. A walk that finds nothing
  cleans nothing up.

Left aside as hazards without a property: the request's context ending between
`Delete` and `Create` (`transcode_abr.go:755`), the stamp of a superseded job
(`session.go:691`), the rerun of a killed one (`worker.go:930`) and two Starts
on one item (`transcode.go:764`) are refuted claims of the table above.

## 5. Proofs

All theorems hold for every value of the constants that satisfies the module's
assumption.

**RungChildProofs**
- `TypeCorrect`: `Spec => []TypeOK`, with all faults and teardowns.
- `FailOpenKeepsTheMutex`: `Spec => []InProcessExclusion`, with all faults. The
  exclusion is not inductive; `MutexInv` adds that whoever is past `Lock` is
  the mutex's recorded owner. Both speak of the time before a teardown, which
  drops the mutex from the map while it may be held.
- `IncarnationsAreUnique`, `LiveDirIsKept`: `Faults = {}` is assumed (with
  faults they are false, see `FilesApart`). The inductive invariant is
  `RestartInv`: the holder of the lease is the only call in its section
  (`LeaseInv`); jobs are only dispatched by calls past that point
  (`DispatchedLate`); and until a teardown begins, the number a call is about
  to use is above every number used so far (`IncarnationInv`). The last part is
  needed because uniqueness alone says nothing about the call that has
  deleted the old child and not yet created the new one: no stored session
  remembers the number then, only the call does.

**ValkeyLeaseProofs**
- `LeaseTypeCorrect`.
- `EvictionSafety`, `ExtensionSafety`: the action properties `NobodyEvicts`
  and `OnlyHolderExtends`, with every fault. They rest on `RenewsInSection` (a
  renewal goroutine runs only inside its section) and `KeyAlive`.
- `HolderKeepsKey`: for `TTL >= 3` ticks, `HolderOwnsKey`. The strengthening
  `RenewalCovers` says how much of the TTL is left: more than the time to the
  next firing, and a period more while no renewal has failed. That three
  periods fit into a TTL (`ThreePeriods`) is where `ttl / 3` is used.

**SessionStoreProofs**
- `OptimisticLock`: `SnapshotCurrent`, the reason a successful EXEC may write
  its snapshot.
- `StoreIsAtomic`: `Spec => Atomic!Spec`, from it: every step of the detailed
  specification is an abstract creation, removal, update or a stutter.
- `IndexIsComplete`: `Spec => []StoreInv`. Completeness speaks of moments with
  nothing in flight; the strengthening `IndexOwed` says for every other moment
  who still works on the session: a creation between its SET and its SADD, a
  deletion between its two commands, or a scan that removed the entry.

**RungServeProofs**
- `ServedSegments`: `ServeSpec => []ServedIsRequested`, for any requests, however they
  overlap. `TranslationInv` says of a request that waits, and was neither moved nor
  refused, that start plus local index is its segment; `ServedInv` that it was given
  that file. The step of one request can spoil another's translation only by a
  restart, and then moves it (lemma `ExcusesOfOthers`). `RequestInv` and `ChildInv`
  carry the ranges.

**UserCapProofs**
- `CapHolds`: `Spec => []UserCapInv`. `CapInv` adds that a call that has not
  stored its session has none (`NotYetStored`), that a lock that did not lapse
  has its holder inside the window (`HolderInWindow`), and, until the cap is given
  up on purpose, that a call that has counted still has the room it saw
  (`RoomKept`). The bound alone is not inductive: a call that has decided and not
  written would break it.
- `OneWriterUnderLock`: while no lock has lapsed, two lock holders are never both
  between count and write. It does not need the other faults to be absent.

**DispatchProofs**
- `ActiveSessionsExact`: `TypeOK` and `ActiveIsExact`, with every fault and every
  change of the cap. `Hands` says that a loop holds a job exactly between BLPOP
  and the goroutine and that no two loops hold the same one. That
  `activeSessions` stays a natural number follows from its being exact, so the
  types are first proved with integers (`Types`).
- `SlotsHold`: `SlotsExact`, in behaviours in which the admin does not lower the
  cap (`[][CapNotLowered]_max`; otherwise running sessions may exceed the new
  cap). `Overshoot` adds that a waiting loop had a slot, and that a reservation
  that may still swap has read a count below the cap.
- `CounterClaimsNoPhantoms`: `NoPhantomJobs`, with every fault. It is inductive
  together with `Hands`: since a job is in one queue or one loop's hands, each
  INCR brings a job in flight and each DECR follows one that left; a job that leaves
  without its DECR is counted in `leak`.

**ContinuationProofs**
- `NothingReadableLost`, `RewritesExtend`: `ContinuationInv` and
  `PlaylistSettles`, for a source of any length with any defects. `ContInv`
  describes the playlist by what it lists and not by how it was folded: the
  prefix and a linear run behind it (`StitchInv`), and everything before the
  place of the next run listed or dead (`CoverInv`), unless a run failed where
  it could have read on, or could not be read back and folded in. The second
  theorem names that fold as the only step that takes something back. The replays
  of finding 2 are consistent with both.

**ServiceProofs** (`Services`: the specification of the nine services together,
without fairness, under `ServicesAssumption`)
- `TunersHold`: `TunersAccounted`, for finitely many requests and channels and any
  cap (`TunerConstants`). `TunerInv`: a reservation belongs to the request that
  tunes (`ReserveInv`); an unpublished session is its creator's alone
  (`PrivateInv`), a published one is its channel's until closed (`PublicInv`); a
  session that plays counts exactly its viewers (`CountInv`); and channels with a
  session or a reservation are within the cap (`BusyInv`), the bridge over the
  unlock between the decision to tune and the publish.
- `CapturesHold`: `CapturesAccounted`, for finitely many recordings, any caps,
  errors and crashes (`DVRConstants`). `DVRInv` records what the worker read when
  it made its list and may still rely on (`HandInv`, `ListInv`, `ScheduledInv`),
  that the session remembers whether it created the item (`ItemInv`: why a
  retried finalize files one), and that the room for a capture is still there when
  its row is marked (`CapsInv`).
- `CancellationSticks`: the action property `CancelSticks`, a part of
  `RecordingsSettle`, from the same invariant.
- `RecordingsSafe`: `RecordingSafe`, for any names, runs and faults
  (`PostConstants`). `AsideInv` and `DeleteInv` say where the recording is at each
  step of the two forms of commit, `RunInv` which contents exist: the rewrite in
  progress is never the one the original is taken for. An undo that fails in part
  leaves a whole copy somewhere (lemma `UndoStep`), though perhaps not where the
  database says.
- `RunsOwnTheirFiles`: `OwnFilesOnly`, a part of `JobsSettle`: the name picked for
  the result is still free when the file is placed.
- `DownloadsHold`: `DownloadsAccounted` (`RunnerConstants`). `RunnerInv`: the
  conversion of an encode is running and fresh, or deleted, and has its file once
  ffmpeg is done (`EncodeInv`), unless its heartbeats were lost.
- `TokensRotateOnce`, `RacesTolerated`: `RotationSafe` and `RacesAreTolerated`, for
  any requests, outages and tokens, two at least since there are two sessions
  (`AuthConstants`). `AuthInv`: rows share no token (`RowsInv`); an exchanged
  token is nobody's current one (`HeirInv`: why the compare-and-swap succeeds
  once); a rotation of unknown outcome can be recognised by its new token
  (`LandInv`); a retired token stays in the row the request found it in
  (`RaceInv`).

A step of `Services` is a step of one service and leaves the others alone (lemma
`Parts`), so that each invariant is inductive for its own service and is carried
over.

*How the inductive invariants were found and tested.* Each was checked with TLC
as an invariant of an instance at least as large as the run's before it was
proved (`RestartInv` and `RenewalCovers` on the instances of their runs,
`TunerInv` on 80,907 states, `AuthInv` on 306,292, `RunnerInv` with three faults
on 544,754, `ContInv` on 679,580). None is part of a run. Every
non-temporal leaf of every proof was also tried with its goal replaced by FALSE, to find steps whose
hypotheses contradict each other; those that remain are proofs by contradiction
and cases that cannot occur. That is how it was noticed that this prover's
translation of `[f EXCEPT ![r].a = x, ![r].b = y]`, two updates at one argument,
is inconsistent; the modules that are proved about update the record in one
nested EXCEPT.

*Only model-checked.*
- Every liveness property: fairness and ENABLED are beyond the prover. Of the
  properties that combine safety and liveness (`RecordingsSettle`, `JobsSettle`,
  `StreamsSettle`, `DownloadsSettle`), the action properties `CancelSticks` and
  `OwnFilesOnly` are proved.
- The safety parts of `TasksSettle`, `SpritesSettle`, `WorkersSettle` and
  `LibrarySettles`: `Scheduler`, `Trickplay`, `Plugins` and `Library` have no proofs
  yet. `CancelStopsCapture` of `DVR` neither.
- That the defects of a source are what `Continuation` takes them to be, and the
  other external behaviour of section 2: these are assumptions of the models.

## 6. Plan

Done: the transcoding core; faults and crashes in `Dispatch`; the nine services;
proofs of the safety invariants of the core, `LiveHLS`, `DVR`, `PostProcess`,
`Downloads` and `RefreshTokens`. Left, in this order:

1. Prove: `OncePerDue` of `Scheduler`, one generation at a time of `Trickplay`, one
   worker per plugin of `Plugins`, the 50 % guard of `Library`. Their updates of
   two fields of one record have to be nested first.
2. Compose `RungChild` with `ValkeyLease` (its `TakeLease`, `LoseLease` and
   `Unlock` as the lease's actions) so that "lost lease" is derived.
3. Abstract specifications: mutual exclusion for `ValkeyLease` while holders are
   healthy; a counting semaphore for `Dispatch`'s slots.
4. Model: segment tokens against teardown, requests against the library and the
   download clients, watch events under duplicated beacons, hierarchies and move
   detection in `Library`.

The set of runs is kept small on purpose: related questions share a run, with
history variables (`late`, `moved`, `refused`, `excused`, `mishap`, `unsaid`, `torn`,
`unsure`, `marred`) separating what the code promises from what it gives up.
