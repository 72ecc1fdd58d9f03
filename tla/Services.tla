------------------------------ MODULE Services -------------------------------
(***************************************************************************)
(* The services beside transcoding: live TV over HLS, the DVR worker and   *)
(* its post-processing, converted downloads, refresh tokens, the task      *)
(* scheduler, trickplay, plugin notifications and library scans.           *)
(* They share no state, so a behaviour runs one of them, chosen at the     *)
(* start.                                                                  *)
(***************************************************************************)
EXTENDS Integers, FiniteSets

CONSTANTS Req, Channel, chan, MaxSessions, None
VARIABLES pc, mine, pend, sessions, creating, ses, reap
H == INSTANCE LiveHLS

CONSTANTS Rec, User, MaxCaptures, MaxPerUser, MaxErrors, MaxCrashes, NoRec
VARIABLES row, over, file, cap, active, items, wk, errors, crashes, unsaid
D == INSTANCE DVR

CONSTANTS Path, Capture, MaxRuns, MaxFaults
VARIABLES job, at, opt, db, src, disk, kept, temp, final, runs, faults, asked, torn, lost
P == INSTANCE PostProcess

CONSTANTS Account, MaxConv, Slot, MaxUpsets
VARIABLES st, fresh, wants, del, run, running, partial, output, ev, nfaults, unsure
L == INSTANCE Downloads
        WITH User <- Account, MaxFaults <- MaxUpsets,
             job <- wants, part <- partial, final <- output

CONSTANTS Caller, MaxTok, MaxOutages
VARIABLES rows, q, held, ntok, heirs, lapsed, outages
R == INSTANCE RefreshTokens

CONSTANTS Server, MaxDue, MaxMishaps
VARIABLES due, elapsed, leases, ex, runrow, last, mishaps
S == INSTANCE Scheduler

CONSTANTS Title, MaxPending, MaxAsks, MaxTrips
VARIABLES backlog, inflight, slot, wake, gen, status, whole, down, asks, trips, orphans
T == INSTANCE Trickplay

CONSTANTS Sender, MaxWorker, MaxEdits, Depth
VARIABLES send, endpoint, workers, shut, wrk
N == INSTANCE Plugins

CONSTANTS Folder, Weight, Watched, Swapped, MaxEvents, MaxSlips
VARIABLES tree, mrow, live, dirty, scan, proc, events, slips, steady, marred
B == INSTANCE Library WITH Path <- Folder, Replaced <- Swapped

\* What the constants are: finitely many requests and channels, each request for one
\* of the channels, and a value that is no request;
TunerConstants ==
    /\ IsFiniteSet(Req) /\ IsFiniteSet(Channel)
    /\ chan \in [Req -> Channel]
    /\ MaxSessions \in Nat
    /\ None \notin Req

\* finitely many recordings, the caps of the DVR worker, and bounds;
DVRConstants ==
    /\ IsFiniteSet(Rec)
    /\ NoRec \notin Rec
    /\ MaxCaptures \in Nat /\ MaxPerUser \in Nat
    /\ MaxErrors \in Nat /\ MaxCrashes \in Nat

\* the name ffmpeg captured to, among the names;
PostConstants == Capture \in Path /\ MaxRuns \in Nat /\ MaxFaults \in Nat

\* the runner's bounds, and room for the two sessions of a user.
RunnerConstants == MaxConv \in Nat /\ MaxUpsets \in Nat
AuthConstants == MaxTok \in Nat /\ MaxTok >= 2 /\ MaxOutages \in Nat

ASSUME ServicesAssumption ==
    TunerConstants /\ DVRConstants /\ PostConstants /\ RunnerConstants /\ AuthConstants

VARIABLE part
hlsVars == <<pc, mine, pend, sessions, creating, ses, reap>>
dvrVars == <<row, over, file, cap, active, items, wk, errors, crashes, unsaid>>
postVars == <<job, at, opt, db, src, disk, kept, temp, final, runs, faults, asked, torn, lost>>
downVars == <<st, fresh, wants, del, run, running, partial, output, ev, nfaults, unsure>>
authVars == <<rows, q, held, ntok, heirs, lapsed, outages>>
taskVars == <<due, elapsed, leases, ex, runrow, last, mishaps>>
trickVars == <<backlog, inflight, slot, wake, gen, status, whole, down, asks, trips, orphans>>
plugVars == <<send, endpoint, workers, shut, wrk>>
libVars == <<tree, mrow, live, dirty, scan, proc, events, slips, steady, marred>>
vars ==
    <<hlsVars, dvrVars, postVars, downVars, authVars, taskVars,
      trickVars, plugVars, libVars, part>>

Init ==
    /\ part \in {"hls", "dvr", "post", "downloads", "auth", "tasks", "trickplay", "plugins",
                "library"}
    /\ H!Init /\ D!Init /\ P!Init /\ L!Init /\ R!Init /\ S!Init /\ T!Init /\ N!Init
    /\ B!Init
    /\ part # "library" => \A p \in Folder : tree[p] = "absent" /\ live[p] = 0

Hls(A) ==
    /\ part = "hls" /\ A
    /\ UNCHANGED <<dvrVars, postVars, downVars, authVars, taskVars, trickVars, plugVars, libVars, part>>
Dvr(A) ==
    /\ part = "dvr" /\ A
    /\ UNCHANGED <<hlsVars, postVars, downVars, authVars, taskVars, trickVars, plugVars, libVars, part>>
Post(A) ==
    /\ part = "post" /\ A
    /\ UNCHANGED <<hlsVars, dvrVars, downVars, authVars, taskVars, trickVars, plugVars, libVars, part>>
Down(A) ==
    /\ part = "downloads" /\ A
    /\ UNCHANGED <<hlsVars, dvrVars, postVars, authVars, taskVars, trickVars, plugVars, libVars, part>>
Auth(A) ==
    /\ part = "auth" /\ A
    /\ UNCHANGED <<hlsVars, dvrVars, postVars, downVars, taskVars, trickVars, plugVars, libVars, part>>
Task(A) ==
    /\ part = "tasks" /\ A
    /\ UNCHANGED <<hlsVars, dvrVars, postVars, downVars, authVars, trickVars, plugVars, libVars, part>>
Trick(A) ==
    /\ part = "trickplay" /\ A
    /\ UNCHANGED <<hlsVars, dvrVars, postVars, downVars, authVars, taskVars, plugVars, libVars, part>>
Plug(A) ==
    /\ part = "plugins" /\ A
    /\ UNCHANGED <<hlsVars, dvrVars, postVars, downVars, authVars, taskVars, trickVars, libVars, part>>
Lib(A) ==
    /\ part = "library" /\ A
    /\ UNCHANGED <<hlsVars, dvrVars, postVars, downVars, authVars, taskVars, trickVars,
                   plugVars, part>>

Next ==
    \/ Hls(H!Next)
    \/ Dvr(D!Next)
    \/ Post(P!Next)
    \/ Down(L!Next)
    \/ Auth(R!Next)
    \/ Task(S!Next)
    \/ Trick(T!Next)
    \/ Plug(N!Next)
    \/ Lib(B!Next)

-----------------------------------------------------------------------------
(* The properties of the parts, explained in their modules.                *)

\* LiveHLS: however first viewers, corpses, timers and crashes overlap, tuners
\* stay within the cap, one per channel and reachable, and viewers keep theirs.
TunersAccounted == part = "hls" => H!TunersAccounted

\* DVR: no capture runs unattended or beyond the caps, no row is stranded in
\* 'recording', and a capture becomes one item, only if its file is whole.
CapturesAccounted == part = "dvr" => D!CapturesAccounted

\* PostProcess: whatever fails, the recording is on disk and, but for the failures
\* named there, the database names a file that exists.
RecordingSafe == part = "post" => P!RecordingSafe

\* Downloads: across crashes, requeues, deletions and evictions one encode writes
\* a conversion, a ready one has its file, and a waited-for one is kept.
DownloadsAccounted == part = "downloads" => L!DownloadsAccounted

\* RefreshTokens: a token is exchanged once, and a caller told to try again
\* still has a token to try with.
RotationSafe == part = "auth" => R!RotationSafe

\* RefreshTokens: the owner's own racing requests do not sign the user out on
\* every device.
RacesAreTolerated == part = "auth" => R!RacesAreTolerated
=============================================================================
