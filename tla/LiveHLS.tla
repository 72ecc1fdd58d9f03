------------------------------- MODULE LiveHLS --------------------------------
(***************************************************************************)
(* The live TV proxy: one ffmpeg and one tuner per channel, shared by its  *)
(* viewers and torn down a grace period after the last one left.           *)
(*                                                                         *)
(*   internal/livetv/hls.go           HLSProxy                             *)
(*   internal/api/v1/livetv_stream.go StreamPlaylist, StreamSegment        *)
(*                                                                         *)
(* A step is what runs under p.mu or s.mu, or one call outside of them.    *)
(* A session is named after the request that creates it; a request creates *)
(* at most one.  Removing a session directory is taken to succeed.         *)
(***************************************************************************)
EXTENDS Integers, FiniteSets

CONSTANTS Req,          \* HTTP requests
          Channel,
          chan,         \* the channel each request is for
          MaxSessions,
          None

VARIABLES
    pc,        \* where each request is
    mine,      \* the session it holds a reference to
    pend,      \* the reservation it waits for
    sessions,  \* p.sessions
    creating,  \* p.creating: the request that holds the reservation
    ses,       \* the sessions
    reap       \* where the reaper of each session is

hlsVars == <<pc, mine, pend, sessions, creating, ses, reap>>

\* late: calls of teardown under way or scheduled that nobody can stop any more.
\* down: how far teardown came; the session is closed unless it is "no".
NewSession == [ref |-> 0, up |-> FALSE, dir |-> FALSE, ff |-> "none",
               armed |-> FALSE, late |-> 0, down |-> "no"]

Init ==
    /\ pc = [r \in Req |-> "idle"]
    /\ mine = [r \in Req |-> None]
    /\ pend = [r \in Req |-> None]
    /\ sessions = [c \in Channel |-> None]
    /\ creating = [c \in Channel |-> None]
    /\ ses = [s \in Req |-> NewSession]
    /\ reap = [s \in Req |-> "none"]

At(r, from, to) == pc[r] = from /\ pc' = [pc EXCEPT ![r] = to]

Live(c) == sessions[c] # None /\ ses[sessions[c]].down = "no"

\* One more viewer; a timer that has not fired yet is stopped.
Attach(s) == [ses EXCEPT ![s] = [ses[s] EXCEPT !.ref = @ + 1, !.armed = FALSE]]

JoinLive(r) ==
    LET s == sessions[chan[r]]
    IN  /\ Live(chan[r])
        /\ ses' = Attach(s)
        /\ mine' = [mine EXCEPT ![r] = s]
        /\ UNCHANGED <<pend, sessions, creating, reap>>

endReservation(c, r) ==
    IF creating[c] = r THEN [creating EXCEPT ![c] = None] ELSE creating

-----------------------------------------------------------------------------
(* The requests.                                                           *)

\* StreamPlaylist acquires a session, StreamSegment only looks one up.
Begin(r) ==
    /\ At(r, "idle", "join") \/ At(r, "idle", "lookup")
    /\ UNCHANGED <<mine, pend, sessions, creating, ses, reap>>

\* Lookup, for a segment: never creates.
LookupHit(r) == At(r, "lookup", "hold") /\ JoinLive(r)

LookupMiss(r) ==
    /\ At(r, "lookup", "done")
    /\ ~Live(chan[r])
    /\ UNCHANGED <<mine, pend, sessions, creating, ses, reap>>

\* joinOrReserve, one turn of its loop.
Join(r) == At(r, "join", "hold") /\ JoinLive(r)

\* Another request is creating this channel's session.
JoinWaits(r) ==
    /\ At(r, "join", "wait")
    /\ ~Live(chan[r])
    /\ creating[chan[r]] # None
    /\ pend' = [pend EXCEPT ![r] = creating[chan[r]]]
    /\ UNCHANGED <<mine, sessions, creating, ses, reap>>

\* A corpse gives its slot to the session that replaces it.
Occupied(c) ==
    Cardinality({d \in Channel : sessions[d] # None})
    + Cardinality({d \in Channel : creating[d] # None})
    - (IF sessions[c] # None THEN 1 ELSE 0)

Reserve(r) ==
    /\ At(r, "join", "tune")
    /\ ~Live(chan[r])
    /\ creating[chan[r]] = None
    /\ Occupied(chan[r]) < MaxSessions
    /\ creating' = [creating EXCEPT ![chan[r]] = r]
    /\ UNCHANGED <<mine, pend, sessions, ses, reap>>

JoinBusy(r) ==
    /\ At(r, "join", "done")
    /\ ~Live(chan[r])
    /\ creating[chan[r]] = None
    /\ Occupied(chan[r]) >= MaxSessions
    /\ UNCHANGED <<mine, pend, sessions, creating, ses, reap>>

\* The reservation's channel was closed: look again.
WaitOver(r) ==
    /\ At(r, "wait", "join")
    /\ creating[chan[r]] # pend[r]
    /\ pend' = [pend EXCEPT ![r] = None]
    /\ UNCHANGED <<mine, sessions, creating, ses, reap>>

WaitCancelled(r) ==
    /\ At(r, "wait", "done")
    /\ pend' = [pend EXCEPT ![r] = None]
    /\ UNCHANGED <<mine, sessions, creating, ses, reap>>

\* OpenChannelStream, on a context of the session's own.
Tune(r) ==
    /\ At(r, "tune", "start")
    /\ ses' = [ses EXCEPT ![r].up = TRUE]
    /\ UNCHANGED <<mine, pend, sessions, creating, reap>>

TuneFails(r) ==
    /\ At(r, "tune", "poll")
    /\ creating' = endReservation(chan[r], r)
    /\ UNCHANGED <<mine, pend, sessions, ses, reap>>

\* After a failed tune: Lookup every 100 ms, for two seconds at most.
PollHit(r) == At(r, "poll", "hold") /\ JoinLive(r)

PollGivesUp(r) ==
    /\ At(r, "poll", "done")
    /\ UNCHANGED <<mine, pend, sessions, creating, ses, reap>>

\* The session directory is made and ffmpeg started.
StartFFmpeg(r) ==
    /\ At(r, "start", "publish")
    /\ ses' = [ses EXCEPT ![r] = [ses[r] EXCEPT !.dir = TRUE, !.ff = "run", !.ref = 1]]
    /\ UNCHANGED <<mine, pend, sessions, creating, reap>>

StartFails(r) ==
    /\ At(r, "start", "done")
    /\ ses' = [ses EXCEPT ![r].up = FALSE]
    /\ creating' = endReservation(chan[r], r)
    /\ UNCHANGED <<mine, pend, sessions, reap>>

\* The session is published and the reservation ended in one critical section.
\* With a live session in its place the new one would be discarded.
Publish(r) ==
    LET c == chan[r]
        s == IF Live(c) THEN sessions[c] ELSE r
    IN  /\ At(r, "publish", "hold")
        /\ sessions' = [sessions EXCEPT ![c] = s]
        /\ creating' = endReservation(c, r)
        /\ mine' = [mine EXCEPT ![r] = s]
        /\ ses' = IF s = r THEN ses
                  ELSE [Attach(s) EXCEPT ![r] = [NewSession EXCEPT !.ff = "dead"]]
        /\ reap' = [reap EXCEPT ![r] = IF s = r THEN "wait" ELSE @]
        /\ UNCHANGED pend

\* Mutant: the last viewer that leaves starts no timer.
ReleaseForgets(r) ==
    LET s == mine[r]
    IN  /\ At(r, "hold", "done")
        /\ mine' = [mine EXCEPT ![r] = None]
        /\ ses' = [ses EXCEPT ![s].ref = @ - 1]
        /\ UNCHANGED <<pend, sessions, creating, reap>>

\* The answer is written and the reference given back.  A timer that was
\* still running is overwritten, not stopped: it will call teardown too.
Release(r) ==
    LET s == mine[r]
        left == ses[s].ref - 1
    IN  /\ At(r, "hold", "done")
        /\ mine' = [mine EXCEPT ![r] = None]
        /\ ses' = IF ses[s].down # "no" THEN ses
                  ELSE IF left > 0 THEN [ses EXCEPT ![s].ref = left]
                  ELSE [ses EXCEPT ![s] =
                           [ses[s] EXCEPT !.ref = left, !.armed = TRUE,
                                          !.late = IF ses[s].armed THEN @ + 1 ELSE @]]
        /\ UNCHANGED <<pend, sessions, creating, reap>>

-----------------------------------------------------------------------------
(* The end of a session.                                                   *)

\* The grace timer goes off; its teardown now waits for s.mu.
TimerFires(s) ==
    /\ ses[s].armed
    /\ ses' = [ses EXCEPT ![s] = [ses[s] EXCEPT !.armed = FALSE, !.late = @ + 1]]
    /\ UNCHANGED <<pc, mine, pend, sessions, creating, reap>>

\* Mutant: teardown does not look at the reference count again.
ClosedUnchecked(s) == IF ses[s].down = "no" THEN "closed" ELSE ses[s].down

\* The locked part of teardown: bail when a viewer arrived in the meantime.
Closed(s) ==
    IF ses[s].down = "no" /\ ses[s].ref <= 0 THEN "closed" ELSE ses[s].down

TimerTeardown(s) ==
    /\ ses[s].late > 0
    /\ ses' = [ses EXCEPT ![s] = [ses[s] EXCEPT !.late = @ - 1, !.down = Closed(s)]]
    /\ UNCHANGED <<pc, mine, pend, sessions, creating, reap>>

\* teardown: cancel, close the upstream, remove the directory.
TeardownReleases(s) ==
    /\ ses[s].down = "closed"
    /\ ses' = [ses EXCEPT ![s] = [ses[s] EXCEPT !.down = "released", !.ff = "dead",
                                                !.up = FALSE, !.dir = FALSE]]
    /\ UNCHANGED <<pc, mine, pend, sessions, creating, reap>>

\* teardown: drop the map entry, if it is still this session's.
TeardownUnmaps(s) ==
    /\ ses[s].down = "released"
    /\ ses' = [ses EXCEPT ![s].down = "gone"]
    /\ sessions' = [c \in Channel |-> IF sessions[c] = s THEN None ELSE sessions[c]]
    /\ UNCHANGED <<pc, mine, pend, creating, reap>>

\* ffmpeg crashes, or its input ends.
FFmpegExits(s) ==
    /\ ses[s].ff = "run"
    /\ ses' = [ses EXCEPT ![s].ff = "dead"]
    /\ UNCHANGED <<pc, mine, pend, sessions, creating, reap>>

\* reaper: the viewers of a dead stream do not count.
ReaperZeroes(s) ==
    /\ reap[s] = "wait" /\ ses[s].ff = "dead"
    /\ reap' = [reap EXCEPT ![s] = "zeroed"]
    /\ ses' = [ses EXCEPT ![s].ref = 0]
    /\ UNCHANGED <<pc, mine, pend, sessions, creating>>

ReaperTeardown(s) ==
    /\ reap[s] = "zeroed"
    /\ reap' = [reap EXCEPT ![s] = "over"]
    /\ ses' = [ses EXCEPT ![s].down = Closed(s)]
    /\ UNCHANGED <<pc, mine, pend, sessions, creating>>

-----------------------------------------------------------------------------
Steps(r) ==
    \/ LookupHit(r) \/ LookupMiss(r)
    \/ Join(r) \/ JoinWaits(r) \/ Reserve(r) \/ JoinBusy(r) \/ WaitOver(r)
    \/ Tune(r) \/ TuneFails(r) \/ PollHit(r) \/ PollGivesUp(r)
    \/ StartFFmpeg(r) \/ StartFails(r) \/ Publish(r) \/ Release(r)

Ends(s) ==
    \/ TimerFires(s) \/ TimerTeardown(s)
    \/ TeardownReleases(s) \/ TeardownUnmaps(s)
    \/ ReaperZeroes(s) \/ ReaperTeardown(s)

Next ==
    \E r \in Req :
        Begin(r) \/ Steps(r) \/ WaitCancelled(r) \/ Ends(r) \/ FFmpegExits(r)

-----------------------------------------------------------------------------
(* Properties.                                                             *)

TypeOK ==
    /\ pc \in [Req -> {"idle", "lookup", "join", "wait", "tune", "poll",
                       "start", "publish", "hold", "done"}]
    /\ mine \in [Req -> Req \cup {None}]
    /\ pend \in [Req -> Req \cup {None}]
    /\ sessions \in [Channel -> Req \cup {None}]
    /\ creating \in [Channel -> Req \cup {None}]
    /\ ses \in [Req -> [ref : Int, up : BOOLEAN, dir : BOOLEAN,
                        ff : {"none", "run", "dead"}, armed : BOOLEAN, late : Nat,
                        down : {"no", "closed", "released", "gone"}]]
    /\ reap \in [Req -> {"none", "wait", "zeroed", "over"}]

\* The sessions that hold a tuner and that no teardown has closed.
Tuned == {s \in Req : ses[s].up /\ ses[s].down = "no"}

\* MaxSessions bounds what is tuned, however many first viewers of however
\* many channels arrive at once and whatever corpses are being replaced.
TunersBounded == Cardinality(Tuned) <= MaxSessions

\* No two sessions are tuned to one channel: the reservation closes the create
\* race, and no viewer ever finds its new session already replaced.
OneTunePerChannel ==
    \A s, t \in Tuned : chan[s] = chan[t] => s = t

\* A session that holds a tuner can be found: it is the one its channel maps
\* to, or its creator still holds the channel's reservation.  A late teardown
\* of an earlier session never unmaps its successor.
TunedIsReachable ==
    \A s \in Tuned : s \in {sessions[chan[s]], creating[chan[s]]}

\* As long as its ffmpeg runs, a session counts its viewers exactly, and with
\* one viewer left it keeps its tuner and its directory: no timer that fired
\* before the viewer came takes them away.
ViewersKeepStream ==
    \A s \in Req :
        LET viewers == {r \in Req : mine[r] = s}
        IN  ses[s].ff = "run" /\ reap[s] = "wait" =>
            /\ ses[s].down = "no" => ses[s].ref = Cardinality(viewers)
            /\ viewers # {} => ses[s].down = "no" /\ ses[s].up /\ ses[s].dir

\* Every request is answered: nobody waits forever for another's reservation.
RequestsAnswered == []<>(\A r \in Req : pc[r] \in {"idle", "done"})

\* Tuners are given back once the viewers are gone, whether the session ends
\* by its timer, by a crash of ffmpeg or never got started.
TunersFreed == []<>(\A s \in Req : ~ses[s].up)

\* Tuners and viewers are accounted for: see the parts.
TunersAccounted ==
    /\ TypeOK
    /\ TunersBounded /\ OneTunePerChannel /\ TunedIsReachable
    /\ ViewersKeepStream
=============================================================================
