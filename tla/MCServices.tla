------------------------------ MODULE MCServices ------------------------------
(* The services, each on a small instance, and the fairness they run under.  *)
EXTENDS Services, TLC

CONSTANTS r1, r2, r3, c1, c2, a1, a2, u1, u2, p1, p2, p3, s1, s2
MCReq == {r1, r2, r3}
MCChannel == {c1, c2}
MCchan == r1 :> c1 @@ r2 :> c1 @@ r3 :> c2
MCRec == {a1, a2}
MCUser == a1 :> u1 @@ a2 :> u2
MCPath == {p1, p2, p3}
MCAccount == {u1, u2}
MCSlot == {s1, s2}
MCCaller == {r1, r2}
MCServer == {s1, s2}
MCTitle == {a1, a2}
MCSender == {s1, s2}
MCFolder == {p1, p2}
MCWeight == p1 :> 1 @@ p2 :> 4
MCWatched == {p1}

\* What gets to run, in every part: handlers, timers and reapers; the DVR's
\* ticks, and the ends of programmes and captures; the runners and the upkeep of
\* downloads; ticks and tasks; generation; the plugin's worker and Close; scans.
\* Only one part moves in a behaviour, so one formula is fair to an actor of each.
Fairness ==
    /\ WF_vars(\/ Hls(H!Steps(r1)) \/ Dvr(D!Tick) \/ Post(P!Runner) \/ Down(L!Works(s1))
               \/ Task(\E p \in {s1, s2} : S!Tick(p)) \/ Trick(T!Steps("run"))
               \/ Plug(N!Steps(1)) \/ Lib(B!Works("full")))
    /\ WF_vars(\/ Hls(H!Steps(r2)) \/ Dvr(D!Ending(a1)) \/ Down(L!Works(s2))
               \/ Task(S!Goes(1)) \/ Trick(T!Steps("task")) \/ Plug(N!Steps(2))
               \/ Lib(B!Works(p1)))
    /\ WF_vars(\/ Hls(H!Steps(r3)) \/ Dvr(D!Ending(a2)) \/ Down(L!Keeps(1))
               \/ Task(S!Goes(2)))
    /\ WF_vars(Hls(H!Ends(r1)) \/ Down(L!Keeps(2)) \/ Plug(N!CloseCancel))
    /\ WF_vars(Hls(H!Ends(r2)) \/ Plug(N!CloseReturn))
    /\ WF_vars(Hls(H!Ends(r3)))

Spec == Init /\ [][Next]_vars /\ Fairness

-----------------------------------------------------------------------------
(* What the parts do in the end, explained in their modules.               *)

\* LiveHLS: every request is answered and every tuner given back.
StreamsSettle == H!RequestsAnswered /\ H!TunersFreed

\* DVR: a cancellation is overwritten only by a worker that read the row before
\* it, stops the capture, and every recording gets a final status.
RecordingsSettle ==
    /\ D!CancelSticks
    /\ D!CancelStopsCapture
    /\ []<>(part = "dvr" => D!Settled)

\* PostProcess: a run changes its own files only, and jobs end.
JobsSettle == P!OwnFilesOnly /\ P!JobsEnd

\* Downloads: conversions end, encodes stop, and leftover files are reclaimed.
DownloadsSettle == L!ConversionsEnd /\ L!EncodesStop /\ L!FilesReclaimed

\* Scheduler: instances fire a due time once, and what task_runs says of a run is so,
\* but for what failing statements leave; due times are taken up and runs end.
TasksSettle == [](part = "tasks" => S!TasksAccounted) /\ S!TasksRun

\* Trickplay: one generation at a time, an item queued once, done rows backed by
\* whole sprites, and pending ones by someone at work; the backlog drains.
SpritesSettle == [](part = "trickplay" => T!SpritesAccounted) /\ T!BacklogDrains

\* Plugins: one worker per plugin, none after Close, none picked for an event once it
\* was told to stop, and both stop and Close end, whatever panics.
WorkersSettle ==
    /\ [](part = "plugins" => N!WorkersAccounted)
    /\ N!CloseReturns
    /\ N!StoppedExit

\* Library: files stay listed while scans overlap, a volume's absence deletes no
\* majority of the files the scan knew of, and full scans bring the rows back in step
\* with a disk at rest.
LibrarySettles ==
    /\ [](part = "library" => B!LibraryAccounted)
    /\ B!NoMassDelete
    /\ B!Converges
=============================================================================
