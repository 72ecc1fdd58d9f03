------------------------------- MODULE Library -------------------------------
(***************************************************************************)
(* How scans keep the rows of a movie library in step with the files on    *)
(* disk.                                                                   *)
(*                                                                         *)
(*   internal/scanner/scanner.go        scan, processFile                  *)
(*   internal/scanner/watcher.go        Watcher                            *)
(*   internal/domain/media/service.go   rows and items                     *)
(*   internal/db/queries/media.sql                                         *)
(*   cmd/server/main.go                 scanEnqueuer, periodicScanWorker   *)
(*                                                                         *)
(* A full scan walks every folder, the watcher's scans one folder each.    *)
(* They overlap, handle their files concurrently, and look a file up some  *)
(* statements before they write what follows from it.                      *)
(*                                                                         *)
(* A path is a folder of Weight[p] files that come and go together.  Each  *)
(* has a title of its own, so the path has one row and at most one item    *)
(* that is not soft-deleted; its items are numbered.  Whether a known file *)
(* counts as unchanged (size, mtime, hash) is left open.  The files of two *)
(* paths differ, so nothing is taken for a moved file.                     *)
(***************************************************************************)
EXTENDS Integers, FiniteSets, FiniteSetsExt

CONSTANTS Path, Weight,
          Watched,     \* the folders whose events reach the watcher
          Replaced,    \* the folders where a playlist may take a file's place
          MaxEvents,   \* bound: changes on disk
          MaxSlips     \* bound: failing statements, crashes

VARIABLES
    tree,     \* on disk: "absent", "media", or a "playlist" in its place
    mrow,     \* the media_files row: id, status and item
    live,     \* the item that is not soft-deleted, or 0
    dirty,    \* folders with a debounced event
    scan,     \* the full scan and the folder scans
    proc,     \* how far a scan is with a file
    events, slips,
    steady,   \* history: media, and left alone since the full scan's walk
    marred    \* history: handled by two scans at once, or an item not restored

store == <<mrow, live>>
vars == <<tree, store, dirty, scan, proc, events, slips, steady, marred>>

Scans == {"full"} \cup Watched
NoRow == [id |-> 0, st |-> "none", item |-> 0]
Idle == [at |-> "idle", walked |-> {}, known |-> {}, gone |-> {}]
Done == [at |-> "done", id |-> 0, item |-> 0]

Count(P) == MapThenSumSet(LAMBDA p : Weight[p], P)
OnDisk == {p \in Path : tree[p] # "absent"}
Active == {p \in Path : mrow[p].st = "active"}

\* A new id is the least that nothing refers to any more.
Refs(p) ==
    {mrow[p], [id |-> 0, item |-> live[p]]}
        \cup {proc[a][p] : a \in Scans}
        \cup {g \in UNION {scan[a].gone : a \in Scans} : g.path = p}
Unused(S) == Min((1..Cardinality(S) + 1) \ S)

\* What may be found in a folder.
Contents(p) == {"absent", "media"} \cup (IF p \in Replaced THEN {"playlist"} ELSE {})

\* The server starts on a new library, or on one that was indexed while every
\* file was there; the disk may have changed since.
Init ==
    /\ tree \in [Path -> UNION {Contents(p) : p \in Path}]
    /\ \A p \in Path : tree[p] \in Contents(p)
    /\ \E n \in 0..1 : live = [p \in Path |-> n]
    /\ mrow = [p \in Path |->
            IF live[p] = 0 THEN NoRow ELSE [id |-> 1, st |-> "active", item |-> 1]]
    /\ dirty = {}
    /\ scan = [a \in Scans |-> Idle]
    /\ proc = [a \in Scans |-> [p \in Path |-> Done]]
    /\ events = 0 /\ slips = 0
    /\ steady = {} /\ marred = {}

-----------------------------------------------------------------------------
(* The disk, the watcher and the clock.                                    *)

\* Files arrive, vanish (or their volume does), or are replaced in place.  The
\* watcher hears of it where it can.
Change(p) ==
    /\ events < MaxEvents
    /\ events' = events + 1
    /\ \E c \in Contents(p) \ {tree[p]} : tree' = [tree EXCEPT ![p] = c]
    /\ dirty' = dirty \cup ({p} \cap Watched)
    /\ steady' = steady \ {p}
    /\ UNCHANGED <<store, scan, proc, slips, marred>>

\* The missing-file grace period of a row passes.
Expire(p) ==
    /\ mrow[p].st = "missing"
    /\ mrow' = [mrow EXCEPT ![p].st = "expired"]
    /\ UNCHANGED <<tree, live, dirty, scan, proc, events, slips, steady, marred>>

\* walkLibraryFiles, and every file found is handed to processFile.  A walk
\* that finds nothing ends the scan.
Walk(a, found) ==
    /\ scan' = [scan EXCEPT ![a] = [Idle EXCEPT !.at = "files", !.walked = found]]
    /\ proc' = [proc EXCEPT ![a] =
            [p \in Path |-> IF p \in found THEN [Done EXCEPT !.at = "probe"] ELSE Done]]

\* EnqueueScan, one at a time.  History: the files no folder scan looked at
\* before this walk.
FullScan ==
    /\ scan["full"].at = "idle"
    /\ OnDisk # {}
    /\ Walk("full", OnDisk)
    /\ steady' = {p \in Path : tree[p] = "media" /\ \A a \in Watched : proc[a][p].at \in {"done", "probe"}}
    /\ UNCHANGED <<tree, store, dirty, events, slips, marred>>

\* TriggerDirectoryScan, when the debounce timer of the folder fires.  While the
\* folder is being scanned the event is dropped.
Trigger(p) ==
    /\ p \in dirty
    /\ dirty' = dirty \ {p}
    /\ IF scan[p].at = "idle" /\ p \in OnDisk
       THEN Walk(p, {p})
       ELSE UNCHANGED <<scan, proc>>
    /\ UNCHANGED <<tree, store, events, slips, steady, marred>>

-----------------------------------------------------------------------------
(* processFile.                                                            *)

To(a, p, at, id, item) == proc' = [proc EXCEPT ![a][p] = [at |-> at, id |-> id, item |-> item]]
Finish(a, p) == proc' = [proc EXCEPT ![a][p] = Done]

\* Stat, GetFileByPath, hash and ffprobe.  An unchanged file is left alone or
\* only marked active, with its item if the row was not; a playlist takes the
\* row of the file it replaced out of service.  The files of a scan are handled
\* concurrently; their rows are their own, so here one at a time.
Probe(a, p) ==
    /\ proc[a][p].at = "probe"
    /\ \A q \in Path : proc[a][q].at \in {"probe", "done"}
    /\ LET r == mrow[p]
           inactive == r.st # "active"
       IN \/ /\ tree[p] = "absent" \/ (tree[p] = "playlist" /\ r = NoRow)
             /\ Finish(a, p)
          \/ /\ tree[p] = "playlist" /\ r # NoRow
             /\ To(a, p, "mark", r.id, 0)
          \/ /\ tree[p] = "media" /\ r.st = "active"
             /\ Finish(a, p)
          \/ /\ tree[p] = "media" /\ r # NoRow
             /\ To(a, p, "touch", r.id, IF inactive THEN r.item ELSE 0)
          \/ /\ tree[p] = "media"
             /\ To(a, p, "item", 0, 0)
    /\ marred' = IF \E b \in Scans \ {a} : proc[b][p].at \notin {"probe", "done"}
                 THEN marred \cup {p} ELSE marred
    /\ UNCHANGED <<tree, store, dirty, scan, events, slips, steady>>

\* MarkMissing: by id, an active row only.
Mark(a, p) ==
    /\ proc[a][p].at = "mark"
    /\ mrow' = IF mrow[p].id = proc[a][p].id /\ mrow[p].st = "active"
               THEN [mrow EXCEPT ![p].st = "missing"]
               ELSE mrow
    /\ Finish(a, p)
    /\ UNCHANGED <<tree, live, dirty, scan, events, slips, steady, marred>>

\* MarkFileActive of an unchanged file, by id: nothing if the row is gone.
Touch(a, p) ==
    /\ proc[a][p].at = "touch"
    /\ mrow' = IF mrow[p].id = proc[a][p].id THEN [mrow EXCEPT ![p].st = "active"] ELSE mrow
    /\ IF proc[a][p].item # 0 THEN To(a, p, "restore", 0, proc[a][p].item) ELSE Finish(a, p)
    /\ UNCHANGED <<tree, live, dirty, scan, events, slips, steady, marred>>

\* FindOrCreateItem, under its lock.  A soft-deleted item is not found.
Item(a, p) ==
    /\ proc[a][p].at = "item"
    /\ LET found == IF live[p] # 0 THEN live[p] ELSE Unused({r.item : r \in Refs(p)})
       IN /\ live' = [live EXCEPT ![p] = found]
          /\ To(a, p, "file", 0, found)
    /\ UNCHANGED <<tree, mrow, dirty, scan, events, slips, steady, marred>>

\* CreateOrUpdateFile looks the path up again ...
File(a, p) ==
    /\ proc[a][p].at = "file"
    /\ LET r == mrow[p]
           next == CASE r = NoRow -> "create"
                     [] r.st = "active" -> "update"
                     [] OTHER -> "revive"
       IN To(a, p, next, r.id, proc[a][p].item)
    /\ UNCHANGED <<tree, store, dirty, scan, events, slips, steady, marred>>

\* ... and writes a known row, by id: active, and on the item found ...
Update(a, p) ==
    /\ proc[a][p].at \in {"update", "revive"}
    /\ mrow' = IF mrow[p].id = proc[a][p].id
               THEN [mrow EXCEPT ![p].st = "active", ![p].item = proc[a][p].item]
               ELSE mrow
    /\ IF proc[a][p].at = "revive"
       THEN To(a, p, "restore", 0, proc[a][p].item)
       ELSE Finish(a, p)
    /\ UNCHANGED <<tree, live, dirty, scan, events, slips, steady, marred>>

\* Mutant: a new file's item is taken to be live.
CreateUnrestored(a, p) ==
    /\ proc[a][p].at = "create"
    /\ mrow' = IF mrow[p] = NoRow
               THEN [mrow EXCEPT ![p] = [id |-> Unused({r.id : r \in Refs(p)}),
                                         st |-> "active", item |-> proc[a][p].item]]
               ELSE mrow
    /\ Finish(a, p)
    /\ UNCHANGED <<tree, live, dirty, scan, events, slips, steady, marred>>

\* ... or a new one, unless another scan has just done so.
Create(a, p) ==
    /\ proc[a][p].at = "create"
    /\ IF mrow[p] = NoRow
       THEN /\ mrow' = [mrow EXCEPT ![p] =
                   [id |-> Unused({r.id : r \in Refs(p)}), st |-> "active", item |-> proc[a][p].item]]
            /\ To(a, p, "restore", 0, proc[a][p].item)
       ELSE Finish(a, p) /\ UNCHANGED mrow
    /\ UNCHANGED <<tree, live, dirty, scan, events, slips, steady, marred>>

\* RestoreItemAncestry.  The unique title refuses a second live item.
Restore(a, p) ==
    /\ proc[a][p].at = "restore"
    /\ live' = [live EXCEPT ![p] = IF @ = 0 THEN proc[a][p].item ELSE @]
    /\ Finish(a, p)
    /\ UNCHANGED <<tree, mrow, dirty, scan, events, slips, steady, marred>>

-----------------------------------------------------------------------------
(* The rest of scan, once every file is handled.                           *)

Sweep(a, at, r) == scan' = [scan EXCEPT ![a] = [r EXCEPT !.at = at]]

Handled(a) == scan[a].at = "files" /\ \A p \in Path : proc[a][p] = Done

\* ListActiveFilesForLibrary.  A walk that found less than half of them is made
\* again; an error reads as no files.
Files ==
    /\ Handled("full")
    /\ \E known \in {Active, {}} :
        /\ slips' = slips + (IF known = Active THEN 0 ELSE 1)
        /\ slips' <= MaxSlips
        /\ Sweep("full",
                 IF Count(scan["full"].walked) < Count(known) \div 2 THEN "rewalk" ELSE "list",
                 [scan["full"] EXCEPT !.known = known])
    /\ UNCHANGED <<tree, store, dirty, proc, events, steady, marred>>

\* The second walk, and the decision whether to look for orphans at all.
Rewalk ==
    LET r == scan["full"]
        walked == IF Count(OnDisk) > Count(r.walked) THEN OnDisk ELSE r.walked
    IN /\ r.at = "rewalk"
       /\ Sweep("full", IF Count(walked) >= Count(r.known) \div 2 THEN "list" ELSE "expired",
                [r EXCEPT !.walked = walked])
       /\ UNCHANGED <<tree, store, dirty, proc, events, slips, steady, marred>>

\* A list of rows to delete: the paths with the ids and items they had.
Rows(P) == {[path |-> p, id |-> mrow[p].id, item |-> mrow[p].item] : p \in P}

\* markOrphanedFiles: the active files the walk did not see ...
List ==
    /\ scan["full"].at = "list"
    /\ LET gone == Rows(Active \ scan["full"].walked)
       IN Sweep("full", IF gone = {} THEN "expired" ELSE "delete",
                [scan["full"] EXCEPT !.gone = gone])
    /\ UNCHANGED <<tree, store, dirty, proc, events, slips, steady, marred>>

Without(gone) == [p \in Path |-> IF \E g \in gone : g.path = p /\ g.id = mrow[p].id
                                 THEN NoRow ELSE mrow[p]]

\* ... are deleted by id, whatever has become of them ...
Delete ==
    /\ scan["full"].at = "delete"
    /\ mrow' = Without(scan["full"].gone)
    /\ Sweep("full", "empty", scan["full"])
    /\ UNCHANGED <<tree, live, dirty, proc, events, slips, steady, marred>>

Bereft(gone, rows) ==
    [p \in Path |-> IF /\ \E g \in gone : g.path = p /\ g.item = live[p]
                       /\ rows[p].item # live[p]
                    THEN 0 ELSE live[p]]

\* ... and their items soft-deleted, if left without files.
Empty ==
    /\ scan["full"].at = "empty"
    /\ live' = Bereft(scan["full"].gone, mrow)
    /\ Sweep("full", "expired", [scan["full"] EXCEPT !.gone = {}])
    /\ UNCHANGED <<tree, mrow, dirty, proc, events, slips, steady, marred>>

\* PromoteExpiredMissing lists the rows missing for longer than the grace ...
Expired ==
    /\ scan["full"].at = "expired"
    /\ LET gone == Rows({p \in Path : mrow[p].st = "expired"})
       IN IF gone = {}
          THEN Sweep("full", "cleanup", Idle)
          ELSE Sweep("full", "purge", [Idle EXCEPT !.gone = gone])
    /\ UNCHANGED <<tree, store, dirty, proc, events, slips, steady, marred>>

\* ... and deletes them by id, with their items, in one statement.
Purge ==
    /\ scan["full"].at = "purge"
    /\ mrow' = Without(scan["full"].gone)
    /\ live' = Bereft(scan["full"].gone, mrow')
    /\ Sweep("full", "cleanup", Idle)
    /\ UNCHANGED <<tree, dirty, proc, events, slips, steady, marred>>

\* All that is left to do is to clean up; a folder scan looks for no orphans.
Last(a) == scan[a].at = "cleanup" \/ (a \in Watched /\ Handled(a))

\* CleanupEmptyItems: every item of the library without an active file.
Cleanup(a) ==
    /\ Last(a)
    /\ live' = [p \in Path |-> IF p \in Active /\ mrow[p].item = live[p] THEN live[p] ELSE 0]
    /\ scan' = [scan EXCEPT ![a] = Idle]
    /\ UNCHANGED <<tree, mrow, dirty, proc, events, slips, steady, marred>>

-----------------------------------------------------------------------------
(* Mishaps.                                                                *)

\* A file with a row whose writes were not all made.
CutShort(a, p) ==
    mrow[p] # NoRow /\ proc[a][p].at \in {"file", "update", "revive", "restore"}

\* A statement of processFile fails: the file is given up, but a failed
\* MarkFileActive is only logged.
FileFails(a, p) ==
    /\ slips < MaxSlips
    /\ slips' = slips + 1
    /\ proc[a][p].at \in {"mark", "touch", "item", "update", "revive", "create", "restore"}
    /\ IF proc[a][p].at = "touch" /\ proc[a][p].item # 0
       THEN To(a, p, "restore", 0, proc[a][p].item)
       ELSE Finish(a, p)
    /\ marred' = IF CutShort(a, p) THEN marred \cup {p} ELSE marred
    /\ steady' = steady \ {p}
    /\ UNCHANGED <<tree, store, dirty, scan, events>>

\* A statement of the rest of scan fails: logged, and on to the next.
SweepFails(a) ==
    /\ slips < MaxSlips
    /\ slips' = slips + 1
    /\ \/ scan[a].at \in {"list", "delete", "empty"} /\ Sweep(a, "expired", [scan[a] EXCEPT !.gone = {}])
       \/ scan[a].at \in {"expired", "purge"} /\ Sweep(a, "cleanup", Idle)
       \/ Last(a) /\ scan' = [scan EXCEPT ![a] = Idle]
    /\ UNCHANGED <<tree, store, dirty, proc, events, steady, marred>>

\* The server stops: scans and events are lost.
Crash ==
    /\ slips < MaxSlips
    /\ slips' = slips + 1
    /\ scan' = [a \in Scans |-> Idle]
    /\ proc' = [a \in Scans |-> [p \in Path |-> Done]]
    /\ dirty' = {} /\ steady' = {}
    /\ marred' = marred \cup {p \in Path : \E a \in Scans : CutShort(a, p)}
    /\ UNCHANGED <<tree, store, events>>

-----------------------------------------------------------------------------

Handle(a, p) ==
    \/ Probe(a, p) \/ Mark(a, p) \/ Touch(a, p) \/ Item(a, p)
    \/ File(a, p) \/ Update(a, p) \/ Create(a, p) \/ Restore(a, p)

\* The steps of a scan: the periodic worker starts the full ones.
Works(a) ==
    \/ \E p \in Path : Handle(a, p)
    \/ Cleanup(a)
    \/ a = "full" /\ (FullScan \/ Files \/ Rewalk \/ List \/ Delete \/ Empty \/ Expired \/ Purge)

Next ==
    \/ \E p \in Path : Change(p) \/ Expire(p) \/ Trigger(p)
    \/ \E a \in Scans : Works(a) \/ SweepFails(a) \/ \E p \in Path : FileFails(a, p)
    \/ Crash

Fairness == \A a \in Scans : WF_vars(Works(a))
Spec == Init /\ [][Next]_vars /\ Fairness

-----------------------------------------------------------------------------

(* What scans promise.                                                     *)

TypeOK ==
    /\ \A p \in Path : tree[p] \in Contents(p)
    /\ \A p \in Path : mrow[p].st \in {"none", "active", "missing", "expired"}
    /\ live \in [Path -> Nat]
    /\ dirty \subseteq Watched /\ steady \cup marred \subseteq Path
    /\ \A a \in Scans : scan[a].walked \cup scan[a].known \subseteq Path

\* What a user sees: an active file of an item that is not soft-deleted.
Listed(p) == p \in Active /\ live[p] # 0 /\ mrow[p].item = live[p]

\* An active file is not hidden behind a soft-deleted item once the scans have
\* let go of it, though other scans sweep items without files while the file is
\* on its way in.  RestoreItemAncestry does this, unless two scans handle the
\* file at once or its writes are cut short.
NothingHidden ==
    \A p \in Active \ marred : Listed(p) \/ \E a \in Scans : proc[a][p].at # "done"

\* When a full scan has ended, every file that was there for its walk and has
\* been left alone since is listed, whatever folder scans, orphan deletion,
\* purge and clean-up did at the same time.
SteadyListed == scan["full"].at = "idle" => \A p \in steady \ marred : Listed(p)

LibraryAccounted == TypeOK /\ NothingHidden /\ SteadyListed

\* Orphan deletion takes at most twice what the walk saw, and one: the heavier
\* folder survives its volume's absence.  Unless the scan knew of no file: not only
\* in an empty library, but also when ListActiveFilesForLibrary failed, and then a
\* volume's absence does delete its files.  Rows that came in since the list was
\* read are not counted.
NoMassDelete ==
    [][LET r == scan["full"] IN
       r.at = "delete" /\ scan'["full"].at = "empty" =>
           \/ r.known = {}
           \/ Count({g.path : g \in r.gone} \cap r.known) <= 2 * Count(r.walked) + 1]_vars

\* With full scans at intervals and a disk at rest, what is there becomes listed,
\* and what is not leaves the active rows, unless the walk finds nothing or too
\* little.
Converges ==
    <>[](/\ \A p \in Path \ marred : tree[p] = "media" => Listed(p)
         /\ OnDisk # {} /\ Count(OnDisk) >= Count(Active) \div 2 =>
                \A p \in Active : tree[p] = "media")

\* The same without the exception, as the code says of the folder scans it skips:
\* "the periodic full scan backstops anything missed" (cmd/server/main.go:2380).
Backstopped == <>[](\A p \in Path : tree[p] = "media" => Listed(p))
=============================================================================
