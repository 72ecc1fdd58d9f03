---------------------------- MODULE SessionStore -----------------------------
(***************************************************************************)
(* One session of internal/transcode/session.go: the JSON blob under       *)
(* transcode:session:<id> and the id's membership in the index set that    *)
(* List, CountByUser, DeleteByMedia and UpdatePositionByMedia read.        *)
(*                                                                         *)
(* The store is Valkey; each step is one command or one transaction.       *)
(* Updates go through mutateSession (WATCH, GET, MULTI/EXEC).  The owner   *)
(* of the ID is the holder of the rung lock: it creates the session and    *)
(* restarts it by Delete and Create.  Stop deletes it without that lock.   *)
(***************************************************************************)
EXTENDS Integers

CONSTANTS Mut,         \* calls of mutateSession
          Field,       \* the fields they write
          FieldsOf,    \* the fields each one writes
          CanSkip,     \* calls whose fn may decline: SetSelectedRendition,
                       \* UpdatePositionByMedia
          NoMut,
          Scan,        \* calls of List and DeleteByMedia
          Deletes,     \* the scans that are DeleteByMedia
          MaxAttempts, \* maxAttempts of mutateSession
          MaxCreates   \* bound on the sessions created under the ID

ASSUME StoreAssumption ==
    /\ FieldsOf \in [Mut -> SUBSET Field]
    /\ CanSkip \subseteq Mut
    /\ Deletes \subseteq Scan
    /\ NoMut \notin Mut
    /\ MaxAttempts \in Nat \ {0}
    /\ MaxCreates \in Nat

VARIABLES
    present, blob,  \* the session key: for each field, who wrote it last
    ver,            \* how often the key was modified: what WATCH compares
    indexed,        \* the ID is in the index set
    pc,             \* where each call of mutateSession is
    watched,        \* ver at its WATCH
    snap,           \* the blob its GET returned
    tries,          \* attempts it has lost
    owner,          \* where the lock holder is: a Create or a Delete
    created,        \* sessions created so far
    stop,           \* where the Delete of a Stop is
    scan            \* where each scan is

vars == <<present, blob, ver, indexed, pc, watched, snap, tries, owner, created,
          stop, scan>>

key  == <<present, blob, ver>>
muts == <<pc, watched, snap, tries>>
others == <<owner, created, stop, scan>>

Fresh == [f \in Field |-> NoMut]

Init ==
    /\ present = FALSE
    /\ blob = Fresh
    /\ ver = 0
    /\ indexed = FALSE
    /\ pc = [m \in Mut |-> "idle"]
    /\ watched = [m \in Mut |-> 0]
    /\ snap = [m \in Mut |-> Fresh]
    /\ tries = [m \in Mut |-> 0]
    /\ owner = "absent"
    /\ created = 0
    /\ stop = "idle"
    /\ scan = [s \in Scan |-> "idle"]

\* The commands that modify the key.  A DEL of a missing key modifies nothing.
SetKey(b) == present' = TRUE /\ blob' = b /\ ver' = ver + 1
DelKey == /\ present' = FALSE
          /\ blob' = Fresh
          /\ ver' = IF present THEN ver + 1 ELSE ver

-----------------------------------------------------------------------------
(* mutateSession.                                                          *)

At(m, from, to) == pc[m] = from /\ pc' = [pc EXCEPT ![m] = to]

\* The locals of txn end with the attempt.
Forget(m) ==
    /\ watched' = [watched EXCEPT ![m] = 0]
    /\ snap' = [snap EXCEPT ![m] = Fresh]

Watch(m) ==
    /\ At(m, "idle", "watched")
    /\ watched' = [watched EXCEPT ![m] = ver]
    /\ UNCHANGED <<key, indexed, snap, tries, others>>

\* Mutant: a missing session is retried like a lost race.
ReadRetries(m) ==
    /\ IF present
       THEN At(m, "watched", "read") /\ snap' = [snap EXCEPT ![m] = blob]
                                     /\ UNCHANGED watched
       ELSE At(m, "watched", "idle") /\ Forget(m)
    /\ UNCHANGED <<key, indexed, tries, others>>

\* tx.Get: a missing session ends the call.
Read(m) ==
    /\ IF present
       THEN At(m, "watched", "read") /\ snap' = [snap EXCEPT ![m] = blob]
                                     /\ UNCHANGED watched
       ELSE At(m, "watched", "failed") /\ Forget(m)
    /\ UNCHANGED <<key, indexed, tries, others>>

\* errSkipSessionMutation: fn finds the rung already recorded and its stamp
\* recent, or the session no longer its own.  Labels, ages and users are not
\* modelled, so fn may decline whenever it is asked.
Skip(m) ==
    /\ m \in CanSkip
    /\ At(m, "read", "skipped")
    /\ Forget(m)
    /\ UNCHANGED <<key, indexed, tries, others>>

\* fn applied to what GET returned: its own fields over the snapshot.
Mutated(m) == [f \in Field |-> IF f \in FieldsOf[m] THEN m ELSE snap[m][f]]

\* Mutant: a plain SET instead of MULTI/EXEC.
CommitBlindly(m) ==
    /\ At(m, "read", "ok")
    /\ SetKey(Mutated(m))
    /\ Forget(m)
    /\ UNCHANGED <<indexed, tries, others>>

\* EXEC with the key unchanged since WATCH.
Commit(m) ==
    /\ ver = watched[m]
    /\ At(m, "read", "ok")
    /\ SetKey(Mutated(m))
    /\ Forget(m)
    /\ UNCHANGED <<indexed, tries, others>>

\* Mutant: the retry writes again what the first GET returned.
ConflictKeepsSnapshot(m) ==
    /\ ver # watched[m]
    /\ pc[m] = "read" /\ tries[m] + 1 < MaxAttempts
    /\ tries' = [tries EXCEPT ![m] = @ + 1]
    /\ watched' = [watched EXCEPT ![m] = ver]
    /\ UNCHANGED <<key, indexed, pc, snap, others>>

\* redis.TxFailedErr: another writer came first; start over, at most
\* maxAttempts times.
Conflict(m) ==
    /\ ver # watched[m]
    /\ At(m, "read", IF tries[m] + 1 < MaxAttempts THEN "idle" ELSE "failed")
    /\ tries' = [tries EXCEPT ![m] = @ + 1]
    /\ Forget(m)
    /\ UNCHANGED <<key, indexed, others>>

Mutate(m) == Watch(m) \/ Read(m) \/ Skip(m) \/ Commit(m) \/ Conflict(m)

-----------------------------------------------------------------------------
(* Create and Delete.                                                      *)

CreateSet ==
    /\ owner = "absent"
    /\ created < MaxCreates
    /\ owner' = "sadd"
    /\ created' = created + 1
    /\ SetKey(Fresh)
    /\ UNCHANGED <<indexed, muts, stop, scan>>

CreateAdd ==
    /\ owner = "sadd"
    /\ owner' = "up"
    /\ indexed' = TRUE
    /\ UNCHANGED <<key, muts, created, stop, scan>>

Unindex == indexed' = FALSE /\ UNCHANGED key
Erase == DelKey /\ UNCHANGED indexed

\* Mutant: the key first, the index second.
DeleteSwapped(n) == IF n = 1 THEN Erase ELSE Unindex

\* The two commands of Delete, in their order.
Delete(n) == IF n = 1 THEN Unindex ELSE Erase

\* A restart deletes the old session - if there still is one.
RestartFirst ==
    /\ owner = "up"
    /\ IF present
       THEN owner' = "del" /\ Delete(1)
       ELSE owner' = "absent" /\ UNCHANGED <<key, indexed>>
    /\ UNCHANGED <<muts, created, stop, scan>>

RestartSecond ==
    /\ owner = "del"
    /\ owner' = "absent"
    /\ Delete(2)
    /\ UNCHANGED <<muts, created, stop, scan>>

StopFirst ==
    /\ stop = "idle" /\ present
    /\ stop' = "del"
    /\ Delete(1)
    /\ UNCHANGED <<muts, owner, created, scan>>

StopSecond ==
    /\ stop = "del"
    /\ stop' = "done"
    /\ Delete(2)
    /\ UNCHANGED <<muts, owner, created, scan>>

\* sessionTTL passes without a write: the key goes, the index entry stays.
Expire ==
    /\ present
    /\ \A m \in Mut : pc[m] \notin {"watched", "read"}
    /\ DelKey
    /\ UNCHANGED <<indexed, muts, others>>

-----------------------------------------------------------------------------
(* List and DeleteByMedia: SMEMBERS, GET every member, heal or delete.     *)

ScanAt(s, from, to) == scan[s] = from /\ scan' = [scan EXCEPT ![s] = to]

ScanMembers(s) ==
    /\ ScanAt(s, "idle", IF indexed THEN "get" ELSE "done")
    /\ UNCHANGED <<key, indexed, muts, owner, created, stop>>

ScanGet(s) ==
    /\ ScanAt(s, "get", IF ~present THEN "heal"
                        ELSE IF s \in Deletes THEN "srem" ELSE "done")
    /\ UNCHANGED <<key, indexed, muts, owner, created, stop>>

\* "Session key expired but index entry lingers - clean up."
ScanHeal(s) ==
    /\ ScanAt(s, "heal", "healed")
    /\ Unindex
    /\ UNCHANGED <<muts, owner, created, stop>>

ScanUnindex(s) ==
    /\ ScanAt(s, "srem", "del")
    /\ Unindex
    /\ UNCHANGED <<muts, owner, created, stop>>

ScanErase(s) ==
    /\ ScanAt(s, "del", "done")
    /\ Erase
    /\ UNCHANGED <<muts, owner, created, stop>>

Scanning(s) ==
    ScanMembers(s) \/ ScanGet(s) \/ ScanHeal(s) \/ ScanUnindex(s) \/ ScanErase(s)

Next ==
    \/ \E m \in Mut : Mutate(m)
    \/ CreateSet \/ CreateAdd \/ RestartFirst \/ RestartSecond
    \/ StopFirst \/ StopSecond \/ Expire
    \/ \E s \in Scan : Scanning(s)

Spec == Init /\ [][Next]_vars

\* A call, once it runs, runs on; nobody has to call.
Begun(m) == pc[m] # "idle" \/ tries[m] > 0
FairSpec == Spec /\ \A m \in Mut : WF_vars(Begun(m) /\ Mutate(m))

-----------------------------------------------------------------------------
TypeOK ==
    /\ present \in BOOLEAN
    /\ blob \in [Field -> Mut \cup {NoMut}]
    /\ ver \in Nat
    /\ indexed \in BOOLEAN
    /\ pc \in [Mut -> {"idle", "watched", "read", "ok", "skipped", "failed"}]
    /\ watched \in [Mut -> Nat]
    /\ snap \in [Mut -> [Field -> Mut \cup {NoMut}]]
    /\ tries \in [Mut -> 0..MaxAttempts]
    /\ owner \in {"absent", "sadd", "up", "del"}
    /\ created \in 0..MaxCreates
    /\ stop \in {"idle", "del", "done"}
    /\ scan \in [Scan -> {"idle", "get", "heal", "healed", "srem", "del", "done"}]

\* mutateSession implements atomic updates: no overlapping writer discards
\* another's fields, no update lands twice, none lands on a deleted session.
Atomic == INSTANCE AtomicSession WITH applied <- {m \in Mut : pc[m] = "ok"}
UpdatesAreAtomic == Atomic!Spec

\* A snapshot that EXEC would accept is the stored blob: the heart of the
\* optimistic lock, whatever was created and deleted in between.
SnapshotCurrent ==
    \A m \in Mut :
        /\ watched[m] <= ver
        /\ pc[m] = "read" /\ watched[m] = ver => present /\ snap[m] = blob

\* mutateSession's bounded loop ends.
MutatorsReturn ==
    \A m \in Mut : pc[m] = "watched" ~> pc[m] \in {"ok", "skipped", "failed"}

Quiet ==
    /\ owner \in {"absent", "up"}
    /\ stop # "del"
    /\ \A s \in Scan : scan[s] \in {"idle", "done"}

\* List's promise, "List returns all active sessions using the session index
\* set": with nothing in flight, a stored session is indexed, whatever restarts,
\* stops and scans overlapped - unless a scan healed the index, whose SREM may
\* hit the entry of a session that was created again after the scan's GET.
IndexComplete == Quiet /\ present => indexed

\* No stored session is missing from the index, and the variables have their
\* types.
StoreInv == TypeOK /\ IndexComplete
=============================================================================
