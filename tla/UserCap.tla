------------------------------- MODULE UserCap -------------------------------
(***************************************************************************)
(* One user's transcode sessions: the supersede, the per-user cap and its  *)
(* lock.                                                                   *)
(*                                                                         *)
(*   internal/api/v1/transcode.go      Start, supersedeUserItem            *)
(*   internal/api/v1/transcode_abr.go  startABR                            *)
(*   internal/transcode/session.go     CreateWithUserCap, CountByUser,     *)
(*                                     ListByUserItem                      *)
(*                                                                         *)
(* An element of Start is one call of the handler and the session it       *)
(* creates.  Rung children are not counted and not modelled here.          *)
(***************************************************************************)
EXTENDS Integers, FiniteSets

CONSTANTS Start,   \* calls of Start
          ABR,     \* those that startABR answers, which dispatches no job
          ItemOf,  \* the media item each one plays
          Cap,     \* maxSessionsPerUser, what direct plays leave of it
          Faults,  \* see FaultKinds
          Free

\* "valkey": Valkey answers the lock or a listing with an error.
\* "slow":   a holder is slower than the lock's TTL, or than the spin budget.
\* "gone":   the client disconnects, and the context of its call ends.
\* "resume": a viewer comes back to a session that no longer counts.
FaultKinds == {"valkey", "slow", "gone", "resume"}

ASSUME CapAssumption ==
    /\ IsFiniteSet(Start)
    /\ ABR \subseteq Start
    /\ Cap \in Nat \ {0}
    /\ Faults \subseteq FaultKinds
    /\ Free \notin Start

VARIABLES
    sess,   \* the stored sessions
    stale,  \* those without activity for ActiveSessionWindow
    lock,   \* who set transcode:caplock:<user>, or Free; Valkey stores only "1"
    pc,     \* where each call is
    prior,  \* what its ListByUserItem returned and it has yet to tear down
    lapsed, \* calls whose lock expired under them
    gone,   \* calls whose client has disconnected
    excused \* history: the cap was given up on purpose, or out of Start's hands

vars == <<sess, stale, lock, pc, prior, lapsed, gone, excused>>

Init ==
    /\ sess = {}
    /\ stale = {}
    /\ lock = Free
    /\ pc = [s \in Start |-> "idle"]
    /\ prior = [s \in Start |-> {}]
    /\ lapsed = {}
    /\ gone = {}
    /\ excused = FALSE

At(s, from, to) == pc[s] = from /\ pc' = [pc EXCEPT ![s] = to]
Live == sess \ stale
InWindow(s) == pc[s] \in {"count", "createlocked", "unlock", "unlockfull"}
Full == Cardinality(Live) >= Cap

\* Whether a command of the call to Valkey succeeds: never once its context has
\* ended.
Answers(s) == (IF s \in gone THEN {} ELSE {TRUE})
              \cup (IF s \in gone \/ "valkey" \in Faults THEN {FALSE} ELSE {})

-----------------------------------------------------------------------------
(* Start.                                                                  *)

\* A bad request, no access, a limit, a source that cannot be read: the checks
\* before anything is changed.
Reject(s) ==
    /\ At(s, "idle", "refused")
    /\ UNCHANGED <<sess, stale, lock, prior, lapsed, gone, excused>>

\* supersedeUserItem: the user's sessions on the same item; an error is logged.
ListPrior(s) ==
    /\ At(s, "idle", "supersede")
    /\ \E ok \in Answers(s) :
          prior' = [prior EXCEPT ![s] =
                       IF ok THEN {q \in sess : ItemOf[q] = ItemOf[s]} ELSE {}]
    /\ UNCHANGED <<sess, stale, lock, lapsed, gone, excused>>

\* tearDown of one of them; the error of its Delete is ignored.
TearDownPrior(s) ==
    /\ pc[s] = "supersede"
    /\ \E q \in prior[s], ok \in Answers(s) :
          /\ prior' = [prior EXCEPT ![s] = @ \ {q}]
          /\ sess' = IF ok THEN sess \ {q} ELSE sess
          /\ stale' = IF ok THEN stale \ {q} ELSE stale
    /\ UNCHANGED <<lock, pc, lapsed, gone, excused>>

\* The cheap check before the planning; an error lets the call pass.
PreCheck(s) ==
    /\ prior[s] = {}
    /\ \E ok \in Answers(s) :
          At(s, "supersede", IF ok /\ Full THEN "refused" ELSE "plan")
    /\ UNCHANGED <<sess, stale, lock, prior, lapsed, gone, excused>>

\* The decision how to deliver the item.  It may turn out that nothing can be,
\* or that a prepared ladder does without a session.
Plan(s) ==
    /\ At(s, "plan", "lock") \/ At(s, "plan", "refused")
    /\ UNCHANGED <<sess, stale, lock, prior, lapsed, gone, excused>>

-----------------------------------------------------------------------------
(* CreateWithUserCap.                                                      *)

\* Mutant: SET NX without looking at the key.
TakeHeldLock(s) ==
    /\ s \notin gone
    /\ lock' = s
    /\ At(s, "lock", "count")
    /\ UNCHANGED <<sess, stale, prior, lapsed, gone, excused>>

\* SET NX for five seconds.
TakeLock(s) ==
    /\ s \notin gone
    /\ lock = Free
    /\ lock' = s
    /\ At(s, "lock", "count")
    /\ UNCHANGED <<sess, stale, prior, lapsed, gone, excused>>

\* SET NX fails: fall open and create without counting.
LockError(s) ==
    /\ FALSE \in Answers(s)
    /\ At(s, "lock", "create")
    /\ excused' = TRUE
    /\ UNCHANGED <<sess, stale, lock, prior, lapsed, gone>>

\* 40 polls, two seconds, in vain: fall open as well.  A holder whose DEL was
\* lost keeps the key longer than that.
TimedOut(s) ==
    /\ lock # Free
    /\ "slow" \in Faults \/ ~InWindow(lock)
    /\ At(s, "lock", "create")
    /\ excused' = TRUE
    /\ UNCHANGED <<sess, stale, lock, prior, lapsed, gone>>

\* The context ended while the call slept between polls.
GiveUp(s) ==
    /\ s \in gone
    /\ At(s, "lock", "refused")
    /\ UNCHANGED <<sess, stale, lock, prior, lapsed, gone, excused>>

\* The authoritative count under the lock; an error counts as below the cap.
Count(s) ==
    /\ \E ok \in Answers(s) :
          /\ At(s, "count", IF ok /\ Full THEN "unlockfull" ELSE "createlocked")
          /\ excused' = (excused \/ ~ok)
    /\ UNCHANGED <<sess, stale, lock, prior, lapsed, gone>>

Create(s) ==
    /\ \E ok \in Answers(s) :
          /\ sess' = IF ok THEN sess \cup {s} ELSE sess
          /\ \/ At(s, "createlocked", IF ok THEN "unlock" ELSE "unlockfull")
             \/ At(s, "create", IF ok THEN "dispatch" ELSE "refused")
    /\ UNCHANGED <<stale, lock, prior, lapsed, gone, excused>>

\* The deferred DEL of the lock key.  It does not look whose lock it is; when
\* it fails, the key stays for the rest of its TTL.
Unlock(s) ==
    /\ \/ At(s, "unlock", "dispatch")
       \/ At(s, "unlockfull", "refused")
    /\ \E ok \in Answers(s) : lock' = IF ok THEN Free ELSE lock
    /\ UNCHANGED <<sess, stale, prior, lapsed, gone, excused>>

-----------------------------------------------------------------------------
(* The rest of Start.                                                      *)

\* DispatchJob.  When it fails, the session is deleted with the same context.
DispatchJob(s) ==
    /\ s \notin ABR
    /\ \E dispatched, deleted \in Answers(s) :
          LET undone == IF ~dispatched /\ deleted THEN {s} ELSE {}
          IN  /\ At(s, "dispatch", IF dispatched THEN "reply" ELSE "refused")
              /\ sess' = sess \ undone
              /\ stale' = stale \ undone
    /\ UNCHANGED <<lock, prior, lapsed, gone, excused>>

\* Mutant: the answer goes out without the last look.
ReplyRegardless(s) ==
    /\ At(s, "reply", "started")
    /\ UNCHANGED <<sess, stale, lock, prior, lapsed, gone, excused>>

\* The last look at the client: reap the session when it has left.  The context
\* of the reap does not end with the call's.
Reply(s) ==
    /\ At(s, "reply", IF s \in gone THEN "refused" ELSE "started")
    /\ sess' = IF s \in gone THEN sess \ {s} ELSE sess
    /\ stale' = stale \cap sess'
    /\ UNCHANGED <<lock, prior, lapsed, gone, excused>>

\* startABR answers as soon as the session is stored.
ReplyABR(s) ==
    /\ s \in ABR
    /\ At(s, "dispatch", "started")
    /\ UNCHANGED <<sess, stale, lock, prior, lapsed, gone, excused>>

Call(s) ==
    \/ TearDownPrior(s) \/ PreCheck(s) \/ Plan(s) \/ TakeLock(s) \/ TimedOut(s)
    \/ GiveUp(s) \/ Count(s) \/ Create(s) \/ Unlock(s) \/ DispatchJob(s) \/ Reply(s)
    \/ ReplyABR(s)

-----------------------------------------------------------------------------
\* Mutant: the key is stored without a TTL.
LockNeverExpires ==
    /\ lock # Free
    /\ FALSE
    /\ UNCHANGED vars

\* The lock's TTL runs out: its holder is slow, or could not delete it.
LockExpires ==
    /\ lock # Free
    /\ "slow" \in Faults \/ ~InWindow(lock)
    /\ lapsed' = IF InWindow(lock) THEN lapsed \cup {lock} ELSE lapsed
    /\ excused' = (excused \/ InWindow(lock))
    /\ lock' = Free
    /\ UNCHANGED <<sess, stale, pc, prior, gone>>

Disconnect(s) ==
    /\ "gone" \in Faults
    /\ pc[s] \notin {"idle", "started", "refused"}
    /\ gone' = gone \cup {s}
    /\ UNCHANGED <<sess, stale, lock, pc, prior, lapsed, excused>>

\* No segment was fetched for ActiveSessionWindow.
GoesStale(s) ==
    /\ s \in Live
    /\ stale' = stale \cup {s}
    /\ UNCHANGED <<sess, lock, pc, prior, lapsed, gone, excused>>

\* TouchActivity by the first fetch after a long pause.
Resumes(s) ==
    /\ "resume" \in Faults
    /\ s \in stale /\ pc[s] = "started"
    /\ stale' = stale \ {s}
    /\ excused' = TRUE
    /\ UNCHANGED <<sess, lock, pc, prior, lapsed, gone>>

Stop(s) ==
    /\ s \in sess
    /\ pc[s] = "started"
    /\ sess' = sess \ {s}
    /\ stale' = stale \ {s}
    /\ UNCHANGED <<lock, pc, prior, lapsed, gone, excused>>

Next ==
    \/ LockExpires
    \/ \E s \in Start : \/ Reject(s) \/ ListPrior(s) \/ Call(s) \/ LockError(s)
                        \/ Disconnect(s) \/ GoesStale(s) \/ Resumes(s) \/ Stop(s)

Spec == Init /\ [][Next]_vars
\* An error of Valkey is never awaited, except the one a call whose client left is
\* sure to get.
Runs(s) == Call(s) \/ (s \in gone /\ LockError(s))
\* A call runs to its end, and the lock's TTL passes.
FairSpec == Spec /\ WF_vars(LockExpires) /\ \A s \in Start : WF_vars(Runs(s))

-----------------------------------------------------------------------------
TypeOK ==
    /\ sess \subseteq Start
    /\ stale \subseteq sess
    /\ lock \in Start \cup {Free}
    /\ pc \in [Start -> {"idle", "supersede", "plan", "lock", "count", "create",
                         "createlocked", "unlock", "unlockfull", "dispatch",
                         "reply", "started", "refused"}]
    /\ prior \in [Start -> SUBSET Start]
    /\ lapsed \subseteq Start
    /\ gone \subseteq Start
    /\ excused \in BOOLEAN

\* CreateWithUserCap closes the check-then-act race: however many Starts
\* overlap, and whoever disconnects, the user never has more than Cap live
\* sessions, unless a call fell open (the lock or the count failed), a lock
\* lapsed under its holder or a viewer came back to a session that went stale.
CapRespected == excused \/ Cardinality(Live) <= Cap

\* The cap holds, and the variables have their types.
UserCapInv == TypeOK /\ CapRespected

\* A caller that disconnects while it holds the lock cannot delete it; the
\* user's later Starts find the lock free again all the same.
LockFreed == []<>(lock = Free)

\* A client that leaves once its job is dispatched leaves no session behind:
\* nobody else knows the session's id, so only Start can reap it.
OrphanReaped ==
    \A s \in Start : pc[s] = "reply" /\ s \in gone ~> s \notin sess

\* Start, on the failure of DispatchJob: "Clean up the orphaned Valkey session -
\* FFmpeg will never start."  A refused Start leaves no session that counts
\* against the user's cap.
RefusedLeavesNothing == \A s \in Start : pc[s] = "refused" => s \notin sess

\* CreateWithUserCap: "only one writer occupies the (count->decide->write)
\* window at a time".  Stated for writers whose own lock has not lapsed.
OneWriter ==
    \A s, q \in Start :
        s # q /\ InWindow(s) /\ InWindow(q) => s \in lapsed \/ q \in lapsed

\* README.md, feature table: "one stream per user/item".
OneStreamPerItem ==
    (\A s \in Start : pc[s] \in {"idle", "started", "refused"})
        => \A s, q \in Live : s # q => ItemOf[s] # ItemOf[q]
=============================================================================
