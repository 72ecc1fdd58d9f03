----------------------------- MODULE ValkeyLease -----------------------------
(***************************************************************************)
(* The distributed lock of internal/valkey/lock.go: a key SET NX PX to a   *)
(* random token, extended every ttl/3 by a goroutine of the holder and     *)
(* released by compare-and-delete.  lockRungChild builds on it.            *)
(*                                                                         *)
(* An element of Call is one call of Lock; every attempt draws a fresh     *)
(* token, and since a call writes the key at most once before it returns,  *)
(* the call itself stands for its token.  Time advances in ticks.          *)
(***************************************************************************)
EXTENDS Integers

CONSTANTS Call,    \* calls of Lock on one key
          TTL,     \* the lease's time to live, in ticks
          Wait,    \* the wait budget of Lock, in ticks
          MaxErrs, \* failed renewals in a row the environment may cause
          Faults,  \* which faults may happen, see FaultKinds
          NoCall

\* "error": Valkey answers with an error, with or without having acted.
\* "cancel": the context of a waiting call ends.
\* "crash":  the holder's process dies.
\* "stall":  the holder's process is suspended and misses its renewals.
FaultKinds == {"error", "cancel", "crash", "stall"}

ASSUME LeaseAssumption ==
    /\ TTL \in Nat \ {0}
    /\ Wait \in Nat
    /\ MaxErrs \in Nat
    /\ Faults \subseteq FaultKinds
    /\ NoCall \notin Call

VARIABLES
    key,     \* the call whose token the key holds, or NoCall
    rem,     \* ticks until the key expires
    pc,      \* where each call is
    renews,  \* its renewal goroutine is running
    due,     \* ticks until the goroutine's ticker fires
    errs,    \* renewals that failed since the last one that succeeded
    waited,  \* ticks the call has been polling
    late     \* history: calls that missed a firing since then

vars == <<key, rem, pc, renews, due, errs, waited, late>>

\* Mutant: renewal every ttl/2 leaves no room for a failed one.
HalfTTL == TTL \div 2

\* every := ttl / 3; if every <= 0 { every = ttl }
Every == IF TTL \div 3 = 0 THEN TTL ELSE TTL \div 3

Init ==
    /\ key = NoCall
    /\ rem = 0
    /\ pc = [c \in Call |-> "idle"]
    /\ renews = [c \in Call |-> FALSE]
    /\ due = [c \in Call |-> Every]
    /\ errs = [c \in Call |-> 0]
    /\ waited = [c \in Call |-> 0]
    /\ late = {}

At(c, from, to) == pc[c] = from /\ pc' = [pc EXCEPT ![c] = to]

-----------------------------------------------------------------------------
(* Lock and TryLock.                                                       *)

StartLock(c) ==
    /\ At(c, "idle", "trying")
    /\ UNCHANGED <<key, rem, renews, due, errs, waited, late>>

\* SET NX found the key free: the lease exists and renewal starts.
TryLock(c) ==
    /\ key = NoCall
    /\ At(c, "trying", "held")
    /\ key' = c
    /\ rem' = TTL
    /\ renews' = [renews EXCEPT ![c] = TRUE]
    /\ due' = [due EXCEPT ![c] = Every]
    /\ UNCHANGED <<errs, waited, late>>

\* Mutant: the deadline moves on with every poll.
TimeoutNever(c) ==
    /\ waited[c] > Wait
    /\ At(c, "trying", "failed")
    /\ UNCHANGED <<key, rem, renews, due, errs, waited, late>>

\* The key is taken and the deadline has passed: ErrLockTimeout.
LockTimeout(c) ==
    /\ key # NoCall
    /\ waited[c] >= Wait
    /\ At(c, "trying", "failed")
    /\ UNCHANGED <<key, rem, renews, due, errs, waited, late>>

\* The context ends while the call sleeps between two polls.
LockCancelled(c) ==
    /\ "cancel" \in Faults
    /\ At(c, "trying", "failed")
    /\ UNCHANGED <<key, rem, renews, due, errs, waited, late>>

\* SET NX answers with an error.  It may have acted: then the key holds a
\* token nobody will renew or release.
LockErr(c) ==
    /\ "error" \in Faults
    /\ At(c, "trying", "failed")
    /\ \/ UNCHANGED <<key, rem>>
       \/ key = NoCall /\ key' = c /\ rem' = TTL
    /\ UNCHANGED <<renews, due, errs, waited, late>>

-----------------------------------------------------------------------------
(* renew: the ticker fires.  CompareAndExpire acts only on our own token.  *)

Fires(c) == renews[c] /\ due[c] = 0

\* Mutant: a plain PEXPIRE extends whoever holds the key.
PlainExpire(c) == rem' = IF key = NoCall THEN rem ELSE TTL

CompareAndExpire(c) == rem' = IF key = c THEN TTL ELSE rem

RenewOk(c) ==
    /\ Fires(c)
    /\ CompareAndExpire(c)
    /\ IF key = c
       THEN /\ due' = [due EXCEPT ![c] = Every]
            /\ errs' = [errs EXCEPT ![c] = 0]
            /\ late' = late \ {c}
            /\ UNCHANGED renews
       ELSE renews' = [renews EXCEPT ![c] = FALSE] /\ UNCHANGED <<due, errs, late>>
    /\ UNCHANGED <<key, pc, waited>>

\* A transient error, with or without the effect, is retried on the next tick.
RenewErr(c) ==
    /\ "error" \in Faults
    /\ Fires(c)
    /\ errs[c] < MaxErrs
    /\ rem' = rem \/ CompareAndExpire(c)
    /\ due' = [due EXCEPT ![c] = Every]
    /\ errs' = [errs EXCEPT ![c] = @ + 1]
    /\ UNCHANGED <<key, pc, renews, waited, late>>

-----------------------------------------------------------------------------
(* Release: stop the goroutine, wait for it, compare-and-delete.            *)

\* Mutant: Release forgets to stop the goroutine.
LeakRenewal(c) ==
    /\ At(c, "held", "releasing")
    /\ UNCHANGED <<key, rem, renews, due, errs, waited, late>>

StopRenewal(c) ==
    /\ At(c, "held", "releasing")
    /\ renews' = [renews EXCEPT ![c] = FALSE]
    /\ UNCHANGED <<key, rem, due, errs, waited, late>>

\* Mutant: a plain DEL removes whoever holds the key.
PlainDelete(c) == key' = NoCall

CompareAndDelete(c) == key' = IF key = c THEN NoCall ELSE key

ReleaseKey(c) ==
    /\ At(c, "releasing", "done")
    /\ CompareAndDelete(c)
    /\ rem' = IF key = c THEN 0 ELSE rem
    /\ UNCHANGED <<renews, due, errs, waited, late>>

\* The delete failed and is not retried: the key stays until it expires.
ReleaseErr(c) ==
    /\ "error" \in Faults
    /\ At(c, "releasing", "done")
    /\ UNCHANGED <<key, rem, renews, due, errs, waited, late>>

Crash(c) ==
    /\ "crash" \in Faults
    /\ pc[c] \in {"held", "releasing"}
    /\ pc' = [pc EXCEPT ![c] = "failed"]
    /\ renews' = [renews EXCEPT ![c] = FALSE]
    /\ UNCHANGED <<key, rem, due, errs, waited, late>>

-----------------------------------------------------------------------------
\* One tick of time.  A process that is not stalled serves its ticker before
\* the next tick; Valkey expires the key when its time is up.
Tick ==
    /\ "stall" \in Faults \/ \A c \in Call : ~Fires(c)
    /\ rem' = IF rem = 0 THEN 0 ELSE rem - 1
    /\ key' = IF rem <= 1 THEN NoCall ELSE key
    /\ due' = [c \in Call |-> IF renews[c] /\ due[c] > 0 THEN due[c] - 1 ELSE due[c]]
    /\ waited' = [c \in Call |-> IF pc[c] = "trying" /\ waited[c] < Wait
                                 THEN waited[c] + 1 ELSE waited[c]]
    /\ late' = late \cup {c \in Call : Fires(c)}
    /\ UNCHANGED <<pc, renews, errs>>

Poll(c) == TryLock(c) \/ LockTimeout(c) \/ LockCancelled(c) \/ LockErr(c)
Renew(c) == RenewOk(c) \/ RenewErr(c)
Release(c) == StopRenewal(c) \/ ReleaseKey(c) \/ ReleaseErr(c)

Next ==
    \/ \E c \in Call : StartLock(c) \/ Poll(c) \/ Renew(c) \/ Release(c) \/ Crash(c)
    \/ Tick

Spec == Init /\ [][Next]_vars

\* Time passes, pollers poll, tickers are served.  A section need not end, and
\* an error or a cancellation is never awaited.
Fairness ==
    /\ WF_vars(Tick)
    /\ \A c \in Call : WF_vars(TryLock(c) \/ LockTimeout(c)) /\ WF_vars(RenewOk(c))

FairSpec == Spec /\ Fairness

-----------------------------------------------------------------------------
TypeOK ==
    /\ key \in Call \cup {NoCall}
    /\ rem \in 0..TTL
    /\ pc \in [Call -> {"idle", "trying", "held", "releasing", "done", "failed"}]
    /\ renews \in [Call -> BOOLEAN]
    /\ due \in [Call -> 0..Every]
    /\ errs \in [Call -> 0..MaxErrs]
    /\ waited \in [Call -> 0..Wait]
    /\ late \subseteq Call

\* The holder serves its ticker and lost at most one renewal in a row.
Healthy(c) == c \notin late /\ errs[c] <= 1

\* Lease's promise: "a critical section that runs longer than one TTL keeps the
\* lock".  The key never expires under a healthy holder, however long its
\* section, and whatever the other callers suffer.
HolderOwnsKey == \A c \in Call : pc[c] = "held" /\ Healthy(c) => key = c

\* "a holder whose lease expired can never evict the next holder": the key
\* leaves a call's token only by expiring or by that call's own release, even
\* when holders stall past the TTL.
NobodyEvicts ==
    [][\A c \in Call :
          key = c /\ key' # c =>
              \/ rem = 1 /\ key' = NoCall
              \/ pc[c] = "releasing" /\ pc'[c] = "done"]_vars

\* Only the holder extends the key's life, and only while it holds the lease:
\* once its section has ended or its process died, the key only gets older.
OnlyHolderExtends ==
    [][\A c \in Call : key = c /\ rem' > rem => pc[c] = "held" /\ Fires(c)]_vars

\* "a holder that crashes stops renewing and the key expires": no failed, dead
\* or finished call blocks the lock for ever, whatever was left in Valkey.
LeftoverExpires ==
    \A c \in Call : pc[c] \in {"failed", "done"} ~> [](key # c)

\* Lock returns, although the holder may never leave its section.
LockReturns == \A c \in Call : pc[c] = "trying" ~> pc[c] # "trying"

-----------------------------------------------------------------------------
(* The inductive invariant behind HolderOwnsKey.                           *)

\* A healthy holder's renewal runs and owns the key, and what is left of the
\* TTL covers the time to its next firing and, until a renewal has failed, one
\* more period.
RenewalCovers ==
    \A c \in Call :
        pc[c] = "held" /\ Healthy(c) =>
            /\ renews[c]
            /\ key = c
            /\ rem > due[c] + (IF errs[c] = 0 THEN Every ELSE 0)
=============================================================================
