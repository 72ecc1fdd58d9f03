-------------------------- MODULE ValkeyLeaseProofs --------------------------
(***************************************************************************)
(* Proofs about ValkeyLease for any number of calls and any TTL.           *)
(***************************************************************************)
EXTENDS ValkeyLease, TLAPS

USE LeaseAssumption

\* The renewal period is positive and at most the TTL.
LEMMA EveryPeriod == Every \in Nat /\ Every > 0 /\ Every <= TTL
  BY DEF Every

\* Three periods fit into a TTL of at least three clock units.
LEMMA ThreePeriods == ASSUME TTL >= 3 PROVE 3 * Every <= TTL
  BY DEF Every

\* Every step keeps the type invariant.
LEMMA TypeStep == TypeOK /\ [Next]_vars => TypeOK'
<1> SUFFICES ASSUME TypeOK, [Next]_vars PROVE TypeOK'
  OBVIOUS
<1> USE EveryPeriod DEF TypeOK
<1>1. ASSUME NEW c \in Call, StartLock(c) PROVE TypeOK'
  BY <1>1 DEF StartLock, At
<1>2. ASSUME NEW c \in Call, TryLock(c) PROVE TypeOK'
  BY <1>2 DEF TryLock, At
<1>3. ASSUME NEW c \in Call, LockTimeout(c) PROVE TypeOK'
  BY <1>3 DEF LockTimeout, At
<1>4. ASSUME NEW c \in Call, LockCancelled(c) PROVE TypeOK'
  BY <1>4 DEF LockCancelled, At
<1>5. ASSUME NEW c \in Call, LockErr(c) PROVE TypeOK'
  BY <1>5 DEF LockErr, At
<1>6. ASSUME NEW c \in Call, RenewOk(c) PROVE TypeOK'
  <2>1. rem' \in 0..TTL
    BY <1>6 DEF RenewOk, CompareAndExpire
  <2>2. renews' \in [Call -> BOOLEAN]
    BY <1>6 DEF RenewOk
  <2>3. due' \in [Call -> 0..Every] /\ errs' \in [Call -> 0..MaxErrs]
    BY <1>6 DEF RenewOk
  <2> QED
    BY <1>6, <2>1, <2>2, <2>3 DEF RenewOk
<1>7. ASSUME NEW c \in Call, RenewErr(c) PROVE TypeOK'
  BY <1>7 DEF RenewErr, Fires, CompareAndExpire
<1>8. ASSUME NEW c \in Call, StopRenewal(c) PROVE TypeOK'
  BY <1>8 DEF StopRenewal, At
<1>9. ASSUME NEW c \in Call, ReleaseKey(c) PROVE TypeOK'
  BY <1>9 DEF ReleaseKey, CompareAndDelete, At
<1>10. ASSUME NEW c \in Call, ReleaseErr(c) PROVE TypeOK'
  BY <1>10 DEF ReleaseErr, At
<1>11. ASSUME NEW c \in Call, Crash(c) PROVE TypeOK'
  BY <1>11 DEF Crash
<1>12. CASE Tick
  BY <1>12 DEF Tick
<1>13. CASE UNCHANGED vars
  BY <1>13 DEF vars
<1> QED
  BY <1>1, <1>2, <1>3, <1>4, <1>5, <1>6, <1>7, <1>8, <1>9, <1>10, <1>11,
     <1>12, <1>13 DEF Next, Poll, Renew, Release

\* The lock's variables keep their types: no clock leaves its range.
THEOREM LeaseTypeCorrect == Spec => []TypeOK
<1>1. Init => TypeOK
  BY EveryPeriod DEF Init, TypeOK
<1> QED
  BY <1>1, TypeStep, PTL DEF Spec

-----------------------------------------------------------------------------
\* A renewal goroutine runs only inside its call's section, in every
\* behaviour, stalls and crashes included.
RenewsInSection == \A c \in Call : renews[c] => pc[c] = "held"

LEMMA SectionStep == TypeOK /\ RenewsInSection /\ [Next]_vars => RenewsInSection'
<1> SUFFICES ASSUME TypeOK, RenewsInSection, [Next]_vars,
                    NEW q \in Call, renews'[q]
             PROVE  pc'[q] = "held"
  BY DEF RenewsInSection
<1> USE DEF TypeOK, RenewsInSection
<1>1. ASSUME NEW c \in Call, StartLock(c) \/ Poll(c) PROVE pc'[q] = "held"
  BY <1>1 DEF StartLock, Poll, TryLock, LockTimeout, LockCancelled, LockErr, At
<1>2. ASSUME NEW c \in Call, Renew(c) PROVE pc'[q] = "held"
  BY <1>2 DEF Renew, RenewOk, RenewErr
<1>3. ASSUME NEW c \in Call, Release(c) \/ Crash(c) PROVE pc'[q] = "held"
  BY <1>3 DEF Release, StopRenewal, ReleaseKey, ReleaseErr, Crash, At
<1>4. CASE Tick \/ UNCHANGED vars
  BY <1>4 DEF Tick, vars
<1> QED
  BY <1>1, <1>2, <1>3, <1>4 DEF Next

\* A key that holds a token has time left.
KeyAlive == key # NoCall => rem > 0

LEMMA AliveStep == TypeOK /\ KeyAlive /\ [Next]_vars => KeyAlive'
<1> SUFFICES ASSUME TypeOK, KeyAlive, [Next]_vars PROVE KeyAlive'
  OBVIOUS
<1> USE DEF TypeOK, KeyAlive
<1>1. ASSUME NEW c \in Call, StartLock(c) \/ Poll(c) PROVE KeyAlive'
  BY <1>1 DEF StartLock, Poll, TryLock, LockTimeout, LockCancelled, LockErr
<1>2. ASSUME NEW c \in Call, Renew(c) PROVE KeyAlive'
  BY <1>2 DEF Renew, RenewOk, RenewErr, CompareAndExpire
<1>3. ASSUME NEW c \in Call, Release(c) \/ Crash(c) PROVE KeyAlive'
  BY <1>3 DEF Release, StopRenewal, ReleaseKey, ReleaseErr, CompareAndDelete, Crash
<1>4. CASE Tick \/ UNCHANGED vars
  BY <1>4 DEF Tick, vars
<1> QED
  BY <1>1, <1>2, <1>3, <1>4 DEF Next

\* What a step may do to a key that holds call c's token.
LEMMA KeyStep ==
    ASSUME TypeOK, RenewsInSection, KeyAlive, [Next]_vars, NEW c \in Call, key = c
    PROVE  /\ key' # c => \/ rem = 1 /\ key' = NoCall
                          \/ pc[c] = "releasing" /\ pc'[c] = "done"
           /\ rem' > rem => pc[c] = "held" /\ Fires(c)
<1> DEFINE Extends == pc[c] = "held" /\ Fires(c)
           Leaves == \/ rem = 1 /\ key' = NoCall
                     \/ pc[c] = "releasing" /\ pc'[c] = "done"
<1>0. rem \in Nat /\ rem > 0 /\ c # NoCall
  BY DEF TypeOK, KeyAlive
<1>1. ASSUME NEW d \in Call, StartLock(d) \/ Poll(d)
      PROVE  key' = key /\ rem' = rem
  BY <1>0, <1>1 DEF StartLock, Poll, TryLock, LockTimeout, LockCancelled, LockErr
<1>2. ASSUME NEW d \in Call, Renew(d)
      PROVE  key' = key /\ (rem' = rem \/ Extends)
  <2>1. Fires(d) /\ key' = key /\ (rem' = rem \/ CompareAndExpire(d))
    BY <1>2 DEF Renew, RenewOk, RenewErr
  <2>2. Fires(d) => pc[d] = "held"
    BY DEF Fires, RenewsInSection
  <2>3. CASE d = c
    BY <2>1, <2>2, <2>3
  <2>4. CASE d # c
    BY <2>1, <2>4 DEF CompareAndExpire
  <2> QED
    BY <2>3, <2>4
<1>3. ASSUME NEW d \in Call, Release(d)
      PROVE  (rem' = rem \/ rem' = 0) /\ (key' = key \/ Leaves)
  <2>1. CASE StopRenewal(d) \/ ReleaseErr(d)
    BY <2>1 DEF StopRenewal, ReleaseErr
  <2>2. CASE ReleaseKey(d)
    <3>1. pc[d] = "releasing" /\ pc'[d] = "done"
      BY <2>2 DEF ReleaseKey, At, TypeOK
    <3> QED
      BY <2>2, <3>1 DEF ReleaseKey, CompareAndDelete
  <2> QED
    BY <1>3, <2>1, <2>2 DEF Release
<1>4. ASSUME NEW d \in Call, Crash(d) PROVE key' = key /\ rem' = rem
  BY <1>4 DEF Crash
<1>5. Tick => rem' = rem - 1 /\ (key' = key \/ Leaves)
  <2>1. Tick => /\ rem' = IF rem = 0 THEN 0 ELSE rem - 1
                /\ key' = IF rem <= 1 THEN NoCall ELSE key
    BY DEF Tick
  <2> QED
    BY <1>0, <2>1
<1>6. UNCHANGED vars => key' = key /\ rem' = rem
  BY DEF vars
<1>7. (rem' = rem \/ rem' = 0 \/ rem' = rem - 1) => ~(rem' > rem)
  BY <1>0
<1> HIDE DEF Extends, Leaves
<1>8. (key' # c => Leaves) /\ (rem' > rem => Extends)
  <2>1. CASE Tick
    BY <1>5, <1>7, <2>1
  <2>2. CASE UNCHANGED vars
    BY <1>6, <1>7, <2>2
  <2>3. ASSUME NEW d \in Call,
               StartLock(d) \/ Poll(d) \/ Renew(d) \/ Release(d) \/ Crash(d)
        PROVE  (key' # c => Leaves) /\ (rem' > rem => Extends)
    BY <1>1, <1>2, <1>3, <1>4, <1>7, <2>3
  <2> QED
    BY <2>1, <2>2, <2>3 DEF Next
<1> QED
  BY <1>8 DEF Extends, Leaves

\* A holder whose lease expired never evicts the next holder, for any number
\* of calls and any TTL, with every fault the model has.
THEOREM EvictionSafety == Spec => NobodyEvicts
<1>1. Init => TypeOK /\ RenewsInSection /\ KeyAlive
  BY EveryPeriod DEF Init, TypeOK, RenewsInSection, KeyAlive
<1>2. TypeOK /\ RenewsInSection /\ KeyAlive /\ [Next]_vars
        => [\A c \in Call : key = c /\ key' # c =>
               \/ rem = 1 /\ key' = NoCall
               \/ pc[c] = "releasing" /\ pc'[c] = "done"]_vars
  BY KeyStep
<1> QED
  BY <1>1, <1>2, TypeStep, SectionStep, AliveStep, PTL DEF Spec, NobodyEvicts

\* Only a live holder extends the key: renewing someone else's lease is
\* impossible, with every fault the model has.
THEOREM ExtensionSafety == Spec => OnlyHolderExtends
<1>1. Init => TypeOK /\ RenewsInSection /\ KeyAlive
  BY EveryPeriod DEF Init, TypeOK, RenewsInSection, KeyAlive
<1>2. TypeOK /\ RenewsInSection /\ KeyAlive /\ [Next]_vars
        => [\A c \in Call : key = c /\ rem' > rem => pc[c] = "held" /\ Fires(c)]_vars
  BY KeyStep
<1> QED
  BY <1>1, <1>2, TypeStep, SectionStep, AliveStep, PTL DEF Spec, OnlyHolderExtends

-----------------------------------------------------------------------------
\* Every step leaves a healthy holder's renewal enough of the TTL for its next
\* firing.
LEMMA CoverStep ==
    ASSUME TTL >= 3
    PROVE  TypeOK /\ RenewsInSection /\ RenewalCovers /\ [Next]_vars => RenewalCovers'
<1> SUFFICES ASSUME TypeOK, RenewsInSection, RenewalCovers, [Next]_vars,
                    NEW q \in Call, pc'[q] = "held", Healthy(q)'
             PROVE  /\ renews'[q]
                    /\ key' = q
                    /\ rem' > due'[q] + (IF errs'[q] = 0 THEN Every ELSE 0)
  BY DEF RenewalCovers, Healthy
<1> DEFINE Covered == /\ renews'[q]
                      /\ key' = q
                      /\ rem' > due'[q] + (IF errs'[q] = 0 THEN Every ELSE 0)
<1>0. /\ q # NoCall
      /\ rem \in Nat /\ due[q] \in Nat /\ errs[q] \in Nat
      /\ Every \in Nat /\ Every > 0 /\ 3 * Every <= TTL
      /\ \A c \in Call : errs[c] \in Nat /\ due[c] \in Nat
  BY EveryPeriod, ThreePeriods DEF TypeOK
<1>1. ASSUME NEW c \in Call, StartLock(c) \/ LockTimeout(c) \/ LockCancelled(c)
                             \/ ReleaseErr(c)
      PROVE  Covered
  BY <1>1 DEF StartLock, LockTimeout, LockCancelled, ReleaseErr, At, TypeOK,
              RenewalCovers, Healthy
<1>2. ASSUME NEW c \in Call, TryLock(c) PROVE Covered
  BY <1>0, <1>2 DEF TryLock, At, TypeOK, RenewalCovers, Healthy
<1>3. ASSUME NEW c \in Call, LockErr(c) PROVE Covered
  BY <1>0, <1>3 DEF LockErr, At, TypeOK, RenewalCovers, Healthy
<1>4. ASSUME NEW c \in Call, RenewOk(c) PROVE Covered
  BY <1>0, <1>4 DEF RenewOk, Fires, CompareAndExpire, TypeOK, RenewsInSection,
                    RenewalCovers, Healthy
<1>5. ASSUME NEW c \in Call, RenewErr(c) PROVE Covered
  BY <1>0, <1>5 DEF RenewErr, Fires, CompareAndExpire, TypeOK, RenewalCovers, Healthy
<1>6. ASSUME NEW c \in Call, StopRenewal(c) \/ Crash(c) PROVE Covered
  BY <1>6 DEF StopRenewal, Crash, At, TypeOK, RenewalCovers, Healthy
<1>7. ASSUME NEW c \in Call, ReleaseKey(c) PROVE Covered
  BY <1>7 DEF ReleaseKey, CompareAndDelete, At, TypeOK, RenewalCovers, Healthy
<1>8. CASE Tick
  BY <1>0, <1>8 DEF Tick, Fires, TypeOK, RenewalCovers, Healthy
<1>9. CASE UNCHANGED vars
  BY <1>9 DEF vars, RenewalCovers, Healthy
<1> QED
  BY <1>1, <1>2, <1>3, <1>4, <1>5, <1>6, <1>7, <1>8, <1>9
  DEF Next, Poll, Renew, Release

\* A section that outlives the TTL keeps the lock: a process that serves its
\* ticker, and lost at most one renewal in a row, owns the key as long as it
\* holds the lease, whatever happens to the other callers.
THEOREM HolderKeepsKey ==
    ASSUME TTL >= 3
    PROVE  Spec => []HolderOwnsKey
<1>1. Init => TypeOK /\ RenewsInSection /\ RenewalCovers
  BY EveryPeriod DEF Init, TypeOK, RenewsInSection, RenewalCovers
<1>2. RenewalCovers => HolderOwnsKey
  BY DEF RenewalCovers, HolderOwnsKey
<1> QED
  BY <1>1, <1>2, TypeStep, SectionStep, CoverStep, PTL DEF Spec
=============================================================================
