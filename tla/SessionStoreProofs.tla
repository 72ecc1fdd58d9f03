-------------------------- MODULE SessionStoreProofs --------------------------
(***************************************************************************)
(* mutateSession implements atomic updates: for any set of concurrent      *)
(* updates, fields, scans and restarts.                                    *)
(***************************************************************************)
EXTENDS SessionStore, TLAPS

USE StoreAssumption

\* The part of the types the refinement rests on.
KeyTypes ==
    /\ ver \in Nat
    /\ watched \in [Mut -> Nat]
    /\ pc \in [Mut -> {"idle", "watched", "read", "ok", "skipped", "failed"}]
    /\ snap \in [Mut -> [Field -> Mut \cup {NoMut}]]
    /\ blob \in [Field -> Mut \cup {NoMut}]

Inv == KeyTypes /\ SnapshotCurrent

\* A step of anyone but mutateSession leaves the calls alone, and modifies the
\* key only together with its version.
LEMMA OtherSteps ==
    ASSUME ver \in Nat,
           \/ CreateSet \/ CreateAdd \/ RestartFirst \/ RestartSecond
           \/ StopFirst \/ StopSecond \/ Expire
           \/ \E s \in Scan : Scanning(s)
    PROVE  /\ UNCHANGED muts
           /\ \/ UNCHANGED key
              \/ present' = TRUE /\ blob' = Fresh /\ ver' = ver + 1
              \/ present' = FALSE /\ blob' = Fresh /\ ver' = ver + 1
              \/ ~present /\ present' = FALSE /\ blob' = Fresh /\ ver' = ver
<1>1. CASE CreateSet
  BY <1>1 DEF CreateSet, SetKey
<1>2. CASE CreateAdd
  BY <1>2 DEF CreateAdd
<1>3. CASE RestartFirst \/ StopFirst
  BY <1>3 DEF RestartFirst, StopFirst, Delete, Unindex
<1>4. CASE RestartSecond \/ StopSecond \/ Expire
  BY <1>4 DEF RestartSecond, StopSecond, Expire, Delete, Erase, DelKey
<1>5. ASSUME NEW s \in Scan, Scanning(s)
      PROVE  /\ UNCHANGED muts
             /\ \/ UNCHANGED key
                \/ present' = FALSE /\ blob' = Fresh /\ ver' = ver + 1
                \/ ~present /\ present' = FALSE /\ blob' = Fresh /\ ver' = ver
  BY <1>5 DEF Scanning, ScanMembers, ScanGet, ScanHeal, ScanUnindex, ScanErase,
              Unindex, Erase, DelKey
<1> QED
  BY <1>1, <1>2, <1>3, <1>4, <1>5

\* A new session has none of the mutations.
LEMMA FreshType == Fresh \in [Field -> Mut \cup {NoMut}]
  BY DEF Fresh

\* The optimistic lock's invariant is inductive.
LEMMA InvStep == Inv /\ [Next]_vars => Inv'
<1> SUFFICES ASSUME Inv, [Next]_vars PROVE Inv'
  OBVIOUS
<1> USE FreshType DEF Inv, KeyTypes
<1>1. ASSUME NEW m \in Mut, Watch(m) PROVE Inv'
  BY <1>1 DEF Watch, At, SnapshotCurrent, key
<1>2. ASSUME NEW m \in Mut, Read(m) PROVE Inv'
  <2>1. CASE present
    <3>1. /\ pc' = [pc EXCEPT ![m] = "read"]
          /\ snap' = [snap EXCEPT ![m] = blob]
          /\ UNCHANGED <<present, blob, ver, watched>>
      BY <1>2, <2>1 DEF Read, At, key
    <3>2. KeyTypes'
      BY <3>1
    <3>3. SnapshotCurrent'
      BY <2>1, <3>1 DEF SnapshotCurrent
    <3> QED
      BY <3>2, <3>3
  <2>2. CASE ~present
    <3>1. /\ pc' = [pc EXCEPT ![m] = "failed"]
          /\ watched' = [watched EXCEPT ![m] = 0]
          /\ snap' = [snap EXCEPT ![m] = Fresh]
          /\ UNCHANGED <<present, blob, ver>>
      BY <1>2, <2>2 DEF Read, At, Forget, key
    <3>2. KeyTypes'
      BY <3>1
    <3>3. SnapshotCurrent'
      BY <3>1 DEF SnapshotCurrent
    <3> QED
      BY <3>2, <3>3
  <2> QED
    BY <2>1, <2>2
<1>3. ASSUME NEW m \in Mut, Skip(m) PROVE Inv'
  BY <1>3 DEF Skip, At, Forget, SnapshotCurrent, key
<1>4. ASSUME NEW m \in Mut, Commit(m) PROVE Inv'
  <2>1. Mutated(m) \in [Field -> Mut \cup {NoMut}]
    BY DEF Mutated
  <2> QED
    BY <1>4, <2>1 DEF Commit, At, Forget, SetKey, SnapshotCurrent
<1>5. ASSUME NEW m \in Mut, Conflict(m) PROVE Inv'
  BY <1>5 DEF Conflict, At, Forget, SnapshotCurrent, key
<1>6. CASE \/ CreateSet \/ CreateAdd \/ RestartFirst \/ RestartSecond
           \/ StopFirst \/ StopSecond \/ Expire
           \/ \E s \in Scan : Scanning(s)
  <2>1. UNCHANGED <<pc, watched, snap>>
    BY <1>6, OtherSteps DEF muts
  <2>2. CASE UNCHANGED key
    BY <2>1, <2>2 DEF SnapshotCurrent, key
  <2>3. CASE blob' = Fresh /\ ver' = ver + 1
    BY <2>1, <2>3 DEF SnapshotCurrent
  <2>4. CASE ~present /\ blob' = Fresh /\ ver' = ver
    BY <2>1, <2>4 DEF SnapshotCurrent
  <2> QED
    BY <1>6, <2>2, <2>3, <2>4, OtherSteps
<1>7. CASE UNCHANGED vars
  BY <1>7 DEF vars, SnapshotCurrent
<1> QED
  BY <1>1, <1>2, <1>3, <1>4, <1>5, <1>6, <1>7 DEF Next, Mutate

\* An EXEC that WATCH lets through writes over the blob it was computed from,
\* in every behaviour of the store.
THEOREM OptimisticLock == Spec => []SnapshotCurrent
<1>1. Init => Inv
  BY FreshType DEF Init, Inv, KeyTypes, SnapshotCurrent
<1> QED
  BY <1>1, InvStep, PTL DEF Spec, Inv

\* Every step of the store is a step of the abstract session, or no step of it.
LEMMA AtomicStep == Inv /\ [Next]_vars => [Atomic!Next]_(Atomic!vars)
<1> SUFFICES ASSUME Inv, [Next]_vars
             PROVE  Atomic!Next \/ UNCHANGED Atomic!vars
  OBVIOUS
<1> DEFINE App == {m \in Mut : pc[m] = "ok"}
<1> USE DEF Inv, KeyTypes
<1>1. ASSUME NEW m \in Mut, Watch(m) \/ Read(m) \/ Skip(m) \/ Conflict(m)
      PROVE  UNCHANGED Atomic!vars
  <2>1. UNCHANGED key
    BY <1>1 DEF Watch, Read, Skip, Conflict
  <2>2. \A q \in Mut : pc'[q] = "ok" <=> pc[q] = "ok"
    BY <1>1 DEF Watch, Read, Skip, Conflict, At
  <2>3. App' = App
    BY <2>2
  <2> QED
    BY <2>1, <2>3 DEF Atomic!vars, key
<1>2. ASSUME NEW m \in Mut, Commit(m) PROVE Atomic!Update(m)
  <2>1. present /\ snap[m] = blob
    BY <1>2 DEF Commit, At, SnapshotCurrent
  <2>2. blob' = Atomic!Written(blob, m)
    BY <1>2, <2>1 DEF Commit, SetKey, Mutated, Atomic!Written
  <2>3. m \notin App /\ pc' = [pc EXCEPT ![m] = "ok"]
    BY <1>2 DEF Commit, At
  <2>4. App' = App \cup {m}
    BY <2>3
  <2>5. present' = present
    BY <1>2, <2>1 DEF Commit, SetKey
  <2> QED
    BY <2>1, <2>2, <2>3, <2>4, <2>5 DEF Atomic!Update
<1>3. CASE \/ CreateSet \/ CreateAdd \/ RestartFirst \/ RestartSecond
           \/ StopFirst \/ StopSecond \/ Expire
           \/ \E s \in Scan : Scanning(s)
  <2>1. App' = App
    BY <1>3, OtherSteps DEF muts
  <2>2. \/ UNCHANGED key
        \/ present' = TRUE /\ blob' = Fresh
        \/ present' = FALSE /\ blob' = Fresh
    BY <1>3, OtherSteps
  <2>3. Fresh = Atomic!Fresh
    BY DEF Fresh, Atomic!Fresh
  <2> QED
    BY <2>1, <2>2, <2>3 DEF Atomic!Next, Atomic!Create, Atomic!Remove, Atomic!vars,
                            key
<1>4. CASE UNCHANGED vars
  BY <1>4 DEF vars, Atomic!vars
<1> QED
  BY <1>1, <1>2, <1>3, <1>4 DEF Next, Mutate, Atomic!Next

\* mutateSession refines atomic updates: no interleaving of touches, stamps,
\* rendition changes, restarts, stops and scans loses or misplaces an update.
THEOREM StoreIsAtomic == Spec => UpdatesAreAtomic
<1>1. Init => Inv
  BY FreshType DEF Init, Inv, KeyTypes, SnapshotCurrent
<1>2. Init => Atomic!Init
  BY DEF Init, Atomic!Init, Fresh, Atomic!Fresh
<1> QED
  BY <1>1, <1>2, InvStep, AtomicStep, PTL DEF Spec, UpdatesAreAtomic, Atomic!Spec
-----------------------------------------------------------------------------
(* The index.                                                              *)

\* Who owes the store a command: a Create its SADD, a Delete its DEL, and a scan
\* that healed the index, which nobody makes up for.
Owed ==
    \/ owner \in {"sadd", "del"}
    \/ stop = "del"
    \/ \E s \in Scan : scan[s] \in {"healed", "del"}

\* A stored session that the index misses is one somebody still works on.
IndexOwed == present /\ ~indexed => Owed

\* A call that goes on has an attempt left.
TriesLeft ==
    \A m \in Mut : pc[m] \in {"idle", "watched", "read"} => tries[m] < MaxAttempts

IndexInv == TypeOK /\ TriesLeft /\ SnapshotCurrent /\ IndexOwed

\* The key after a DEL.
LEMMA DelKeyTypes ==
    ASSUME TypeOK, DelKey
    PROVE  present' = FALSE /\ blob' = Fresh /\ ver' \in Nat
<1>1. ver \in Nat /\ ver + 1 \in Nat
  BY DEF TypeOK
<1> QED
  BY <1>1, Zenon DEF DelKey

\* mutateSession keeps the types, and gives up in time.
LEMMA MutateTypes ==
    ASSUME TypeOK, TriesLeft, NEW m \in Mut, Mutate(m)
    PROVE  TypeOK' /\ TriesLeft'
<1> USE FreshType DEF TypeOK, TriesLeft, At, Forget, key, others
<1>1. CASE Watch(m)
  BY <1>1 DEF Watch
<1>2. CASE Read(m)
  <2>1. CASE present
    <3>1. /\ pc' = [pc EXCEPT ![m] = "read"]
          /\ snap' = [snap EXCEPT ![m] = blob]
          /\ UNCHANGED <<watched, tries>>
          /\ pc[m] = "watched"
      BY <1>2, <2>1 DEF Read
    <3> QED
      BY <1>2, <3>1 DEF Read
  <2>2. CASE ~present
    <3>1. /\ pc' = [pc EXCEPT ![m] = "failed"]
          /\ watched' = [watched EXCEPT ![m] = 0]
          /\ snap' = [snap EXCEPT ![m] = Fresh]
          /\ UNCHANGED tries
      BY <1>2, <2>2 DEF Read
    <3> QED
      BY <1>2, <3>1 DEF Read
  <2> QED
    BY <2>1, <2>2
<1>3. CASE Skip(m)
  BY <1>3 DEF Skip
<1>4. CASE Commit(m)
  <2>1. Mutated(m) \in [Field -> Mut \cup {NoMut}]
    BY DEF Mutated
  <2> QED
    BY <1>4, <2>1 DEF Commit, SetKey
<1>5. CASE Conflict(m)
  BY <1>5 DEF Conflict
<1> QED
  BY <1>1, <1>2, <1>3, <1>4, <1>5 DEF Mutate

\* An update of a session creates none and leaves the index alone: SnapshotCurrent
\* says that the session it writes is still there.
LEMMA MutateIndex ==
    ASSUME IndexInv, NEW m \in Mut, Mutate(m)
    PROVE  IndexOwed'
<1>1. UNCHANGED <<indexed, owner, stop, scan>>
  BY DEF Mutate, Watch, Read, Skip, Commit, Conflict, others
<1>2. present' = present
  <2>1. CASE Commit(m)
    BY <2>1 DEF Commit, At, SetKey, IndexInv, SnapshotCurrent, TypeOK
  <2>2. CASE Watch(m) \/ Read(m) \/ Skip(m) \/ Conflict(m)
    BY <2>2 DEF Watch, Read, Skip, Conflict, key
  <2> QED
    BY <2>1, <2>2 DEF Mutate
<1> QED
  BY <1>1, <1>2 DEF IndexInv, IndexOwed, Owed

\* The index invariant is inductive.
LEMMA IndexStep == IndexInv /\ [Next]_vars => IndexInv'
<1> SUFFICES ASSUME IndexInv, [Next]_vars PROVE IndexInv'
  OBVIOUS
<1>1. Inv /\ Inv'
  <2>1. Inv
    BY DEF IndexInv, Inv, KeyTypes, TypeOK
  <2> QED
    BY <2>1, InvStep
<1> SUFFICES (TypeOK /\ TriesLeft /\ IndexOwed)'
  BY <1>1 DEF Inv, IndexInv
<1> USE FreshType
<1>2. ASSUME NEW m \in Mut, Mutate(m) PROVE (TypeOK /\ TriesLeft /\ IndexOwed)'
  BY <1>2, MutateTypes, MutateIndex DEF IndexInv
<1>3. ASSUME UNCHANGED <<pc, tries>> PROVE TriesLeft'
  BY <1>3 DEF TriesLeft, IndexInv
<1> USE DEF IndexInv, TypeOK, IndexOwed, Owed, muts, key
<1>4. CASE CreateSet
  BY <1>3, <1>4 DEF CreateSet, SetKey
<1>5. CASE CreateAdd
  BY <1>3, <1>5 DEF CreateAdd
<1>6. CASE RestartFirst
  BY <1>3, <1>6 DEF RestartFirst, Delete, Unindex
<1>7. CASE RestartSecond
  <2>1. DelKey /\ UNCHANGED indexed
    BY <1>7 DEF RestartSecond, Delete, Erase
  <2>2. present' = FALSE /\ blob' = Fresh /\ ver' \in Nat
    BY <2>1, DelKeyTypes
  <2> QED
    BY <1>3, <1>7, <2>1, <2>2 DEF RestartSecond
<1>8. CASE StopFirst
  BY <1>3, <1>8 DEF StopFirst, Delete, Unindex
<1>9. CASE StopSecond
  <2>1. DelKey /\ UNCHANGED indexed
    BY <1>9 DEF StopSecond, Delete, Erase
  <2>2. present' = FALSE /\ blob' = Fresh /\ ver' \in Nat
    BY <2>1, DelKeyTypes
  <2> QED
    BY <1>3, <1>9, <2>1, <2>2 DEF StopSecond
<1>10. CASE Expire
  BY <1>3, <1>10, DelKeyTypes DEF Expire, others
<1>11. ASSUME NEW s \in Scan, Scanning(s) PROVE (TypeOK /\ TriesLeft /\ IndexOwed)'
  <2> USE DEF ScanAt
  <2>1. CASE ScanMembers(s)
    BY <1>3, <2>1 DEF ScanMembers
  <2>2. CASE ScanGet(s)
    BY <1>3, <2>2 DEF ScanGet
  <2>3. CASE ScanHeal(s)
    BY <1>3, <2>3 DEF ScanHeal, Unindex
  <2>4. CASE ScanUnindex(s)
    BY <1>3, <2>4 DEF ScanUnindex, Unindex
  <2>5. CASE ScanErase(s)
    BY <1>3, <2>5, DelKeyTypes DEF ScanErase, Erase
  <2> QED
    BY <1>11, <2>1, <2>2, <2>3, <2>4, <2>5 DEF Scanning
<1>12. CASE UNCHANGED vars
  BY <1>3, <1>12 DEF vars
<1> QED
  BY <1>2, <1>4, <1>5, <1>6, <1>7, <1>8, <1>9, <1>10, <1>11, <1>12 DEF Next

\* List misses no stored session once nothing is in flight, and the variables keep
\* their types: for any number of updates, scans and restarts.
THEOREM IndexIsComplete == Spec => []StoreInv
<1>1. Init => IndexInv
  <2> SUFFICES ASSUME Init PROVE IndexInv
    OBVIOUS
  <2>1. TypeOK
    <3>1. present \in BOOLEAN /\ indexed \in BOOLEAN
      BY DEF Init
    <3>2. /\ snap \in [Mut -> [Field -> Mut \cup {NoMut}]]
          /\ blob \in [Field -> Mut \cup {NoMut}]
      BY FreshType DEF Init
    <3>3. /\ ver \in Nat
          /\ watched \in [Mut -> Nat]
          /\ tries \in [Mut -> 0..MaxAttempts]
          /\ created \in 0..MaxCreates
      BY DEF Init
    <3> QED
      BY <3>1, <3>2, <3>3 DEF Init, TypeOK
  <2>2. TriesLeft /\ SnapshotCurrent
    BY DEF Init, TriesLeft, SnapshotCurrent
  <2>3. IndexOwed
    BY DEF Init, IndexOwed
  <2> QED
    BY <2>1, <2>2, <2>3 DEF IndexInv
<1>2. IndexInv => StoreInv
  BY DEF IndexInv, StoreInv, IndexComplete, IndexOwed, Owed, Quiet
<1> QED
  BY <1>1, <1>2, IndexStep, PTL DEF Spec
=============================================================================
