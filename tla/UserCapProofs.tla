---------------------------- MODULE UserCapProofs ----------------------------
(***************************************************************************)
(* The per-user cap holds for any number of overlapping Starts, any cap    *)
(* and every combination of faults.                                        *)
(***************************************************************************)
EXTENDS UserCap, FiniteSetTheorems, TLAPS

USE CapAssumption

\* A call stores its session only once it is past its Create.
NotYetStored ==
    \A s \in Start :
        pc[s] \in {"idle", "supersede", "plan", "lock", "count", "create",
                   "createlocked"} => s \notin sess

\* While no lock has lapsed, whoever counts or creates under the lock is its
\* holder - also after calls that fell open.
HolderInWindow == lapsed = {} => \A s \in Start : InWindow(s) => lock = s

\* What the count under the lock established still holds at the Create.
RoomKept ==
    \A s \in Start : pc[s] = "createlocked" => Cardinality(Live) < Cap

\* Nobody creates without the lock, and no lock has lapsed.
NoneFellOpen == lapsed = {} /\ \A s \in Start : pc[s] # "create"

Guarded == RoomKept /\ NoneFellOpen /\ Cardinality(Live) <= Cap

CapInv ==
    /\ TypeOK
    /\ NotYetStored
    /\ HolderInWindow
    /\ excused \/ Guarded

-----------------------------------------------------------------------------
\* The live sessions can be counted, and fewer sessions count less.
LEMMA LiveCounts ==
    ASSUME TypeOK
    PROVE  /\ IsFiniteSet(Live)
           /\ Cardinality(Live) \in Nat
           /\ \A S \in SUBSET Live : Cardinality(S) \in Nat /\ Cardinality(S) <= Cardinality(Live)
<1>1. Live \subseteq Start
  BY DEF Live, TypeOK
<1>2. IsFiniteSet(Live)
  BY <1>1, FS_Subset
<1>3. ASSUME NEW S \in SUBSET Live
      PROVE  Cardinality(S) \in Nat /\ Cardinality(S) <= Cardinality(Live)
  BY <1>2, <1>3, FS_Subset, FS_CardinalityType
<1> QED
  BY <1>2, <1>3, FS_CardinalityType

\* A step that takes no lock, and neither creates a session nor moves a call into
\* the window, keeps the lock's promise and the cap.
LEMMA Shrinks ==
    ASSUME CapInv, TypeOK', Live' \subseteq Live,
           \A s \in Start : /\ InWindow(s)' => InWindow(s)
                            /\ pc'[s] = "createlocked" => pc[s] = "createlocked"
                            /\ pc'[s] = "create" => pc[s] = "create",
           UNCHANGED <<lock, lapsed, excused>>
    PROVE  HolderInWindow' /\ (excused \/ Guarded)'
<1>1. Cardinality(Live') \in Nat /\ Cardinality(Live') <= Cardinality(Live)
      /\ Cardinality(Live) \in Nat
  BY LiveCounts DEF CapInv
<1>2. HolderInWindow'
  BY DEF CapInv, HolderInWindow
<1>3. CASE ~excused
  <2>1. NoneFellOpen'
    BY <1>3 DEF CapInv, Guarded, NoneFellOpen
  <2>2. RoomKept' /\ Cardinality(Live)' <= Cap
    BY <1>1, <1>3 DEF CapInv, Guarded, RoomKept
  <2> QED
    BY <1>2, <2>1, <2>2 DEF Guarded
<1> QED
  BY <1>2, <1>3

\* The types are kept.
LEMMA TypeStep ==
    ASSUME TypeOK, [Next]_vars
    PROVE  TypeOK'
<1> USE DEF TypeOK, At
<1>1. ASSUME NEW s \in Start, Call(s)
      PROVE  TypeOK'
  <2>1. CASE TearDownPrior(s)
    BY <2>1 DEF TearDownPrior
  <2>2. CASE PreCheck(s)
    BY <2>2 DEF PreCheck
  <2>3. CASE Plan(s)
    BY <2>3 DEF Plan
  <2>4. CASE TakeLock(s)
    BY <2>4 DEF TakeLock
  <2>5. CASE TimedOut(s)
    BY <2>5 DEF TimedOut
  <2>6. CASE GiveUp(s)
    BY <2>6 DEF GiveUp
  <2>7. CASE Count(s)
    BY <2>7 DEF Count
  <2>8. CASE Create(s)
    BY <2>8 DEF Create
  <2>9. CASE Unlock(s)
    BY <2>9 DEF Unlock
  <2>10. CASE DispatchJob(s)
    BY <2>10 DEF DispatchJob
  <2>11. CASE Reply(s)
    BY <2>11 DEF Reply
  <2>12. CASE ReplyABR(s)
    BY <2>12 DEF ReplyABR
  <2> QED
    BY <1>1, <2>1, <2>2, <2>3, <2>4, <2>5, <2>6, <2>7, <2>8, <2>9, <2>10, <2>11, <2>12
       DEF Call
<1>2. ASSUME NEW s \in Start, Reject(s) \/ ListPrior(s) \/ LockError(s)
      PROVE  TypeOK'
  <2>1. CASE Reject(s)
    BY <2>1 DEF Reject
  <2>2. CASE ListPrior(s)
    <3>1. PICK S \in SUBSET sess : prior' = [prior EXCEPT ![s] = S]
      BY <2>2 DEF ListPrior
    <3> QED
      BY <2>2, <3>1 DEF ListPrior
  <2>3. CASE LockError(s)
    BY <2>3 DEF LockError
  <2> QED
    BY <1>2, <2>1, <2>2, <2>3
<1>3. ASSUME NEW s \in Start, Disconnect(s) \/ GoesStale(s) \/ Resumes(s) \/ Stop(s)
      PROVE  TypeOK'
  BY <1>3 DEF Disconnect, GoesStale, Resumes, Stop, Live
<1>4. CASE LockExpires
  BY <1>4 DEF LockExpires, InWindow
<1>5. CASE UNCHANGED vars
  BY <1>5 DEF vars
<1> QED
  BY <1>1, <1>2, <1>3, <1>4, <1>5 DEF Next

\* The cap's invariant is inductive.
LEMMA CapStep == CapInv /\ [Next]_vars => CapInv'
<1> SUFFICES ASSUME CapInv, [Next]_vars PROVE CapInv'
  OBVIOUS
<1>1. TypeOK /\ TypeOK'
  BY TypeStep DEF CapInv
<1> SUFFICES NotYetStored' /\ HolderInWindow' /\ (excused \/ Guarded)'
  BY <1>1 DEF CapInv
<1> USE DEF At
\* Steps that only let go.
<1>2. ASSUME UNCHANGED <<lock, lapsed, excused>>,
             sess' \subseteq sess, Live' \subseteq Live,
             \A s \in Start : \/ pc'[s] = pc[s]
                              \/ pc'[s] \in {"dispatch", "reply", "started", "refused"}
                              \/ /\ pc[s] \in {"idle", "supersede", "plan"}
                                 /\ pc'[s] \in {"supersede", "plan", "lock"}
      PROVE  NotYetStored' /\ HolderInWindow' /\ (excused \/ Guarded)'
  <2>1. NotYetStored'
    BY <1>2 DEF CapInv, NotYetStored
  <2>2. \A s \in Start : /\ InWindow(s)' => InWindow(s)
                         /\ pc'[s] = "createlocked" => pc[s] = "createlocked"
                         /\ pc'[s] = "create" => pc[s] = "create"
    BY <1>2 DEF InWindow
  <2> QED
    BY <1>1, <1>2, <2>1, <2>2, Shrinks
<1>3. ASSUME NEW s \in Start,
             \/ Reject(s) \/ ListPrior(s) \/ PreCheck(s) \/ Plan(s) \/ GiveUp(s)
             \/ ReplyABR(s) \/ Disconnect(s)
      PROVE  NotYetStored' /\ HolderInWindow' /\ (excused \/ Guarded)'
  BY <1>1, <1>2, <1>3 DEF Reject, ListPrior, PreCheck, Plan, GiveUp, ReplyABR,
                          Disconnect, Live, TypeOK
<1>4. ASSUME NEW s \in Start, TearDownPrior(s)
      PROVE  NotYetStored' /\ HolderInWindow' /\ (excused \/ Guarded)'
  BY <1>1, <1>2, <1>4 DEF TearDownPrior, Live, TypeOK
<1>5. ASSUME NEW s \in Start, DispatchJob(s)
      PROVE  NotYetStored' /\ HolderInWindow' /\ (excused \/ Guarded)'
  BY <1>1, <1>2, <1>5 DEF DispatchJob, Live, TypeOK
<1>6. ASSUME NEW s \in Start, Reply(s)
      PROVE  NotYetStored' /\ HolderInWindow' /\ (excused \/ Guarded)'
  BY <1>1, <1>2, <1>6 DEF Reply, Live, TypeOK
<1>7. ASSUME NEW s \in Start, GoesStale(s) \/ Stop(s)
      PROVE  NotYetStored' /\ HolderInWindow' /\ (excused \/ Guarded)'
  BY <1>1, <1>2, <1>7 DEF GoesStale, Stop, Live, TypeOK
\* The lock and what happens under it.
<1>8. ASSUME NEW s \in Start, TakeLock(s)
      PROVE  NotYetStored' /\ HolderInWindow' /\ (excused \/ Guarded)'
  <2>1. NotYetStored'
    BY <1>1, <1>8 DEF TakeLock, CapInv, NotYetStored, TypeOK
  <2>2. HolderInWindow'
    BY <1>1, <1>8 DEF TakeLock, CapInv, HolderInWindow, InWindow, TypeOK
  <2>3. (excused \/ Guarded)'
    BY <1>1, <1>8 DEF TakeLock, CapInv, Guarded, RoomKept, NoneFellOpen, Live, TypeOK
  <2> QED
    BY <2>1, <2>2, <2>3
<1>9. ASSUME NEW s \in Start, LockError(s) \/ TimedOut(s)
      PROVE  NotYetStored' /\ HolderInWindow' /\ (excused \/ Guarded)'
  BY <1>1, <1>9 DEF LockError, TimedOut, CapInv, NotYetStored, HolderInWindow, InWindow,
                    TypeOK
<1>10. ASSUME NEW s \in Start, Count(s)
       PROVE  NotYetStored' /\ HolderInWindow' /\ (excused \/ Guarded)'
  <2>1. NotYetStored' /\ HolderInWindow'
    BY <1>1, <1>10 DEF Count, CapInv, NotYetStored, HolderInWindow, InWindow, TypeOK
  <2>2. CASE excused'
    BY <2>1, <2>2
  <2>3. CASE ~excused'
    <3>1. PICK ok \in Answers(s) :
             /\ pc' = [pc EXCEPT ![s] = IF ok /\ Full THEN "unlockfull" ELSE "createlocked"]
             /\ excused' = (excused \/ ~ok)
      BY <1>10 DEF Count
    <3>2. Guarded /\ UNCHANGED <<sess, stale, lapsed>> /\ ok
      BY <1>10, <2>3, <3>1 DEF Count, CapInv
    <3>3. \/ pc' = [pc EXCEPT ![s] = "createlocked"] /\ ~Full
          \/ pc' = [pc EXCEPT ![s] = "unlockfull"]
      BY <3>1, <3>2
    <3>4. RoomKept'
      <4>1. Cardinality(Live) \in Nat /\ Live' = Live
        BY <1>1, <3>2, LiveCounts DEF Live
      <4>2. pc'[s] = "createlocked" => Cardinality(Live) < Cap
        BY <1>1, <3>3, <4>1 DEF Full, TypeOK
      <4> QED
        BY <1>1, <3>2, <3>3, <4>1, <4>2 DEF Guarded, RoomKept, TypeOK
    <3>5. NoneFellOpen' /\ Cardinality(Live)' <= Cap
      BY <1>1, <3>2, <3>3 DEF Guarded, NoneFellOpen, Live, TypeOK
    <3> QED
      BY <2>1, <3>4, <3>5 DEF Guarded
  <2> QED
    BY <2>2, <2>3
<1>11. ASSUME NEW s \in Start, Create(s)
       PROVE  NotYetStored' /\ HolderInWindow' /\ (excused \/ Guarded)'
  <2>1. /\ UNCHANGED <<stale, lock, lapsed, excused>>
        /\ sess' \subseteq sess \cup {s}
        /\ pc[s] \in {"create", "createlocked"}
        /\ \/ pc' = [pc EXCEPT ![s] = "dispatch"] \/ pc' = [pc EXCEPT ![s] = "refused"]
           \/ /\ pc[s] = "createlocked"
              /\ \/ pc' = [pc EXCEPT ![s] = "unlock"]
                 \/ pc' = [pc EXCEPT ![s] = "unlockfull"]
    BY <1>11 DEF Create
  <2>2. NotYetStored'
    BY <1>1, <2>1 DEF CapInv, NotYetStored, TypeOK
  <2>3. HolderInWindow'
    BY <1>1, <2>1 DEF CapInv, HolderInWindow, InWindow, TypeOK
  <2>4. CASE ~excused
    <3>1. Guarded /\ pc[s] = "createlocked" /\ lock = s
      BY <2>1, <2>4 DEF CapInv, Guarded, NoneFellOpen, HolderInWindow, InWindow
    <3>2. Live' \subseteq Live \cup {s}
      BY <2>1 DEF Live
    <3>3. Cardinality(Live \cup {s}) <= Cap /\ IsFiniteSet(Live \cup {s})
          /\ Cardinality(Live \cup {s}) \in Nat
      <4>1. IsFiniteSet(Live) /\ Cardinality(Live) \in Nat
        BY <1>1, LiveCounts
      <4>2. Cardinality(Live \cup {s}) <= Cardinality(Live) + 1
        <5>1. CASE s \in Live
          <6>1. Cardinality(Live \cup {s}) = Cardinality(Live)
            BY <4>1, <5>1, FS_AddElement
          <6> QED
            BY <4>1, <6>1
        <5>2. CASE s \notin Live
          <6>1. Cardinality(Live \cup {s}) = Cardinality(Live) + 1
            BY <4>1, <5>2, FS_AddElement
          <6> QED
            BY <4>1, <6>1
        <5> QED
          BY <5>1, <5>2
      <4>3. Cardinality(Live) < Cap
        BY <3>1 DEF Guarded, RoomKept
      <4> QED
        BY <4>1, <4>2, <4>3, FS_AddElement, FS_CardinalityType
    <3>4. Cardinality(Live)' <= Cap
      BY <3>2, <3>3, FS_Subset, FS_CardinalityType
    <3>5. NoneFellOpen'
      BY <1>1, <2>1, <3>1 DEF Guarded, NoneFellOpen, TypeOK
    <3>6. \A q \in Start : pc'[q] # "createlocked"
      <4> SUFFICES ASSUME NEW q \in Start, pc'[q] = "createlocked" PROVE FALSE
        OBVIOUS
      <4>1. q # s /\ pc[q] = "createlocked"
        BY <1>1, <2>1 DEF TypeOK
      <4>2. lock = q
        BY <3>1, <4>1 DEF CapInv, HolderInWindow, InWindow, Guarded, NoneFellOpen
      <4> QED
        BY <3>1, <4>1, <4>2
    <3> QED
      BY <2>2, <2>3, <3>4, <3>5, <3>6 DEF Guarded, RoomKept
  <2> QED
    BY <2>1, <2>2, <2>3, <2>4
<1>12. ASSUME NEW s \in Start, Unlock(s)
       PROVE  NotYetStored' /\ HolderInWindow' /\ (excused \/ Guarded)'
  <2>1. /\ UNCHANGED <<sess, stale, lapsed, excused>>
        /\ InWindow(s) /\ pc[s] \in {"unlock", "unlockfull"}
        /\ \/ pc' = [pc EXCEPT ![s] = "dispatch"] \/ pc' = [pc EXCEPT ![s] = "refused"]
        /\ lock' = Free \/ lock' = lock
    BY <1>12 DEF Unlock, InWindow
  <2>2. NotYetStored'
    BY <1>1, <2>1 DEF CapInv, NotYetStored, TypeOK
  <2>3. HolderInWindow'
    BY <1>1, <2>1 DEF CapInv, HolderInWindow, InWindow, TypeOK
  <2>4. (excused \/ Guarded)'
    BY <1>1, <2>1 DEF CapInv, Guarded, RoomKept, NoneFellOpen, Live, TypeOK
  <2> QED
    BY <2>2, <2>3, <2>4
<1>13. CASE LockExpires
  <2>1. NotYetStored'
    BY <1>13 DEF LockExpires, CapInv, NotYetStored
  <2>2. CASE InWindow(lock)
    <3>1. excused' /\ lapsed' # {}
      BY <1>13, <2>2 DEF LockExpires
    <3> QED
      BY <2>1, <3>1 DEF HolderInWindow
  <2>3. CASE ~InWindow(lock)
    <3>1. UNCHANGED <<sess, stale, pc, lapsed>> /\ (excused' <=> excused)
      BY <1>13, <2>3 DEF LockExpires
    <3>2. HolderInWindow'
      BY <2>3, <3>1 DEF CapInv, HolderInWindow, InWindow
    <3>3. (excused \/ Guarded)'
      BY <3>1 DEF CapInv, Guarded, RoomKept, NoneFellOpen, Live
    <3> QED
      BY <2>1, <3>2, <3>3
  <2> QED
    BY <2>2, <2>3
<1>14. ASSUME NEW s \in Start, Resumes(s)
       PROVE  NotYetStored' /\ HolderInWindow' /\ (excused \/ Guarded)'
  BY <1>14 DEF Resumes, CapInv, NotYetStored, HolderInWindow, InWindow
<1>15. CASE UNCHANGED vars
  BY <1>2, <1>15 DEF vars, Live
<1> QED
  BY <1>3, <1>4, <1>5, <1>6, <1>7, <1>8, <1>9, <1>10, <1>11, <1>12, <1>13, <1>14, <1>15
     DEF Next, Call

\* The invariant holds at the start.
LEMMA CapInit == Init => CapInv
<1> SUFFICES ASSUME Init PROVE CapInv
  OBVIOUS
<1>1. TypeOK
  BY DEF Init, TypeOK
<1>2. Live = {} /\ Cardinality(Live) = 0
  BY FS_EmptySet DEF Init, Live
<1>3. NotYetStored /\ HolderInWindow
  BY DEF Init, NotYetStored, HolderInWindow, InWindow
<1>4. Guarded
  BY <1>2 DEF Init, Guarded, RoomKept, NoneFellOpen
<1> QED
  BY <1>1, <1>3, <1>4 DEF CapInv

\* However many Starts of a user overlap, and whoever disconnects, the live sessions
\* stay within the cap until a call falls open, a lock lapses under its holder or a
\* viewer resumes: CreateWithUserCap, for every number of calls and every cap.
THEOREM CapHolds == Spec => []UserCapInv
<1>1. CapInv => UserCapInv
  BY DEF CapInv, UserCapInv, CapRespected, Guarded
<1> QED
  BY <1>1, CapInit, CapStep, PTL DEF Spec

\* CreateWithUserCap: "only one writer occupies the (count->decide->write) window at
\* a time".  True of calls that took the lock for as long as no lock has lapsed,
\* whatever else failed, with calls that fell open running beside them.
WindowExclusive ==
    lapsed = {} => \A s, q \in Start : InWindow(s) /\ InWindow(q) => s = q

\* The count, the decision and the write of two calls that hold the cap lock never
\* interleave while no lock lapses.
THEOREM OneWriterUnderLock == Spec => []WindowExclusive
<1>1. CapInv => WindowExclusive
  BY DEF CapInv, HolderInWindow, WindowExclusive
<1> QED
  BY <1>1, CapInit, CapStep, PTL DEF Spec
=============================================================================
