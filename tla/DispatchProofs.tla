---------------------------- MODULE DispatchProofs ----------------------------
(***************************************************************************)
(* A worker's slots and the dispatch counters, for any number of jobs,     *)
(* reservations and workers, any caps and every combination of faults.     *)
(***************************************************************************)
EXTENDS Dispatch, FiniteSetTheorems, TLAPS

USE DispatchAssumption

-----------------------------------------------------------------------------
(* The inductive invariant.                                                *)

\* The types, with no claim yet that activeSessions does not go below zero:
\* that is a consequence of its being exact.
Types ==
    /\ st \in [Job -> {"new", "routed", "counted", "queued", "popped", "running",
                       "done", "refused", "lost"}]
    /\ to \in [Job -> Worker \cup {NoWorker}]
    /\ cnt \in [Worker -> Int]
    /\ reg \in [Worker -> [up : BOOLEAN, active : Nat, max : Nat]]
    /\ active \in [Worker -> Int]
    /\ max \in [Worker -> Nat \ {0}]
    /\ loop \in [Worker -> {"check", "pop", "add", "decr", "del", "run", "down"}]
    /\ cur \in [Worker -> Job \cup {NoJob}]
    /\ rsv \in [Rsv -> [st : {"new", "read", "held", "done"}, read : Nat]]
    /\ leak \in [Worker -> Nat]
    /\ mishaps \in 0..MaxMishaps

\* A loop has a job in its hands exactly between BLPOP and the goroutine.
HandsMatchLoop ==
    \A w \in Worker : cur[w] = NoJob <=> loop[w] \in {"check", "pop", "down"}

\* A popped job is in one worker's hands, and in no other place.
HandsHoldPopped == \A w \in Worker : cur[w] # NoJob => st[cur[w]] = "popped"
HandsDiffer == \A w, v \in Worker : cur[w] = cur[v] /\ cur[w] # NoJob => w = v

\* A running job knows its worker.
RunningHasWorker == \A j \in Job : st[j] = "running" => to[j] \in Worker

Hands == HandsMatchLoop /\ HandsHoldPopped /\ HandsDiffer /\ RunningHasWorker

-----------------------------------------------------------------------------
(* Counting.                                                               *)

\* Counting one element more,
LEMMA OneMore ==
    ASSUME NEW S, IsFiniteSet(S), NEW x, x \notin S
    PROVE  Cardinality(S \cup {x}) = Cardinality(S) + 1
  BY FS_AddElement

\* and one less.
LEMMA OneLess ==
    ASSUME NEW S, IsFiniteSet(S), NEW x, x \in S
    PROVE  Cardinality(S \ {x}) = Cardinality(S) - 1
  BY FS_RemoveElement

\* What a worker's counters count is finite.
LEMMA Sizes ==
    ASSUME NEW w \in Worker
    PROVE  /\ IsFiniteSet(Occupants(w)) /\ Cardinality(Occupants(w)) \in Nat
           /\ IsFiniteSet(Held(w)) /\ Cardinality(Held(w)) \in Nat
           /\ IsFiniteSet(InFlight(w)) /\ Cardinality(InFlight(w)) \in Nat
<1>1. Occupants(w) \subseteq Job /\ InFlight(w) \subseteq Job /\ Held(w) \subseteq Rsv
  BY DEF Occupants, InFlight, Held
<1> QED
  BY <1>1, FS_Subset, FS_CardinalityType

-----------------------------------------------------------------------------
(* Who has which job.                                                      *)

\* No step gives one job to two loops, or lets a loop lose the one it popped.
LEMMA HandsStep == TypeOK /\ Hands /\ [Next]_vars => Types' /\ Hands'
<1> SUFFICES ASSUME TypeOK, Hands, [Next]_vars PROVE Types' /\ Hands'
  OBVIOUS
<1> USE DEF Types, TypeOK, Hands, HandsMatchLoop, HandsHoldPopped, HandsDiffer,
            RunningHasWorker, Mishap, LoopAt
\* A step of DispatchJob touches one job, which is in nobody's hands.
<1>1. ASSUME NEW j \in Job, NEW next \in {"routed", "counted", "queued", "refused"},
             st[j] \in {"new", "routed", "counted"},
             st' = [st EXCEPT ![j] = next],
             to' \in [Job -> Worker \cup {NoWorker}],
             \A i \in Job : i # j => to'[i] = to[i],
             UNCHANGED <<loop, cur>>
      PROVE  Hands'
  BY <1>1
<1>2. ASSUME NEW j \in Job, Dispatching(j) PROVE Types' /\ Hands'
  <2>1. CASE Route(j)
    <3>1. /\ st[j] = "new" /\ st' = [st EXCEPT ![j] = "routed"]
          /\ to' \in [Job -> Worker \cup {NoWorker}]
          /\ \A i \in Job : i # j => to'[i] = to[i]
          /\ mishaps' \in 0..MaxMishaps
          /\ UNCHANGED <<cnt, reg, active, max, loop, cur, rsv, leak>>
      BY <2>1 DEF Route, selectWorker, Registered
    <3>2. Types'
      BY <3>1
    <3> QED
      BY <1>1, <3>1, <3>2
  <2>2. CASE Count(j)
    <3>1. Types'
      BY <2>2 DEF Count
    <3> QED
      BY <1>1, <2>2, <3>1 DEF Count
  <2>3. CASE CountFails(j)
    <3>1. Types'
      BY <2>3 DEF CountFails
    <3> QED
      BY <1>1, <2>3, <3>1 DEF CountFails
  <2>4. CASE Push(j)
    <3>1. Types'
      BY <2>4 DEF Push
    <3> QED
      BY <1>1, <2>4, <3>1 DEF Push
  <2>5. CASE PushFails(j)
    <3>1. Types'
      BY <2>5 DEF PushFails
    <3> QED
      BY <1>1, <2>5, <3>1 DEF PushFails
  <2> QED
    BY <1>2, <2>1, <2>2, <2>3, <2>4, <2>5 DEF Dispatching
<1>3. ASSUME NEW j \in Job, EndJob(j) PROVE Types' /\ Hands'
  BY <1>3 DEF EndJob
<1>4. ASSUME NEW v \in Rsv, Reservation(v) PROVE Types' /\ Hands'
  <2>1. UNCHANGED <<st, to, loop, cur>>
    BY <1>4 DEF Reservation, ReserveRead, ReserveSwap, ReserveRelease
  <2>2. Hands'
    BY <2>1
  <2>3. CASE ReserveRead(v)
    BY <2>2, <2>3 DEF ReserveRead
  <2>4. CASE ReserveSwap(v)
    <3>1. PICK next \in {"held", "new"} : rsv' = [rsv EXCEPT ![v].st = next]
      BY <2>4 DEF ReserveSwap
    <3>2. rsv' \in [Rsv -> [st : {"new", "read", "held", "done"}, read : Nat]]
      BY <3>1
    <3>3. active' \in [Worker -> Int]
      BY <2>4 DEF ReserveSwap
    <3> QED
      BY <2>2, <2>4, <3>2, <3>3 DEF ReserveSwap
  <2>5. CASE ReserveRelease(v)
    <3>1. rsv' = [rsv EXCEPT ![v].st = "done"]
      BY <2>5 DEF ReserveRelease
    <3>2. rsv' \in [Rsv -> [st : {"new", "read", "held", "done"}, read : Nat]]
      BY <3>1
    <3>3. active' \in [Worker -> Int]
      BY <2>5 DEF ReserveRelease
    <3> QED
      BY <2>2, <2>5, <3>2, <3>3 DEF ReserveRelease
  <2> QED
    BY <1>4, <2>3, <2>4, <2>5 DEF Reservation
<1>5. ASSUME NEW w \in Worker, CheckSlot(w) \/ DequeueTimeout(w) PROVE Types' /\ Hands'
  <2>1. CASE CheckSlot(w)
    BY <2>1 DEF CheckSlot
  <2>2. CASE DequeueTimeout(w)
    BY <2>2 DEF DequeueTimeout
  <2> QED
    BY <1>5, <2>1, <2>2
<1>6. ASSUME NEW w \in Worker, Dequeue(w) PROVE Types' /\ Hands'
  BY <1>6 DEF Dequeue, Queue
<1>7. ASSUME NEW w \in Worker, AddActive(w) PROVE Types' /\ Hands'
  BY <1>7 DEF AddActive
<1>8. ASSUME NEW w \in Worker, AckDecr(w) PROVE Types' /\ Hands'
  <2>1. PICK next \in {"del", "run"} : loop' = [loop EXCEPT ![w] = next]
    BY <1>8 DEF AckDecr
  <2>2. Types'
    BY <1>8, <2>1 DEF AckDecr
  <2>3. Hands'
    BY <1>8, <2>1 DEF AckDecr
  <2> QED
    BY <2>2, <2>3
<1>9. ASSUME NEW w \in Worker, AckDel(w) PROVE Types' /\ Hands'
  BY <1>9 DEF AckDel
<1>10. ASSUME NEW w \in Worker, RunJob(w) PROVE Types' /\ Hands'
  BY <1>10 DEF RunJob
<1>11. ASSUME NEW w \in Worker, Start(w) PROVE Types' /\ Hands'
  BY <1>11 DEF Start
<1>12. ASSUME NEW w \in Worker, Heartbeat(w) PROVE Types' /\ Hands'
  BY <1>12 DEF Heartbeat
<1>13. ASSUME NEW w \in Worker, Unregister(w) PROVE Types' /\ Hands'
  BY <1>13 DEF Unregister
<1>14. ASSUME NEW w \in Worker, CounterExpires(w) PROVE Types' /\ Hands'
  BY <1>14 DEF CounterExpires
<1>15. ASSUME NEW w \in Worker, Crash(w) PROVE Types' /\ Hands'
  BY <1>15 DEF Crash
<1>18. ASSUME NEW w \in Worker, DequeueFails(w) PROVE Types' /\ Hands'
  <2>1. /\ loop[w] = "pop" /\ loop' = [loop EXCEPT ![w] = "check"]
        /\ mishaps' \in 0..MaxMishaps
        /\ UNCHANGED <<to, cnt, reg, active, max, cur, rsv>>
    BY <1>18 DEF DequeueFails
  <2>2. CASE UNCHANGED <<st, leak>>
    BY <2>1, <2>2
  <2>3. CASE \E j \in Queue(w) :
                /\ st' = [st EXCEPT ![j] = "lost"]
                /\ leak' = [leak EXCEPT ![w] = IF to[j] = w THEN @ + 1 ELSE @]
    <3>1. PICK j \in Job :
             /\ st[j] = "queued" /\ st' = [st EXCEPT ![j] = "lost"]
             /\ leak' = [leak EXCEPT ![w] = IF to[j] = w THEN @ + 1 ELSE @]
      BY <2>3 DEF Queue
    <3>2. Types'
      BY <2>1, <3>1
    <3> QED
      BY <2>1, <3>1, <3>2
  <2> QED
    BY <1>18, <2>2, <2>3 DEF DequeueFails
<1>19. ASSUME NEW w \in Worker, AckFails(w) PROVE Types' /\ Hands'
  <2>1. /\ loop[w] \in {"decr", "del"} /\ loop' = [loop EXCEPT ![w] = "run"]
        /\ mishaps' \in 0..MaxMishaps
        /\ UNCHANGED <<st, to, reg, active, max, cur, rsv>>
    BY <1>19 DEF AckFails
  <2>2. cnt' \in [Worker -> Int]
    BY <1>19 DEF AckFails
  <2>3. leak' \in [Worker -> Nat]
    BY <1>19 DEF AckFails
  <2>4. Hands'
    BY <2>1
  <2>5. loop' \in [Worker -> {"check", "pop", "add", "decr", "del", "run", "down"}]
    BY <2>1
  <2> HIDE DEF Hands
  <2>6. Types'
    BY <2>1, <2>2, <2>3, <2>5
  <2> QED
    BY <2>4, <2>6
<1>16. CASE SetMaxSessions
  BY <1>16 DEF SetMaxSessions
<1>17. CASE UNCHANGED vars
  BY <1>17 DEF vars
<1> QED
  BY <1>2, <1>3, <1>4, <1>5, <1>6, <1>7, <1>8, <1>9, <1>10, <1>11, <1>12, <1>13,
     <1>14, <1>15, <1>16, <1>17, <1>18, <1>19 DEF Next, JobLoop

-----------------------------------------------------------------------------
(* activeSessions.                                                         *)

\* A step that gives no slot and takes none.
LEMMA SameSlots ==
    ASSUME ActiveIsExact, active' = active,
           \A w \in Worker : Occupants(w)' = Occupants(w) /\ Held(w)' = Held(w)
    PROVE  ActiveIsExact'
  BY DEF ActiveIsExact

\* Every step keeps activeSessions equal to the slots in use.
LEMMA ExactStep ==
    ASSUME TypeOK, Hands, ActiveIsExact, [Next]_vars
    PROVE  ActiveIsExact'
<1> USE DEF TypeOK, Hands, HandsMatchLoop, HandsHoldPopped, HandsDiffer, RunningHasWorker
<1>1. UNCHANGED rsv => \A w \in Worker : Held(w)' = Held(w)
  BY DEF Held
<1>2. UNCHANGED <<st, to, loop, cur>> => \A w \in Worker : Occupants(w)' = Occupants(w)
  BY DEF Occupants
<1>3. ASSUME NEW j \in Job, Dispatching(j) PROVE ActiveIsExact'
  <2>1. /\ UNCHANGED <<active, rsv, loop, cur>>
        /\ \A i \in Job : (st'[i] = "running") <=> (st[i] = "running")
        /\ \A i \in Job : st[i] = "running" => to'[i] = to[i]
    BY <1>3 DEF Dispatching, Route, Count, CountFails, Push, PushFails
  <2>2. \A w \in Worker : Occupants(w)' = Occupants(w)
    BY <2>1 DEF Occupants
  <2> QED
    BY <1>1, <2>1, <2>2, SameSlots
<1>4. ASSUME NEW j \in Job, EndJob(j) PROVE ActiveIsExact'
  <2>1. to[j] \in Worker /\ j \in Occupants(to[j])
    BY <1>4 DEF EndJob, Occupants
  <2>2. Occupants(to[j])' = Occupants(to[j]) \ {j}
    BY <1>4, <2>1 DEF EndJob, Occupants
  <2>3. \A w \in Worker : w # to[j] => Occupants(w)' = Occupants(w)
    BY <1>4 DEF EndJob, Occupants
  <2>4. Cardinality(Occupants(to[j])') = Cardinality(Occupants(to[j])) - 1
    BY <2>1, <2>2, Sizes, OneLess
  <2>5. \A w \in Worker : Held(w)' = Held(w)
    BY <1>1, <1>4 DEF EndJob
  <2>6. ASSUME NEW w \in Worker
        PROVE  active'[w] = Cardinality(Occupants(w)') + Cardinality(Held(w)')
    <3>1. CASE w = to[j]
      BY <1>4, <2>4, <2>5, <3>1, Sizes DEF EndJob, ActiveIsExact
    <3>2. CASE w # to[j]
      BY <1>4, <2>3, <2>5, <3>2 DEF EndJob, ActiveIsExact
    <3> QED
      BY <3>1, <3>2
  <2> QED
    BY <2>6 DEF ActiveIsExact
<1>5. ASSUME NEW v \in Rsv, ReserveRead(v) PROVE ActiveIsExact'
  <2>1. \A w \in Worker : Held(w)' = Held(w)
    BY <1>5 DEF ReserveRead, Held
  <2> QED
    BY <1>2, <1>5, <2>1, SameSlots DEF ReserveRead
\* A reservation that was granted, and one that is given back.
<1>6. ASSUME NEW v \in Rsv, ReserveSwap(v) PROVE ActiveIsExact'
  <2>1. \A w \in Worker : Occupants(w)' = Occupants(w)
    BY <1>2, <1>6 DEF ReserveSwap
  <2>2. \A w \in Worker : w # Embedded => Held(w)' = Held(w)
    BY <1>6 DEF ReserveSwap, Held
  <2>3. CASE active[Embedded] = rsv[v].read
    <3>1. /\ active' = [active EXCEPT ![Embedded] = @ + 1]
          /\ rsv' = [rsv EXCEPT ![v].st = "held"]
          /\ rsv[v].st = "read"
      BY <1>6, <2>3 DEF ReserveSwap
    <3>2. Held(Embedded)' = Held(Embedded) \cup {v} /\ v \notin Held(Embedded)
      BY <3>1 DEF Held
    <3>3. Cardinality(Held(Embedded)') = Cardinality(Held(Embedded)) + 1
      BY <3>2, Sizes, OneMore
    <3>4. ASSUME NEW w \in Worker
          PROVE  active'[w] = Cardinality(Occupants(w)') + Cardinality(Held(w)')
      <4>1. CASE w = Embedded
        BY <2>1, <3>1, <3>3, <4>1, Sizes DEF ActiveIsExact
      <4>2. CASE w # Embedded
        BY <2>1, <2>2, <3>1, <4>2 DEF ActiveIsExact
      <4> QED
        BY <4>1, <4>2
    <3> QED
      BY <3>4 DEF ActiveIsExact
  <2>4. CASE active[Embedded] # rsv[v].read
    <3>1. rsv[v].st = "read" /\ rsv' = [rsv EXCEPT ![v].st = "new"]
      BY <1>6, <2>4 DEF ReserveSwap
    <3>2. \A u \in Rsv : rsv'[u].st = "held" <=> rsv[u].st = "held"
      BY <3>1
    <3>3. \A w \in Worker : Held(w)' = Held(w)
      BY <3>2 DEF Held
    <3> QED
      BY <1>6, <2>1, <2>4, <3>3, SameSlots DEF ReserveSwap
  <2> QED
    BY <2>3, <2>4
<1>7. ASSUME NEW v \in Rsv, ReserveRelease(v) PROVE ActiveIsExact'
  <2>1. \A w \in Worker : Occupants(w)' = Occupants(w)
    BY <1>2, <1>7 DEF ReserveRelease
  <2>2. \A w \in Worker : w # Embedded => Held(w)' = Held(w)
    BY <1>7 DEF ReserveRelease, Held
  <2>3. Held(Embedded)' = Held(Embedded) \ {v} /\ v \in Held(Embedded)
    BY <1>7 DEF ReserveRelease, Held
  <2>4. Cardinality(Held(Embedded)') = Cardinality(Held(Embedded)) - 1
    BY <2>3, Sizes, OneLess
  <2>5. ASSUME NEW w \in Worker
        PROVE  active'[w] = Cardinality(Occupants(w)') + Cardinality(Held(w)')
    <3>1. CASE w = Embedded
      BY <1>7, <2>1, <2>4, <3>1, Sizes DEF ReserveRelease, ActiveIsExact
    <3>2. CASE w # Embedded
      BY <1>7, <2>1, <2>2, <3>2 DEF ReserveRelease, ActiveIsExact
    <3> QED
      BY <3>1, <3>2
  <2> QED
    BY <2>5 DEF ActiveIsExact
<1> USE DEF LoopAt
<1>8. ASSUME NEW w \in Worker,
             \/ CheckSlot(w) \/ DequeueTimeout(w) \/ AckDecr(w) \/ AckDel(w)
             \/ AckFails(w) \/ Start(w)
      PROVE  ActiveIsExact'
  <2>1. /\ UNCHANGED <<st, to, cur, active, rsv>>
        /\ \A u \in Worker : loop'[u] \in {"decr", "del", "run"} <=>
                             loop[u] \in {"decr", "del", "run"}
    BY <1>8 DEF CheckSlot, DequeueTimeout, AckDecr, AckDel, AckFails, Start
  <2>2. \A u \in Worker : Occupants(u)' = Occupants(u)
    BY <2>1 DEF Occupants
  <2> QED
    BY <1>1, <2>1, <2>2, SameSlots
<1>9. ASSUME NEW w \in Worker, Dequeue(w) PROVE ActiveIsExact'
  <2>1. \A u \in Worker : Occupants(u)' = Occupants(u)
    BY <1>9 DEF Dequeue, Queue, Occupants
  <2> QED
    BY <1>1, <1>9, <2>1, SameSlots DEF Dequeue
<1>16. ASSUME NEW w \in Worker, DequeueFails(w) PROVE ActiveIsExact'
  <2>1. /\ UNCHANGED <<to, cur, active, rsv>>
        /\ loop[w] = "pop" /\ loop' = [loop EXCEPT ![w] = "check"]
        /\ \A j \in Job : st'[j] = "running" <=> st[j] = "running"
    BY <1>16 DEF DequeueFails, Queue
  <2>2. \A u \in Worker : Occupants(u)' = Occupants(u)
    BY <2>1 DEF Occupants
  <2> QED
    BY <1>1, <2>1, <2>2, SameSlots
<1>10. ASSUME NEW w \in Worker, AddActive(w) PROVE ActiveIsExact'
  <2>1. cur[w] \in Job /\ cur[w] \notin Occupants(w)
    <3>1. loop[w] = "add"
      BY <1>10 DEF AddActive
    <3>2. cur[w] # NoJob
      BY <3>1
    <3>3. cur[w] \in Job /\ st[cur[w]] = "popped"
      BY <3>2
    <3> QED
      BY <3>1, <3>3 DEF Occupants
  <2>2. Occupants(w)' = Occupants(w) \cup {cur[w]}
    BY <1>10, <2>1 DEF AddActive, Occupants
  <2>3. \A u \in Worker : u # w => Occupants(u)' = Occupants(u)
    BY <1>10 DEF AddActive, Occupants
  <2>4. Cardinality(Occupants(w)') = Cardinality(Occupants(w)) + 1
    BY <2>1, <2>2, Sizes, OneMore
  <2>5. \A u \in Worker : Held(u)' = Held(u)
    BY <1>1, <1>10 DEF AddActive
  <2>6. ASSUME NEW u \in Worker
        PROVE  active'[u] = Cardinality(Occupants(u)') + Cardinality(Held(u)')
    <3>1. CASE u = w
      BY <1>10, <2>4, <2>5, <3>1, Sizes DEF AddActive, ActiveIsExact
    <3>2. CASE u # w
      BY <1>10, <2>3, <2>5, <3>2 DEF AddActive, ActiveIsExact
    <3> QED
      BY <3>1, <3>2
  <2> QED
    BY <2>6 DEF ActiveIsExact
<1>11. ASSUME NEW w \in Worker, RunJob(w) PROVE ActiveIsExact'
  <2>1. \A u \in Worker : Occupants(u)' = Occupants(u)
    BY <1>11 DEF RunJob, Occupants
  <2> QED
    BY <1>1, <1>11, <2>1, SameSlots DEF RunJob
\* Nothing is left of what a dead worker did.
<1>12. ASSUME NEW w \in Worker, Crash(w) PROVE ActiveIsExact'
  <2>1. Occupants(w)' = {} /\ Held(w)' = {}
    BY <1>12 DEF Crash, Occupants, Held
  <2>2. Cardinality(Occupants(w)') = 0 /\ Cardinality(Held(w)') = 0
    BY <2>1, FS_EmptySet
  <2>3. \A u \in Worker : u # w => Occupants(u)' = Occupants(u)
    BY <1>12 DEF Crash, Occupants
  <2>4. \A u \in Worker : Held(u)' = Held(u)
    BY <1>1, <1>12 DEF Crash
  <2>5. ASSUME NEW u \in Worker
        PROVE  active'[u] = Cardinality(Occupants(u)') + Cardinality(Held(u)')
    <3>1. CASE u = w
      BY <1>12, <2>2, <3>1 DEF Crash
    <3>2. CASE u # w
      BY <1>12, <2>3, <2>4, <3>2 DEF Crash, ActiveIsExact
    <3> QED
      BY <3>1, <3>2
  <2> QED
    BY <2>5 DEF ActiveIsExact
<1>13. ASSUME UNCHANGED <<st, to, loop, cur, active, rsv>> PROVE ActiveIsExact'
  BY <1>1, <1>2, <1>13, SameSlots
<1>14. ASSUME NEW w \in Worker, Heartbeat(w) \/ Unregister(w) \/ CounterExpires(w)
       PROVE  ActiveIsExact'
  BY <1>13, <1>14 DEF Heartbeat, Unregister, CounterExpires
<1>15. CASE SetMaxSessions \/ UNCHANGED vars
  BY <1>13, <1>15 DEF SetMaxSessions, vars
<1> QED
  BY <1>3, <1>4, <1>5, <1>6, <1>7, <1>8, <1>9, <1>10, <1>11, <1>12, <1>14, <1>15,
     <1>16 DEF Next, Reservation, JobLoop

SlotsInv == TypeOK /\ Hands /\ ActiveIsExact

\* With the count exact it cannot be negative, which completes the types.
LEMMA SlotsStep == SlotsInv /\ [Next]_vars => SlotsInv'
<1> SUFFICES ASSUME SlotsInv, [Next]_vars PROVE SlotsInv'
  OBVIOUS
<1>1. Types' /\ Hands' /\ ActiveIsExact'
  BY HandsStep, ExactStep DEF SlotsInv
<1>2. TypeOK'
  <2>1. \A w \in Worker : active'[w] \in Nat
    <3> SUFFICES ASSUME NEW w \in Worker PROVE active'[w] \in Nat
      OBVIOUS
    <3>1. Occupants(w)' \subseteq Job /\ Held(w)' \subseteq Rsv
      BY DEF Occupants, Held
    <3>2. Cardinality(Occupants(w)') \in Nat /\ Cardinality(Held(w)') \in Nat
      BY <3>1, FS_Subset, FS_CardinalityType
    <3> QED
      BY <1>1, <3>2 DEF ActiveIsExact
  <2>2. active' \in [Worker -> Nat]
    BY <1>1, <2>1 DEF Types
  <2> QED
    BY <1>1, <2>2 DEF Types, TypeOK
<1> QED
  BY <1>1, <1>2 DEF SlotsInv

\* A worker that popped nothing has no slot in use.
LEMMA SlotsInit == Init => SlotsInv
<1> SUFFICES ASSUME Init PROVE SlotsInv
  OBVIOUS
<1>1. TypeOK
  BY DEF Init, TypeOK
<1>2. Hands
  BY DEF Init, Hands, HandsMatchLoop, HandsHoldPopped, HandsDiffer, RunningHasWorker
<1>3. ASSUME NEW w \in Worker
      PROVE  active[w] = Cardinality(Occupants(w)) + Cardinality(Held(w))
  <2>1. Occupants(w) = {} /\ Held(w) = {}
    BY DEF Init, Occupants, Held
  <2> QED
    BY <2>1, FS_EmptySet DEF Init
<1> QED
  BY <1>1, <1>2, <1>3 DEF SlotsInv, ActiveIsExact

\* activeSessions equals the slots in use in every behaviour of the workers: on
\* every exit of runJob, every lost compare-and-swap, every crash, whatever the
\* admin sets the cap to.
THEOREM ActiveSessionsExact == Spec => [](TypeOK /\ ActiveIsExact)
<1>1. SlotsInv => TypeOK /\ ActiveIsExact
  BY DEF SlotsInv
<1> QED
  BY <1>1, SlotsInit, SlotsStep, PTL DEF Spec

-----------------------------------------------------------------------------
(* The overshoot.                                                          *)

\* The admin does not lower the cap under sessions that are running.
CapNotLowered == max[Embedded] <= max'[Embedded]

\* A loop that waits for a job has a slot, or lost it to reservations only; a
\* reservation that may still swap has read a count below the cap.
Overshoot ==
    /\ \A w \in Worker : active[w] <= max[w] + 1
    /\ \A w \in Worker : loop[w] \in {"pop", "add"} => active[w] <= max[w]
    /\ \A v \in Rsv : rsv[v].st = "read" => rsv[v].read < max[Embedded]

\* Reservations and pops race for the last slot, and pass the cap by one at most.
LEMMA OvershootStep ==
    ASSUME TypeOK, TypeOK', Overshoot, [Next]_vars, [CapNotLowered]_max
    PROVE  Overshoot'
<1> USE DEF TypeOK, Overshoot
<1>1. ASSUME UNCHANGED <<active, max, rsv>>,
             \A w \in Worker : loop'[w] \in {"pop", "add"} =>
                               loop[w] \in {"pop", "add"}
      PROVE  Overshoot'
  BY <1>1
<1>2. ASSUME NEW j \in Job, Dispatching(j) PROVE Overshoot'
  BY <1>1, <1>2 DEF Dispatching, Route, Count, CountFails, Push, PushFails
<1>3. ASSUME NEW j \in Job, EndJob(j) PROVE Overshoot'
  BY <1>3 DEF EndJob
<1>4. ASSUME NEW v \in Rsv, ReserveRead(v) PROVE Overshoot'
  BY <1>4 DEF ReserveRead
<1>5. ASSUME NEW v \in Rsv, ReserveSwap(v) PROVE Overshoot'
  <2>1. CASE active[Embedded] = rsv[v].read
    <3>1. /\ active' = [active EXCEPT ![Embedded] = @ + 1]
          /\ rsv' = [rsv EXCEPT ![v].st = "held"]
          /\ active[Embedded] < max[Embedded]
          /\ UNCHANGED <<loop, max>>
      BY <1>5, <2>1 DEF ReserveSwap
    <3>2. \A u \in Rsv : rsv'[u].st = "read" => rsv[u].st = "read" /\ rsv'[u] = rsv[u]
      BY <3>1
    <3> QED
      BY <3>1, <3>2
  <2>2. CASE active[Embedded] # rsv[v].read
    <3>1. rsv' = [rsv EXCEPT ![v].st = "new"] /\ UNCHANGED <<active, max, loop>>
      BY <1>5, <2>2 DEF ReserveSwap
    <3>2. \A u \in Rsv : rsv'[u].st = "read" => rsv[u].st = "read" /\ rsv'[u] = rsv[u]
      BY <3>1
    <3> QED
      BY <3>1, <3>2
  <2> QED
    BY <2>1, <2>2
<1>6. ASSUME NEW v \in Rsv, ReserveRelease(v) PROVE Overshoot'
  BY <1>6 DEF ReserveRelease
<1> USE DEF LoopAt
<1>7. ASSUME NEW w \in Worker, CheckSlot(w) PROVE Overshoot'
  BY <1>7 DEF CheckSlot
<1>8. ASSUME NEW w \in Worker,
             \/ Dequeue(w) \/ DequeueFails(w) \/ DequeueTimeout(w) \/ AckDecr(w)
             \/ AckDel(w) \/ AckFails(w) \/ RunJob(w) \/ Start(w) \/ Heartbeat(w)
             \/ Unregister(w) \/ CounterExpires(w)
      PROVE  Overshoot'
  BY <1>1, <1>8 DEF Dequeue, DequeueFails, DequeueTimeout, AckDecr, AckDel, AckFails,
                    RunJob, Start, Heartbeat, Unregister, CounterExpires
<1>9. ASSUME NEW w \in Worker, AddActive(w) PROVE Overshoot'
  BY <1>9 DEF AddActive
<1>10. ASSUME NEW w \in Worker, Crash(w) PROVE Overshoot'
  BY <1>10 DEF Crash
<1>11. CASE SetMaxSessions
  BY <1>11 DEF SetMaxSessions, CapNotLowered
<1>12. CASE UNCHANGED vars
  BY <1>1, <1>12 DEF vars
<1> QED
  BY <1>2, <1>3, <1>4, <1>5, <1>6, <1>7, <1>8, <1>9, <1>10, <1>11, <1>12
     DEF Next, Reservation, JobLoop

\* Slots are given back exactly once and, in every behaviour in which the cap is not
\* lowered, the sessions of a worker exceed it by at most the one job its loop was
\* waiting for: the check of jobLoop and TryReserveSlot's compare-and-swap together.
THEOREM SlotsHold == Spec /\ [][CapNotLowered]_max => []SlotsExact
<1>1. Init => SlotsInv /\ Overshoot
  <2>1. Init => Overshoot
    BY DEF Init, Overshoot
  <2> QED
    BY <2>1, SlotsInit
<1>2. SlotsInv /\ Overshoot /\ [Next]_vars /\ [CapNotLowered]_max
      => (SlotsInv /\ Overshoot)'
  BY SlotsStep, OvershootStep DEF SlotsInv
<1>3. SlotsInv /\ Overshoot => SlotsExact
  BY DEF SlotsInv, Overshoot, SlotsExact, SlotsBounded
<1> QED
  BY <1>1, <1>2, <1>3, PTL DEF Spec

-----------------------------------------------------------------------------
(* The dispatch counter.                                                   *)

\* A step that counts no job and puts none in flight.
LEMMA Covered ==
    ASSUME NoPhantomJobs, TypeOK,
           UNCHANGED <<cnt, leak>>,
           \A w \in Worker : InFlight(w)' = InFlight(w)
    PROVE  NoPhantomJobs'
  BY DEF NoPhantomJobs

\* A count goes up before its job is in flight and down after it left, or is leaked.
LEMMA PhantomStep ==
    ASSUME TypeOK, TypeOK', Hands, NoPhantomJobs, [Next]_vars
    PROVE  NoPhantomJobs'
<1> USE DEF TypeOK, Hands, HandsMatchLoop, HandsHoldPopped, HandsDiffer
\* One more job counted for a worker, at most.
<1>1. ASSUME NEW j \in Job, st[j] = "routed", st' = [st EXCEPT ![j] = "counted"],
             UNCHANGED <<to, cur, loop, leak>>,
             \A w \in Worker : w = to[j] => cnt'[w] <= cnt[w] + 1,
             \A w \in Worker : w # to[j] => cnt'[w] = cnt[w]
      PROVE  NoPhantomJobs'
  <2> SUFFICES ASSUME NEW w \in Worker
               PROVE  cnt'[w] <= Cardinality(InFlight(w)') + leak'[w]
    BY DEF NoPhantomJobs
  <2>1. cnt[w] <= Cardinality(InFlight(w)) + leak[w] /\ Cardinality(InFlight(w)) \in Nat
    BY Sizes DEF NoPhantomJobs
  <2>2. CASE w = to[j]
    <3>1. j \notin InFlight(w) /\ InFlight(w)' = InFlight(w) \cup {j}
      <4>1. j \notin InFlight(w)
        BY <1>1 DEF InFlight
      <4>2. /\ st[j] = "routed" /\ st' = [st EXCEPT ![j] = "counted"]
            /\ UNCHANGED <<to, cur, loop>>
        BY <1>1
      <4>3. \A i \in Job : i \in InFlight(w)' <=> i \in InFlight(w) \/ i = j
        BY <2>2, <4>2 DEF InFlight
      <4> QED
        BY <4>1, <4>3 DEF InFlight
    <3>2. Cardinality(InFlight(w)') = Cardinality(InFlight(w)) + 1
      BY <3>1, Sizes, OneMore
    <3> QED
      BY <1>1, <2>1, <2>2, <3>2
  <2>3. CASE w # to[j]
    <3>1. InFlight(w)' = InFlight(w)
      BY <1>1, <2>3 DEF InFlight
    <3> QED
      BY <1>1, <2>1, <2>3, <3>1
  <2> QED
    BY <2>2, <2>3
<1>2. ASSUME NEW j \in Job, Route(j) PROVE NoPhantomJobs'
  <2>1. /\ UNCHANGED <<cnt, leak, cur, loop>>
        /\ st[j] = "new" /\ st' = [st EXCEPT ![j] = "routed"]
        /\ \A i \in Job : i # j => to'[i] = to[i]
    BY <1>2 DEF Route
  <2>2. \A w \in Worker : InFlight(w)' = InFlight(w)
    BY <2>1 DEF InFlight
  <2> QED
    BY <2>1, <2>2, Covered
<1>3. ASSUME NEW j \in Job, Count(j) PROVE NoPhantomJobs'
  <2>1. /\ st[j] = "routed" /\ st' = [st EXCEPT ![j] = "counted"]
        /\ UNCHANGED <<to, cur, loop, leak>>
        /\ \A w \in Worker : w = to[j] => cnt'[w] <= cnt[w] + 1
        /\ \A w \in Worker : w # to[j] => cnt'[w] = cnt[w]
    BY <1>3 DEF Count
  <2> QED
    BY <1>1, <2>1
<1>4. ASSUME NEW j \in Job, CountFails(j) PROVE NoPhantomJobs'
  <2>1. /\ st[j] = "routed" /\ st' = [st EXCEPT ![j] = "counted"]
        /\ UNCHANGED <<to, cur, loop, leak>>
        /\ \A w \in Worker : cnt'[w] <= cnt[w] + 1 /\ cnt'[w] = cnt[w]
    BY <1>4 DEF CountFails
  <2> QED
    BY <1>1, <2>1
<1>5. ASSUME NEW j \in Job, Push(j) PROVE NoPhantomJobs'
  <2>1. \A w \in Worker : InFlight(w)' = InFlight(w)
    BY <1>5 DEF Push, InFlight
  <2> QED
    BY <1>5, <2>1, Covered DEF Push
\* The job of a failed push becomes a leak.
<1>6. ASSUME NEW j \in Job, PushFails(j) PROVE NoPhantomJobs'
  <2> SUFFICES ASSUME NEW w \in Worker
               PROVE  cnt'[w] <= Cardinality(InFlight(w)') + leak'[w]
    BY DEF NoPhantomJobs
  <2>1. cnt[w] <= Cardinality(InFlight(w)) + leak[w] /\ Cardinality(InFlight(w)) \in Nat
    BY Sizes DEF NoPhantomJobs
  <2>2. CASE w = to[j]
    <3>1. j \in InFlight(w) /\ InFlight(w)' = InFlight(w) \ {j}
      BY <1>6, <2>2 DEF PushFails, InFlight
    <3>2. Cardinality(InFlight(w)') = Cardinality(InFlight(w)) - 1
      BY <3>1, Sizes, OneLess
    <3>3. cnt'[w] = cnt[w] /\ leak'[w] = leak[w] + 1
      BY <1>6, <2>2 DEF PushFails
    <3> QED
      BY <2>1, <3>2, <3>3
  <2>3. CASE w # to[j]
    <3>1. InFlight(w)' = InFlight(w)
      BY <1>6, <2>3 DEF PushFails, InFlight
    <3> QED
      BY <1>6, <2>1, <2>3, <3>1 DEF PushFails
  <2> QED
    BY <2>2, <2>3
<1> USE DEF LoopAt
<1>7. ASSUME NEW w \in Worker, Dequeue(w) PROVE NoPhantomJobs'
  <2>1. PICK j \in Job : /\ st[j] = "queued" /\ to[j] \in {w, NoWorker}
                         /\ st' = [st EXCEPT ![j] = "popped"]
                         /\ cur' = [cur EXCEPT ![w] = j]
                         /\ loop[w] = "pop" /\ loop' = [loop EXCEPT ![w] = "add"]
                         /\ UNCHANGED <<to, cnt, leak>>
    BY <1>7 DEF Dequeue, Queue
  <2>2. cur[w] = NoJob /\ \A u \in Worker : cur[u] # j
    BY <2>1
  <2>3. \A u \in Worker : InFlight(u)' = InFlight(u)
    BY <2>1, <2>2 DEF InFlight
  <2> QED
    BY <2>1, <2>3, Covered
\* A job whose pop's reply was lost is a leak.
<1>19. ASSUME NEW w \in Worker, DequeueFails(w) PROVE NoPhantomJobs'
  <2>1. /\ loop[w] = "pop" /\ loop' = [loop EXCEPT ![w] = "check"]
        /\ UNCHANGED <<to, cnt, cur>> /\ cur[w] = NoJob
    BY <1>19 DEF DequeueFails
  <2>2. CASE UNCHANGED <<st, leak>>
    <3>1. \A u \in Worker : InFlight(u)' = InFlight(u)
      BY <2>1, <2>2 DEF InFlight
    <3> QED
      BY <2>1, <2>2, <3>1, Covered
  <2>3. ASSUME NEW j \in Queue(w), st' = [st EXCEPT ![j] = "lost"],
               leak' = [leak EXCEPT ![w] = IF to[j] = w THEN @ + 1 ELSE @]
        PROVE  NoPhantomJobs'
    <3>0. j \in Job /\ st[j] = "queued" /\ to[j] \in {w, NoWorker}
      BY DEF Queue
    <3>1. /\ j \in Job /\ st[j] = "queued" /\ to[j] \in {w, NoWorker}
          /\ \A u \in Worker : cur[u] # j
      <4>1. ASSUME NEW u \in Worker, cur[u] = j PROVE FALSE
        <5>1. cur[u] # NoJob
          BY <3>0, <4>1
        <5>2. st[cur[u]] = "popped"
          BY <5>1
        <5> QED
          BY <3>0, <4>1, <5>2
      <4> QED
        BY <3>0, <4>1
    <3> SUFFICES ASSUME NEW u \in Worker
                 PROVE  cnt'[u] <= Cardinality(InFlight(u)') + leak'[u]
      BY DEF NoPhantomJobs
    <3>2. cnt[u] <= Cardinality(InFlight(u)) + leak[u] /\ Cardinality(InFlight(u)) \in Nat
      BY Sizes DEF NoPhantomJobs
    <3>3. CASE u = w /\ to[j] = w
      <4>1. j \in InFlight(w) /\ InFlight(w)' = InFlight(w) \ {j}
        BY <2>1, <2>3, <3>1, <3>3 DEF InFlight
      <4>2. Cardinality(InFlight(w)') = Cardinality(InFlight(w)) - 1
        BY <4>1, Sizes, OneLess
      <4>3. cnt'[w] = cnt[w] /\ leak'[w] = leak[w] + 1
        BY <2>1, <2>3, <3>3
      <4> QED
        BY <3>2, <3>3, <4>2, <4>3
    <3>4. CASE ~(u = w /\ to[j] = w)
      <4>1. to[j] # u
        BY <3>1, <3>4
      <4>2. InFlight(u)' = InFlight(u)
        BY <2>1, <2>3, <3>1, <4>1 DEF InFlight
      <4>3. cnt'[u] = cnt[u] /\ leak'[u] = leak[u]
        BY <2>1, <2>3, <3>4
      <4> QED
        BY <3>2, <4>2, <4>3
    <3> QED
      BY <3>3, <3>4
  <2> QED
    BY <1>19, <2>2, <2>3 DEF DequeueFails
<1>8. ASSUME NEW w \in Worker,
             CheckSlot(w) \/ DequeueTimeout(w) \/ AddActive(w) \/ Start(w)
      PROVE  NoPhantomJobs'
  <2>1. /\ UNCHANGED <<st, to, cur, cnt, leak>>
        /\ \A u \in Worker : loop'[u] \in {"add", "decr"} <=> loop[u] \in {"add", "decr"}
    BY <1>8 DEF CheckSlot, DequeueTimeout, AddActive, Start
  <2>2. \A u \in Worker : InFlight(u)' = InFlight(u)
    BY <2>1 DEF InFlight
  <2> QED
    BY <2>1, <2>2, Covered
\* The acknowledged job is no longer in flight, and no longer counted or a leak.
<1>9. ASSUME NEW w \in Worker, loop[w] = "decr", loop'[w] \in {"del", "run"},
             \A u \in Worker : u # w => /\ loop'[u] = loop[u]
                                        /\ cnt'[u] = cnt[u] /\ leak'[u] = leak[u],
             UNCHANGED <<st, to, cur>>,
             \/ cnt'[w] = cnt[w] - 1 /\ leak'[w] = leak[w]
             \/ cnt'[w] = cnt[w] /\ leak'[w] = IF to[cur[w]] = w THEN leak[w] + 1
                                                                 ELSE leak[w]
      PROVE  NoPhantomJobs'
  <2> SUFFICES ASSUME NEW u \in Worker
               PROVE  cnt'[u] <= Cardinality(InFlight(u)') + leak'[u]
    BY DEF NoPhantomJobs
  <2>1. cnt[u] <= Cardinality(InFlight(u)) + leak[u] /\ Cardinality(InFlight(u)) \in Nat
    BY Sizes DEF NoPhantomJobs
  <2>2. CASE u = w
    <3>1. InFlight(w)' = InFlight(w) \ {cur[w]}
      BY <1>9 DEF InFlight
    <3>2. CASE cur[w] \in InFlight(w)
      <4>1. Cardinality(InFlight(w)') = Cardinality(InFlight(w)) - 1
        BY <3>1, <3>2, Sizes, OneLess
      <4>2. to[cur[w]] = w
        BY <1>9, <3>2 DEF InFlight
      <4> QED
        BY <1>9, <2>1, <2>2, <4>1, <4>2
    <3>3. CASE cur[w] \notin InFlight(w)
      <4>1. InFlight(w)' = InFlight(w)
        BY <3>1, <3>3
      <4> QED
        BY <1>9, <2>1, <2>2, <4>1
    <3> QED
      BY <3>2, <3>3
  <2>3. CASE u # w
    <3>1. InFlight(u)' = InFlight(u)
      BY <1>9, <2>3 DEF InFlight
    <3> QED
      BY <1>9, <2>1, <2>3, <3>1
  <2> QED
    BY <2>2, <2>3
<1>20. ASSUME NEW w \in Worker, AckDecr(w) PROVE NoPhantomJobs'
  <2>1. /\ loop[w] = "decr" /\ loop'[w] \in {"del", "run"}
        /\ \A u \in Worker : u # w => /\ loop'[u] = loop[u]
                                      /\ cnt'[u] = cnt[u] /\ leak'[u] = leak[u]
        /\ UNCHANGED <<st, to, cur>>
        /\ cnt'[w] = cnt[w] - 1 /\ leak'[w] = leak[w]
    BY <1>20 DEF AckDecr
  <2> QED
    BY <1>9, <2>1
<1>21. ASSUME NEW w \in Worker, AckFails(w) PROVE NoPhantomJobs'
  <2>1. /\ UNCHANGED <<st, to, cur>> /\ loop'[w] = "run"
        /\ \A u \in Worker : u # w => /\ loop'[u] = loop[u]
                                      /\ cnt'[u] = cnt[u] /\ leak'[u] = leak[u]
    BY <1>21 DEF AckFails
  <2>2. CASE loop[w] = "decr"
    <3>1. \/ cnt'[w] = cnt[w] - 1 /\ leak'[w] = leak[w]
          \/ cnt'[w] = cnt[w] /\ leak'[w] = IF to[cur[w]] = w THEN leak[w] + 1
                                                              ELSE leak[w]
      BY <1>21, <2>2 DEF AckFails
    <3> QED
      BY <1>9, <2>1, <2>2, <3>1
  <2>3. CASE loop[w] = "del"
    <3>1. UNCHANGED <<cnt, leak>>
      BY <1>21, <2>3 DEF AckFails
    <3>2. \A u \in Worker : InFlight(u)' = InFlight(u)
      BY <2>1, <2>3 DEF InFlight
    <3> QED
      BY <3>1, <3>2, Covered
  <2> QED
    BY <1>21, <2>2, <2>3 DEF AckFails
\* A counter that is gone claims nothing.
<1>10. ASSUME NEW w \in Worker, cnt'[w] = 0, leak'[w] = 0,
              InFlight(w)' \subseteq Job,
              \A u \in Worker : u # w => /\ InFlight(u)' = InFlight(u)
                                         /\ cnt'[u] = cnt[u] /\ leak'[u] = leak[u]
       PROVE  NoPhantomJobs'
  <2>1. Cardinality(InFlight(w)') \in Nat
    BY <1>10, FS_Subset, FS_CardinalityType
  <2>2. ASSUME NEW u \in Worker
        PROVE  cnt'[u] <= Cardinality(InFlight(u)') + leak'[u]
    <3>1. CASE u = w
      BY <1>10, <2>1, <3>1
    <3>2. CASE u # w
      <4>1. InFlight(u)' = InFlight(u) /\ cnt'[u] = cnt[u] /\ leak'[u] = leak[u]
        BY <1>10, <3>2
      <4> QED
        BY <4>1 DEF NoPhantomJobs
    <3> QED
      BY <3>1, <3>2
  <2> QED
    BY <2>2 DEF NoPhantomJobs
<1>11. ASSUME NEW w \in Worker, AckDel(w) \/ CounterExpires(w) PROVE NoPhantomJobs'
  <2>1. /\ cnt' = [cnt EXCEPT ![w] = 0] /\ leak' = [leak EXCEPT ![w] = 0]
        /\ UNCHANGED <<st, to, cur>>
        /\ \A u \in Worker : u # w => loop'[u] = loop[u]
    BY <1>11 DEF AckDel, CounterExpires
  <2>2. \A u \in Worker : u # w => InFlight(u)' = InFlight(u)
    BY <2>1 DEF InFlight
  <2>3. InFlight(w)' \subseteq Job
    BY DEF InFlight
  <2> QED
    BY <1>10, <2>1, <2>2, <2>3
<1>12. ASSUME NEW w \in Worker, RunJob(w) PROVE NoPhantomJobs'
  <2>1. loop[w] = "run" /\ cur[w] # NoJob
    BY <1>12 DEF RunJob
  <2>2. cur[w] \in Job /\ st[cur[w]] = "popped"
    BY <2>1
  <2>3. \A u \in Worker : InFlight(u)' = InFlight(u)
    BY <1>12, <2>1, <2>2 DEF RunJob, InFlight
  <2> QED
    BY <1>12, <2>3, Covered DEF RunJob
<1>13. ASSUME NEW j \in Job, EndJob(j) PROVE NoPhantomJobs'
  <2>1. \A w \in Worker : InFlight(w)' = InFlight(w)
    BY <1>13 DEF EndJob, InFlight
  <2> QED
    BY <1>13, <2>1, Covered DEF EndJob
\* A job that dies with its worker before the acknowledgement is a leak.
<1>14. ASSUME NEW w \in Worker, Crash(w) PROVE NoPhantomJobs'
  <2> SUFFICES ASSUME NEW u \in Worker
               PROVE  cnt'[u] <= Cardinality(InFlight(u)') + leak'[u]
    BY DEF NoPhantomJobs
  <2>1. cnt[u] <= Cardinality(InFlight(u)) + leak[u] /\ Cardinality(InFlight(u)) \in Nat
    BY Sizes DEF NoPhantomJobs
  <2>2. cnt'[u] = cnt[u]
    BY <1>14 DEF Crash
  <2>3. CASE u # w
    <3>1. InFlight(u)' = InFlight(u)
      BY <1>14, <2>3 DEF Crash, InFlight
    <3>2. leak'[u] = leak[u]
      BY <1>14, <2>3 DEF Crash
    <3> QED
      BY <2>1, <2>2, <3>1, <3>2
  <2>4. CASE u = w
    <3>1. InFlight(w)' = InFlight(w) \ {cur[w]}
      BY <1>14 DEF Crash, InFlight
    <3>2. CASE cur[w] \in InFlight(w)
      <4>1. Cardinality(InFlight(w)') = Cardinality(InFlight(w)) - 1
        BY <3>1, <3>2, Sizes, OneLess
      <4>2. loop[w] \in {"add", "decr"} /\ to[cur[w]] = w
        BY <3>2 DEF InFlight
      <4>3. leak'[w] = leak[w] + 1
        BY <1>14, <4>2 DEF Crash
      <4> QED
        BY <2>1, <2>2, <2>4, <4>1, <4>3
    <3>3. CASE cur[w] \notin InFlight(w)
      <4>1. InFlight(w)' = InFlight(w)
        BY <3>1, <3>3
      <4>2. leak'[w] >= leak[w]
        BY <1>14 DEF Crash
      <4> QED
        BY <2>1, <2>2, <2>4, <4>1, <4>2
    <3> QED
      BY <3>2, <3>3
  <2> QED
    BY <2>3, <2>4
<1>15. ASSUME UNCHANGED <<st, to, cur, loop, cnt, leak>> PROVE NoPhantomJobs'
  <2>1. \A w \in Worker : InFlight(w)' = InFlight(w)
    BY <1>15 DEF InFlight
  <2> QED
    BY <1>15, <2>1, Covered
<1>16. ASSUME NEW v \in Rsv, Reservation(v) PROVE NoPhantomJobs'
  BY <1>15, <1>16 DEF Reservation, ReserveRead, ReserveSwap, ReserveRelease
<1>17. ASSUME NEW w \in Worker, Heartbeat(w) \/ Unregister(w) PROVE NoPhantomJobs'
  BY <1>15, <1>17 DEF Heartbeat, Unregister
<1>18. CASE SetMaxSessions \/ UNCHANGED vars
  BY <1>15, <1>18 DEF SetMaxSessions, vars
<1> QED
  BY <1>2, <1>3, <1>4, <1>5, <1>6, <1>7, <1>8, <1>11, <1>12, <1>13, <1>14,
     <1>16, <1>17, <1>18, <1>19, <1>20, <1>21 DEF Next, Dispatching, JobLoop

\* The dispatch counter never claims a job that is not there, but for one that left
\* without its DECR (a failed push, a pop's lost reply, a dead worker, a failed DECR),
\* until the counter is deleted or expires: for any number of jobs and workers, and
\* every combination of faults.
THEOREM CounterClaimsNoPhantoms == Spec => []NoPhantomJobs
<1>1. Init => SlotsInv /\ NoPhantomJobs
  <2>1. ASSUME Init PROVE NoPhantomJobs
    <3> SUFFICES ASSUME NEW w \in Worker
                 PROVE  cnt[w] <= Cardinality(InFlight(w)) + leak[w]
      BY DEF NoPhantomJobs
    <3>1. Cardinality(InFlight(w)) \in Nat
      BY Sizes
    <3> QED
      BY <2>1, <3>1 DEF Init
  <2> QED
    BY <2>1, SlotsInit
<1>2. SlotsInv /\ NoPhantomJobs /\ [Next]_vars => (SlotsInv /\ NoPhantomJobs)'
  BY SlotsStep, PhantomStep DEF SlotsInv
<1> QED
  BY <1>1, <1>2, PTL DEF Spec
=============================================================================
