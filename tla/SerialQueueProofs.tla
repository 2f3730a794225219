------------------------- MODULE SerialQueueProofs -------------------------
(***************************************************************************)
(* The keyed queues run the tasks of a key one at a time and in order, and  *)
(* their map is exact, for any number of tasks and keys.                    *)
(*                                                                         *)
(* SerialInOrder speaks of all earlier tasks of a key, while the code only  *)
(* looks at one promise.  The inductive invariant says why that is enough:  *)
(* the map holds the latest arrival of a key, and a task is chained behind  *)
(* its immediate predecessor, or behind nothing when all are released.      *)
(***************************************************************************)
EXTENDS SerialQueue, TLAPS

\* Tickets number the arrived tasks, without repetition.
Tickets ==
  \A t \in Tasks :
    /\ Arrived(t) <=> ticket[t] # 0
    /\ ticket[t] <= arrivals
    /\ \A u \in Tasks : Arrived(t) /\ ticket[u] = ticket[t] => u = t

\* A task that waits behind no promise has no unreleased predecessor; one that
\* does waits behind the latest of its predecessors.
Chained ==
  \A t, u \in Tasks : Before(u, t) =>
    IF after[t] = NoTask THEN phase[u] = "released"
    ELSE u = after[t] \/ Before(u, after[t])

\* The map holds the latest unreleased arrival of a key, or nothing.
TailIsLatest ==
  /\ \A k \in Keys : tail[k] # NoTask =>
       KeyOf[tail[k]] = k /\ phase[tail[k]] \in {"queued", "running", "settled"}
  /\ \A t \in Tasks : Arrived(t) =>
       IF tail[KeyOf[t]] = NoTask THEN phase[t] = "released"
       ELSE ticket[t] <= ticket[tail[KeyOf[t]]]

QueueInv == TypeOK /\ Tickets /\ Chained /\ TailIsLatest /\ SerialInOrder

-----------------------------------------------------------------------------

\* An empty queue satisfies the invariant.
LEMMA InitInv == Init => QueueInv
<1>1. SUFFICES ASSUME Init PROVE QueueInv
  OBVIOUS
<1>2. TypeOK
  BY <1>1 DEF Init, TypeOK, Phases
<1>3. Tickets /\ Chained /\ TailIsLatest /\ SerialInOrder
  BY <1>1, QueueAssumption
  DEF Init, Tickets, Chained, TailIsLatest, SerialInOrder, Before, Arrived, Active
<1> QED BY <1>2, <1>3 DEF QueueInv

\* An arrival is chained behind the tail, which is the latest task of its key.
LEMMA EnqueueKeepsInv ==
  ASSUME QueueInv, NEW t \in Tasks, Enqueue(t)
  PROVE  QueueInv'
<1>1. TypeOK /\ Tickets /\ Chained /\ TailIsLatest /\ SerialInOrder
  BY DEF QueueInv
<1>2. /\ phase[t] = "new" /\ phase' = [phase EXCEPT ![t] = "queued"]
      /\ after' = [after EXCEPT ![t] = tail[KeyOf[t]]]
      /\ tail' = [tail EXCEPT ![KeyOf[t]] = t]
      /\ arrivals' = arrivals + 1 /\ threw' = threw
      /\ ticket' = [ticket EXCEPT ![t] = arrivals + 1]
  BY DEF Enqueue
<1>3. KeyOf[t] \in Keys /\ KeyOf \in [Tasks -> Keys] /\ NoTask \notin Tasks
  BY QueueAssumption
<1>4. TypeOK'
  BY <1>1, <1>2, <1>3 DEF TypeOK, Phases
<1>5. /\ \A u \in Tasks : u # t =>
           phase'[u] = phase[u] /\ ticket'[u] = ticket[u] /\ after'[u] = after[u]
      /\ phase'[t] = "queued" /\ ticket'[t] = arrivals + 1
      /\ after'[t] = tail[KeyOf[t]] /\ ticket[t] = 0
      /\ \A u \in Tasks : ticket[u] \in Nat /\ ticket[u] <= arrivals
      /\ arrivals \in Nat
  BY <1>1, <1>2, <1>3 DEF TypeOK, Tickets, Arrived
<1>6. Tickets'
  BY <1>1, <1>2, <1>5 DEF Tickets, Arrived
<1>7. Chained'
  <2>1. SUFFICES ASSUME NEW s \in Tasks, NEW u \in Tasks, Before(u, s)'
                 PROVE  IF after'[s] = NoTask THEN phase'[u] = "released"
                        ELSE u = after'[s] \/ Before(u, after[s])'
    BY DEF Chained
  <2>2. CASE s = t
    <3>1. u # t /\ Arrived(u) /\ KeyOf[u] = KeyOf[t]
      BY <2>1, <2>2, <1>5 DEF Before, Arrived
    <3>2. CASE tail[KeyOf[t]] = NoTask
      BY <3>1, <3>2, <2>2, <1>1, <1>5 DEF TailIsLatest
    <3>3. CASE tail[KeyOf[t]] # NoTask
      <4> DEFINE w == tail[KeyOf[t]]
      <4>1. w \in Tasks /\ KeyOf[w] = KeyOf[t] /\ Arrived(w) /\ w # t
        BY <3>3, <1>1, <1>2, <1>3 DEF TypeOK, TailIsLatest, Arrived
      <4>2. ticket[u] <= ticket[w]
        BY <3>1, <3>3, <1>1 DEF TailIsLatest
      <4>3. u = w \/ ticket[u] < ticket[w]
        BY <4>1, <4>2, <3>1, <1>1, <1>5 DEF Tickets
      <4> QED BY <4>1, <4>3, <3>1, <3>3, <2>2, <1>5 DEF Before, Arrived
    <3> QED BY <3>2, <3>3
  <2>3. CASE s # t
    <3>1. u # t
      BY <2>1, <2>3, <1>1, <1>5 DEF Before, Arrived
    <3>2. Before(u, s)
      BY <2>1, <2>3, <3>1, <1>5 DEF Before, Arrived
    <3>3. CASE after[s] = NoTask
      BY <3>1, <3>2, <3>3, <2>3, <1>1, <1>5 DEF Chained
    <3>4. CASE after[s] # NoTask
      <4>1. after[s] \in Tasks
        BY <3>4, <1>1 DEF TypeOK
      <4>2. u = after[s] \/ Before(u, after[s])
        BY <3>2, <3>4, <1>1 DEF Chained
      <4>3. Before(u, after[s]) => after[s] # t
        BY <1>2 DEF Before, Arrived
      <4> QED BY <4>1, <4>2, <4>3, <3>1, <3>4, <2>3, <1>5 DEF Before, Arrived
    <3> QED BY <3>3, <3>4
  <2> QED BY <2>2, <2>3
<1>8. TailIsLatest'
  <2>1. ASSUME NEW k \in Keys, tail'[k] # NoTask
        PROVE  KeyOf[tail'[k]] = k /\ phase'[tail'[k]] \in {"queued", "running", "settled"}
    <3>1. CASE k = KeyOf[t]
      BY <3>1, <1>1, <1>2, <1>5 DEF TypeOK
    <3>2. CASE k # KeyOf[t]
      BY <3>2, <2>1, <1>1, <1>2, <1>5 DEF TypeOK, TailIsLatest
    <3> QED BY <3>1, <3>2
  <2>2. ASSUME NEW u \in Tasks, Arrived(u)'
        PROVE  IF tail'[KeyOf[u]] = NoTask THEN phase'[u] = "released"
               ELSE ticket'[u] <= ticket'[tail'[KeyOf[u]]]
    <3>1. CASE KeyOf[u] = KeyOf[t]
      <4>1. tail'[KeyOf[u]] = t
        BY <3>1, <1>1, <1>2, <1>3 DEF TypeOK
      <4> QED BY <4>1, <1>3, <1>5
    <3>2. CASE KeyOf[u] # KeyOf[t]
      <4>1. u # t /\ Arrived(u) /\ tail'[KeyOf[u]] = tail[KeyOf[u]] /\ KeyOf[u] \in Keys
        BY <3>2, <2>2, <1>1, <1>2, <1>3, <1>5 DEF TypeOK, Arrived
      <4>2. tail[KeyOf[u]] # NoTask => tail[KeyOf[u]] \in Tasks /\ tail[KeyOf[u]] # t
        BY <4>1, <3>2, <1>1 DEF TypeOK, TailIsLatest
      <4> QED BY <4>1, <4>2, <1>1, <1>5 DEF TailIsLatest
    <3> QED BY <3>1, <3>2
  <2> QED BY <2>1, <2>2 DEF TailIsLatest, Arrived
<1>9. SerialInOrder'
  <2>1. SUFFICES ASSUME NEW s \in Tasks, NEW u \in Tasks,
                        (Active(s) \/ phase[s] = "released")', Before(u, s)'
                 PROVE  phase'[u] = "released"
    BY DEF SerialInOrder
  <2>2. s # t
    BY <2>1, <1>5 DEF Active
  <2>3. u # t
    BY <2>1, <2>2, <1>5 DEF Before
  <2> QED BY <2>1, <2>2, <2>3, <1>1, <1>5 DEF SerialInOrder, Before, Active, Arrived
<1> QED BY <1>4, <1>6, <1>7, <1>8, <1>9 DEF QueueInv

\* A step of an arrived task leaves the order of arrival and the chain alone.
LEMMA StepKeepsOrder ==
  ASSUME QueueInv, NEW t \in Tasks, QueueStep(t)
  PROVE  /\ UNCHANGED <<after, ticket, arrivals>>
         /\ \A u \in Tasks : u # t => phase'[u] = phase[u]
         /\ \A u \in Tasks : phase[u] = "released" => phase'[u] = "released"
         /\ \A u \in Tasks : Arrived(u)' <=> Arrived(u)
         /\ \A u, s \in Tasks : Before(u, s)' <=> Before(u, s)
         /\ Tickets' /\ Chained'
<1>1. TypeOK /\ Tickets /\ Chained
  BY DEF QueueInv
<1>2. /\ UNCHANGED <<after, ticket, arrivals>>
      /\ \A u \in Tasks : u # t => phase'[u] = phase[u]
      /\ phase[t] \in {"queued", "running", "settled"}
      /\ phase'[t] \in {"running", "settled", "released"}
  BY <1>1 DEF QueueStep, Start, Settle, Release, TypeOK
<1>3. /\ \A u \in Tasks : phase[u] = "released" => phase'[u] = "released"
      /\ \A u \in Tasks : Arrived(u)' <=> Arrived(u)
  BY <1>2 DEF Arrived
<1>4. \A u, s \in Tasks : Before(u, s)' <=> Before(u, s)
  BY <1>2, <1>3 DEF Before
<1>5. Tickets'
  BY <1>1, <1>2, <1>3 DEF Tickets
<1>6. Chained'
  <2>1. \A u, s \in Tasks : after[s] # NoTask => after[s] \in Tasks
    BY <1>1 DEF TypeOK
  <2> QED BY <2>1, <1>1, <1>2, <1>3, <1>4 DEF Chained
<1> QED BY <1>2, <1>3, <1>4, <1>5, <1>6

\* A task starts once every earlier task of its key is released.
LEMMA StartKeepsInv ==
  ASSUME QueueInv, NEW t \in Tasks, Start(t)
  PROVE  QueueInv'
<1>1. TypeOK /\ Tickets /\ Chained /\ TailIsLatest /\ SerialInOrder
  BY DEF QueueInv
<1>2. QueueStep(t)
  BY DEF QueueStep
<1>3. /\ UNCHANGED <<after, ticket, arrivals>>
      /\ \A u \in Tasks : u # t => phase'[u] = phase[u]
      /\ \A u \in Tasks : phase[u] = "released" => phase'[u] = "released"
      /\ \A u \in Tasks : Arrived(u)' <=> Arrived(u)
      /\ \A u, s \in Tasks : Before(u, s)' <=> Before(u, s)
      /\ Tickets' /\ Chained'
  BY <1>2, StepKeepsOrder
<1>4. phase[t] = "queued" /\ phase'[t] = "running" /\ tail' = tail /\ threw' = threw
  BY <1>1 DEF Start, TypeOK
<1>5. TypeOK'
  BY <1>1 DEF TypeOK, Phases, Start
<1>6. TailIsLatest'
  BY <1>1, <1>3, <1>4 DEF TailIsLatest, TypeOK
<1>7. SerialInOrder'
  <2>1. SUFFICES ASSUME NEW s \in Tasks, NEW u \in Tasks,
                        (Active(s) \/ phase[s] = "released")', Before(u, s)
                 PROVE  phase[u] = "released"
    BY <1>3 DEF SerialInOrder
  <2>2. CASE s # t
    BY <2>1, <2>2, <1>1, <1>3 DEF SerialInOrder, Active
  <2>3. CASE s = t /\ after[t] = NoTask
    BY <2>1, <2>3, <1>1 DEF Chained
  <2>4. CASE s = t /\ after[t] # NoTask
    <3>1. after[t] \in Tasks /\ phase[after[t]] = "released"
      BY <2>4, <1>1 DEF TypeOK, Start, MayStart
    <3>2. u = after[t] \/ Before(u, after[t])
      BY <2>1, <2>4, <1>1 DEF Chained
    <3> QED BY <3>1, <3>2, <1>1 DEF SerialInOrder
  <2> QED BY <2>2, <2>3, <2>4
<1> QED BY <1>3, <1>5, <1>6, <1>7 DEF QueueInv

\* A task that returns or throws keeps its place until it is released.
LEMMA SettleKeepsInv ==
  ASSUME QueueInv, NEW t \in Tasks, Settle(t)
  PROVE  QueueInv'
<1>1. TypeOK /\ TailIsLatest /\ SerialInOrder
  BY DEF QueueInv
<1>2. QueueStep(t)
  BY DEF QueueStep
<1>3. /\ UNCHANGED <<after, ticket, arrivals>>
      /\ \A u \in Tasks : u # t => phase'[u] = phase[u]
      /\ \A u \in Tasks : phase[u] = "released" => phase'[u] = "released"
      /\ \A u \in Tasks : Arrived(u)' <=> Arrived(u)
      /\ \A u, s \in Tasks : Before(u, s)' <=> Before(u, s)
      /\ Tickets' /\ Chained'
  BY <1>2, StepKeepsOrder
<1>4. phase[t] = "running" /\ phase'[t] = "settled" /\ tail' = tail
  BY <1>1 DEF Settle, TypeOK
<1>5. TypeOK'
  BY <1>1 DEF TypeOK, Phases, Settle
<1>6. TailIsLatest'
  BY <1>1, <1>3, <1>4 DEF TailIsLatest, TypeOK
<1>7. SerialInOrder'
  BY <1>1, <1>3, <1>4 DEF SerialInOrder, Active
<1> QED BY <1>3, <1>5, <1>6, <1>7 DEF QueueInv

\* A released task clears the entry only if it is the latest of its key, and
\* then every task of the key is released.
LEMMA ReleaseKeepsInv ==
  ASSUME QueueInv, NEW t \in Tasks, Release(t)
  PROVE  QueueInv'
<1>1. TypeOK /\ Tickets /\ TailIsLatest /\ SerialInOrder
  BY DEF QueueInv
<1>2. QueueStep(t)
  BY DEF QueueStep
<1>3. /\ UNCHANGED <<after, ticket, arrivals>>
      /\ \A u \in Tasks : u # t => phase'[u] = phase[u]
      /\ \A u \in Tasks : phase[u] = "released" => phase'[u] = "released"
      /\ \A u \in Tasks : Arrived(u)' <=> Arrived(u)
      /\ \A u, s \in Tasks : Before(u, s)' <=> Before(u, s)
      /\ Tickets' /\ Chained'
  BY <1>2, StepKeepsOrder
<1>4. phase[t] = "settled" /\ phase'[t] = "released" /\ KeyOf[t] \in Keys
  BY <1>1, QueueAssumption DEF Release, TypeOK
<1>5. /\ \A k \in Keys : tail'[k] = IF k = KeyOf[t] /\ tail[k] = t THEN NoTask ELSE tail[k]
      /\ tail' \in [Keys -> Tasks \union {NoTask}]
  BY <1>1, <1>4 DEF Release, TailAfterRelease, TypeOK
<1>6. TypeOK'
  BY <1>1, <1>5 DEF TypeOK, Phases, Release
<1>7. SerialInOrder'
  BY <1>1, <1>3, <1>4 DEF SerialInOrder, Active
<1>8. TailIsLatest'
  <2>1. ASSUME NEW k \in Keys, tail'[k] # NoTask
        PROVE  KeyOf[tail'[k]] = k /\ phase'[tail'[k]] \in {"queued", "running", "settled"}
    <3>1. tail'[k] = tail[k] /\ tail[k] \in Tasks /\ KeyOf[tail[k]] = k
      BY <2>1, <1>1, <1>5 DEF TypeOK, TailIsLatest
    <3>2. tail[k] # t
      BY <3>1, <2>1, <1>5
    <3> QED BY <3>1, <3>2, <2>1, <1>1, <1>3 DEF TailIsLatest, TypeOK
  <2>2. ASSUME NEW u \in Tasks, Arrived(u)
        PROVE  IF tail'[KeyOf[u]] = NoTask THEN phase'[u] = "released"
               ELSE ticket[u] <= ticket[tail'[KeyOf[u]]]
    <3>1. KeyOf[u] \in Keys
      BY QueueAssumption
    <3>2. CASE KeyOf[u] = KeyOf[t] /\ tail[KeyOf[t]] = t
      <4>1. tail'[KeyOf[u]] = NoTask
        BY <3>2, <1>4, <1>5
      <4>2. ticket[u] <= ticket[t] /\ NoTask \notin Tasks
        BY <3>2, <2>2, <1>1, QueueAssumption DEF TailIsLatest
      <4>3. u = t \/ Before(u, t)
        BY <4>2, <3>2, <2>2, <1>1, <1>4 DEF Before, Arrived, Tickets, TypeOK
      <4>4. phase'[u] = "released"
        BY <4>3, <1>1, <1>3, <1>4 DEF SerialInOrder, Active
      <4> QED BY <4>1, <4>4
    <3>3. CASE ~(KeyOf[u] = KeyOf[t] /\ tail[KeyOf[t]] = t)
      <4>1. tail'[KeyOf[u]] = tail[KeyOf[u]]
        BY <3>1, <3>3, <1>5
      <4> QED BY <4>1, <2>2, <1>1, <1>3 DEF TailIsLatest
    <3> QED BY <3>2, <3>3
  <2> QED BY <2>1, <2>2, <1>3 DEF TailIsLatest
<1> QED BY <1>3, <1>6, <1>7, <1>8 DEF QueueInv

\* The invariant is inductive.
LEMMA NextKeepsInv == QueueInv /\ [Next]_queueVars => QueueInv'
<1>1. SUFFICES ASSUME QueueInv, [Next]_queueVars PROVE QueueInv'
  OBVIOUS
<1>2. CASE UNCHANGED queueVars
  BY <1>1, <1>2
  DEF queueVars, QueueInv, TypeOK, Tickets, Chained, TailIsLatest, SerialInOrder,
      Before, Arrived, Active
<1>3. ASSUME NEW t \in Tasks, Enqueue(t) PROVE QueueInv'
  BY <1>1, <1>3, EnqueueKeepsInv
<1>4. ASSUME NEW t \in Tasks, Start(t) PROVE QueueInv'
  BY <1>1, <1>4, StartKeepsInv
<1>5. ASSUME NEW t \in Tasks, Settle(t) PROVE QueueInv'
  BY <1>1, <1>5, SettleKeepsInv
<1>6. ASSUME NEW t \in Tasks, Release(t) PROVE QueueInv'
  BY <1>1, <1>6, ReleaseKeepsInv
<1> QED BY <1>1, <1>2, <1>3, <1>4, <1>5, <1>6 DEF Next, QueueStep

\* The invariant holds in every reachable state.
THEOREM QueueInvariant == Spec => []QueueInv
<1> QED BY InitInv, NextKeepsInv, PTL DEF Spec

\* Whatever the interleaving of arrivals with the handlers that end tasks and
\* clear the map, the tasks of a key run one at a time and in order of arrival.
THEOREM TasksRunInOrder == Spec => []SerialInOrder
<1>1. QueueInv => SerialInOrder
  BY DEF QueueInv
<1> QED BY <1>1, QueueInvariant, PTL

\* The invariant determines which entries the map has.
LEMMA EntriesFollow == QueueInv => EntryWhileBusy
<1>1. SUFFICES ASSUME QueueInv, NEW k \in Keys
               PROVE  tail[k] # NoTask <=>
                        \E t \in Tasks :
                          KeyOf[t] = k /\ phase[t] \in {"queued", "running", "settled"}
  BY DEF EntryWhileBusy
<1>2. ASSUME tail[k] # NoTask
      PROVE  \E t \in Tasks :
               KeyOf[t] = k /\ phase[t] \in {"queued", "running", "settled"}
  <2>1. tail[k] \in Tasks
    BY <1>1, <1>2 DEF QueueInv, TypeOK
  <2> QED BY <2>1, <1>1, <1>2 DEF QueueInv, TailIsLatest
<1>3. ASSUME NEW t \in Tasks, KeyOf[t] = k, phase[t] \in {"queued", "running", "settled"}
      PROVE  tail[k] # NoTask
  BY <1>1, <1>3 DEF QueueInv, TailIsLatest, Arrived
<1> QED BY <1>2, <1>3

\* The map has an entry for a key exactly while it has unreleased tasks.
THEOREM MapIsExact == Spec => []EntryWhileBusy
<1> QED BY EntriesFollow, QueueInvariant, PTL
=============================================================================
