------------------------ MODULE FinalDeliveryProofs ------------------------
(***************************************************************************)
(* Proofs about final delivery, for any number of runs, replays, chunks,    *)
(* slots, cancellations and crashes: the provider is called once with the   *)
(* final text of a run, a closed response has arrived, the send queue is in *)
(* order, the slots of the delivery queue are exact, and the life of an     *)
(* answer is that of AnswerOnce.                                            *)
(***************************************************************************)
EXTENDS FinalDelivery, SerialQueueProofs, FiniteSetTheorems, SequenceTheorems

-----------------------------------------------------------------------------
\* The inductive invariant.

Places == {"working", "stage", "commit", "idle", "listed", "text", "done", "record", "report",
           "repeat", "consume", "finished", "lost"}

\* Before admission decides, an attempt has sent nothing.
Unadmitted == {"working", "stage", "commit", "idle", "listed"}

Rows == [status : {"running", "awaiting_user", "cancelled", "interrupted", "completed"},
         aggregate : {"open", "outcome", "cancelled", "reported"},
         staged : {"none", "pending", "consumed"},
         ledger : {"none", "started", "delivered", "suppressed", "failed"},
         committed : BOOLEAN,
         receipt : {"none", "delivered", "duplicate", "startup"}]

Jobs == Tasks \union Others

JobTypes ==
  /\ job \in [Jobs -> {"new", "pending", "running", "refused"} \union Slot!Outcomes]
  /\ task \in [Jobs -> {"idle", "working", "resolved", "rejected"}]
  /\ running \in Nat /\ pending \in Seq(Jobs)

DeliveryTypes ==
  /\ db \in [Runs -> Rows]
  /\ pc \in [Attempts -> Places]
  /\ DOMAIN of = Replays
  /\ \A a \in Attempts : pc[a] # "idle" => RunOf(a) \in Runs
  /\ receipts \subseteq Attempts /\ calling \subseteq Attempts \X Chunks
  /\ calls \in [Runs -> Nat] /\ arrived \subseteq Runs
  /\ crashes \in Nat

\* A waiting job is in the queue once, and a job that has a slot is counted.
SlotInv ==
  /\ IsFiniteSet({t \in Jobs : job[t] = "running"})
  /\ \A i, j \in 1 .. Len(pending) : pending[i] = pending[j] => i = j
  /\ SlotsAreExact

Sent(a, chunk) == phase[<<a, chunk>>] # "new"

\* A chunk is offered in its turn, called when it has a slot, and the done
\* chunk comes after the text.
ChunksInOrder ==
  /\ \A t \in Tasks : job[t] # "new" => phase[t] # "new"
  /\ \A t \in Tasks : task[t] # "idle" => job[t] # "new"
  /\ \A t \in calling : task[t] # "idle"
  /\ \A a \in Attempts : Sent(a, "done") => Sent(a, "text")
  /\ \A a \in Attempts : a \in receipts => Sent(a, "text")
  /\ \A a \in Attempts : Sent(a, "text") => pc[a] \notin Unadmitted

\* The message ledger admits one attempt for a run.
AdmittedOnce ==
  /\ \A a, b \in Attempts : Sent(a, "text") /\ Sent(b, "text") /\ RunOf(a) = RunOf(b) => a = b
  /\ \A a \in Attempts : Sent(a, "text") => db[RunOf(a)].ledger # "none"

\* A call of the provider leaves its mark on the ledger and on the done chunk of
\* the attempt that was admitted: it has no second call to make.
CallIsMarked ==
  \A r \in Runs : calls[r] > 0 =>
    /\ db[r].ledger # "none"
    /\ \A a \in Attempts : RunOf(a) = r /\ Sent(a, "text") => task[<<a, "done">>] # "idle"

\* Whoever says that a text was delivered has evidence that it arrived.
EvidenceArrived ==
  /\ \A a \in Attempts : a \in receipts => RunOf(a) \in arrived
  /\ \A r \in Runs : db[r].ledger = "delivered" \/ db[r].committed => r \in arrived
  /\ \A a \in Attempts : pc[a] \in {"record", "report", "repeat"} => RunOf(a) \in arrived

\* The aggregate goes one way.
ReportedForGood ==
  /\ \A r \in Runs : pc[r] = "working" => db[r].aggregate = "open" /\ db[r].staged = "none"
  /\ \A r \in Runs : db[r].receipt # "none" => db[r].aggregate = "reported"
  /\ \A a \in Attempts : pc[a] = "consume" => db[RunOf(a)].aggregate = "reported"

AttemptInv ==
  /\ ChunksInOrder /\ AdmittedOnce /\ CallIsMarked /\ OneFinalPerRun
  /\ EvidenceArrived /\ ReportedForGood /\ ClosedMeansArrived

DeliveryInv == QueueInv /\ JobTypes /\ DeliveryTypes /\ SlotInv /\ AttemptInv

-----------------------------------------------------------------------------
\* The delivery queue.

JobStates == {"new", "pending", "running", "refused"} \union Slot!Outcomes
Holders(jobs) == {t \in Jobs : jobs[t] = "running"}

\* runNext is called with at most one slot to fill or at most one job to start.
Fillable(slots, queue, jobs) ==
  /\ IsFiniteSet(Holders(jobs)) /\ Cardinality(Holders(jobs)) = slots
  /\ \A i, j \in 1 .. Len(queue) : queue[i] = queue[j] => i = j
  /\ \A t \in Jobs : jobs[t] = "pending" <=> \E i \in 1 .. Len(queue) : queue[i] = t
  /\ Len(queue) <= 1 \/ slots + 1 >= Concurrency

\* Then it starts one job or none.
LEMMA StartsAtMostOne ==
  ASSUME NEW C \in Nat, NEW s \in Nat, NEW l \in Nat, s <= C, l <= 1 \/ s + 1 >= C,
         NEW n, n = IF l < C - s THEN l ELSE C - s
  PROVE  (n = 0 /\ (l = 0 \/ s = C)) \/ (n = 1 /\ l >= 1 /\ s < C)
<1>1. CASE l < C - s
  BY <1>1
<1>2. CASE l >= C - s
  BY <1>2
<1> QED BY <1>1, <1>2

\* Its loop restores the invariant of the queue.
LEMMA RunNextFacts ==
  ASSUME NEW slots \in 0 .. Concurrency, NEW queue \in Seq(Jobs), NEW jobs \in [Jobs -> JobStates],
         Fillable(slots, queue, jobs), Slot!RunNext(slots, queue, jobs)
  PROVE  /\ job' \in [Jobs -> JobStates] /\ running' \in Nat /\ pending' \in Seq(Jobs)
         /\ SlotInv'
         /\ \A t \in Jobs : job'[t] = jobs[t] \/ (jobs[t] = "pending" /\ job'[t] = "running")
<1> DEFINE n == Slot!Startable(slots, queue)
<1>1. Concurrency \in Nat \ {0} /\ slots \in Nat /\ slots <= Concurrency /\ Len(queue) \in Nat
  BY DeliveryAssumption
<1>2. \/ n = 0 /\ (Len(queue) = 0 \/ slots = Concurrency)
      \/ n = 1 /\ Len(queue) >= 1 /\ slots < Concurrency
  <2>1. n = IF Len(queue) < Concurrency - slots THEN Len(queue) ELSE Concurrency - slots
    BY DEF Slot!Startable
  <2>2. Len(queue) <= 1 \/ slots + 1 >= Concurrency
    BY DEF Fillable
  <2>3. Concurrency \in Nat /\ slots \in Nat /\ Len(queue) \in Nat /\ slots <= Concurrency
    BY <1>1
  <2>4. PICK l \in Nat : l = Len(queue)
    BY <2>3
  <2>5. PICK m : m = n
    OBVIOUS
  <2> HIDE DEF n
  <2>6. m = (IF l < Concurrency - slots THEN l ELSE Concurrency - slots)
    BY <2>1, <2>4, <2>5
  <2>7. l <= 1 \/ slots + 1 >= Concurrency
    BY <2>2, <2>4
  <2>8. (m = 0 /\ (l = 0 \/ slots = Concurrency)) \/ (m = 1 /\ l >= 1 /\ slots < Concurrency)
    BY <2>3, <2>6, <2>7, StartsAtMostOne
  <2> QED BY <2>4, <2>5, <2>8
<1>3. /\ running' = slots + n
      /\ pending' = SubSeq(queue, n + 1, Len(queue))
      /\ job' = [q \in Jobs |-> IF q \in {queue[i] : i \in 1 .. n} THEN "running" ELSE jobs[q]]
  BY DEF Slot!RunNext, Jobs
<1>4. CASE n = 0
  <2>1. queue = <<>> \/ slots = Concurrency
    <3>1. Len(queue) = 0 => queue = <<>>
      OBVIOUS
    <3> HIDE DEF n
    <3> QED BY <1>2, <1>4, <3>1
  <2>2. running' = slots /\ pending' = queue /\ job' = jobs
    <3>1. {queue[i] : i \in 1 .. n} = {}
      BY <1>4
    <3>2. SubSeq(queue, 1, Len(queue)) = queue
      OBVIOUS
    <3> QED BY <1>1, <1>3, <1>4, <3>1, <3>2
  <2>3. DOMAIN job' = Jobs /\ DOMAIN pending' = 1 .. Len(queue)
    BY <2>2
  <2>4. {t \in DOMAIN job' : job'[t] = "running"} = Holders(jobs)
    BY <2>2, <2>3 DEF Holders
  <2>5. {pending'[i] : i \in DOMAIN pending'} = {t \in DOMAIN job' : job'[t] = "pending"}
    BY <2>2, <2>3 DEF Fillable
  <2>6. SlotsAreExact'
    BY <1>1, <2>1, <2>2, <2>4, <2>5 DEF SlotsAreExact, Fillable
  <2>7. SlotInv'
    BY <2>2, <2>3, <2>4, <2>6 DEF SlotInv, Fillable
  <2> QED BY <1>1, <2>2, <2>7
<1>5. CASE n = 1
  <2> DEFINE h == queue[1]
  <2>1. Len(queue) >= 1 /\ slots < Concurrency
    <3> HIDE DEF n
    <3> QED BY <1>2, <1>5
  <2>2. h \in Jobs /\ jobs[h] = "pending"
    BY <1>1, <2>1 DEF Fillable
  <2>3. /\ job' \in [Jobs -> JobStates] /\ job'[h] = "running"
        /\ \A t \in Jobs \ {h} : job'[t] = jobs[t]
    <3>1. {queue[i] : i \in 1 .. n} = {h}
      BY <1>5
    <3>2. "running" \in JobStates
      BY DEF JobStates
    <3> QED BY <1>3, <2>2, <3>1, <3>2
  <2>4. /\ pending' \in Seq(Jobs) /\ Len(pending') = Len(queue) - 1
        /\ \A i \in 1 .. Len(pending') : pending'[i] = queue[i + 1] /\ i + 1 \in 1 .. Len(queue)
    <3>1. pending' = SubSeq(queue, 2, Len(queue))
      BY <1>3, <1>5
    <3>2. queue # <<>>
      BY <2>1
    <3>3. pending' = Tail(queue)
      BY <3>1, <3>2, TailIsSubSeq
    <3> QED BY <1>1, <3>2, <3>3
  <2>5. DOMAIN job' = Jobs /\ DOMAIN pending' = 1 .. Len(pending')
    BY <2>3, <2>4
  <2>6. {t \in DOMAIN job' : job'[t] = "running"} = Holders(jobs) \union {h}
    BY <2>2, <2>3, <2>5 DEF Holders
  <2>7. h \notin Holders(jobs)
    BY <2>2 DEF Holders
  <2>8. /\ IsFiniteSet(Holders(jobs) \union {h})
        /\ Cardinality(Holders(jobs) \union {h}) = slots + 1
    <3>1. IsFiniteSet(Holders(jobs)) /\ Cardinality(Holders(jobs)) = slots
      BY DEF Fillable
    <3>2. Cardinality(Holders(jobs) \union {h}) = Cardinality(Holders(jobs)) + 1
      BY <2>7, <3>1, FS_AddElement
    <3>3. IsFiniteSet(Holders(jobs) \union {h})
      BY <3>1, FS_AddElement
    <3> QED BY <3>1, <3>2, <3>3
  <2>9. \A i, j \in 1 .. Len(pending') : pending'[i] = pending'[j] => i = j
    <3> SUFFICES ASSUME NEW i \in 1 .. Len(pending'), NEW j \in 1 .. Len(pending'),
                        pending'[i] = pending'[j]
                 PROVE  i = j
      OBVIOUS
    <3>1. queue[i + 1] = queue[j + 1] /\ i + 1 \in 1 .. Len(queue) /\ j + 1 \in 1 .. Len(queue)
      BY <2>4
    <3>2. i + 1 = j + 1
      BY <3>1 DEF Fillable
    <3>3. i \in Int /\ j \in Int
      OBVIOUS
    <3> QED BY <3>2, <3>3
  <2>10. {pending'[i] : i \in DOMAIN pending'} = {t \in DOMAIN job' : job'[t] = "pending"}
    <3>1. ASSUME NEW i \in 1 .. Len(pending')
          PROVE  pending'[i] \in Jobs /\ job'[pending'[i]] = "pending"
      <4>1. pending'[i] = queue[i + 1] /\ i + 1 \in 1 .. Len(queue) /\ i + 1 # 1
        BY <2>4
      <4>2. 1 \in 1 .. Len(queue)
        BY <1>1, <2>1
      <4>3. queue[i + 1] # h
        BY <4>1, <4>2 DEF Fillable
      <4>4. queue[i + 1] \in Jobs
        BY <4>1
      <4>5. jobs[queue[i + 1]] = "pending"
        BY <4>1, <4>4 DEF Fillable
      <4> QED BY <2>3, <4>1, <4>3, <4>4, <4>5
    <3>2. ASSUME NEW t \in Jobs, job'[t] = "pending"
          PROVE  \E i \in 1 .. Len(pending') : pending'[i] = t
      <4>1. t # h /\ jobs[t] = "pending"
        BY <2>3, <3>2
      <4>2. PICK k \in 1 .. Len(queue) : queue[k] = t
        BY <4>1 DEF Fillable
      <4>3. k # 1
        BY <4>1, <4>2
      <4>4. k - 1 \in 1 .. Len(pending') /\ (k - 1) + 1 = k
        BY <1>1, <2>4, <4>3
      <4> QED BY <2>4, <4>2, <4>4
    <3> QED BY <2>5, <3>1, <3>2
  <2>11. running' = slots + 1 /\ (pending' # <<>> => slots + 1 = Concurrency)
    <3>1. pending' # <<>> => Len(pending') > 0
      BY <2>4
    <3>2. Len(pending') > 0 => slots + 1 >= Concurrency
      BY <1>1, <2>4 DEF Fillable
    <3> QED BY <1>1, <1>3, <1>5, <2>1, <3>1, <3>2
  <2>12. SlotsAreExact'
    <3>1. running' = Cardinality({t \in DOMAIN job' : job'[t] = "running"})
      BY <2>6, <2>8, <2>11
    <3>2. running' <= Concurrency
      BY <1>1, <2>1, <2>11
    <3> QED BY <2>10, <2>11, <3>1, <3>2 DEF SlotsAreExact
  <2>13. {t \in Jobs : job'[t] = "running"} = Holders(jobs) \union {h}
    BY <2>5, <2>6
  <2>14. SlotInv'
    BY <2>8, <2>9, <2>12, <2>13 DEF SlotInv
  <2> QED BY <1>1, <2>2, <2>3, <2>4, <2>11, <2>14
<1> QED BY <1>2, <1>4, <1>5

\* What the invariant says of the queue before a step.
LEMMA SlotFacts ==
  ASSUME JobTypes, SlotInv
  PROVE  /\ job \in [Jobs -> JobStates] /\ pending \in Seq(Jobs) /\ running \in 0 .. Concurrency
         /\ Concurrency \in Nat /\ Len(pending) \in Nat
         /\ IsFiniteSet(Holders(job)) /\ Cardinality(Holders(job)) = running
         /\ \A i, j \in 1 .. Len(pending) : pending[i] = pending[j] => i = j
         /\ \A t \in Jobs : job[t] = "pending" <=> \E i \in 1 .. Len(pending) : pending[i] = t
         /\ pending = <<>> \/ running = Concurrency
         /\ \A i \in 1 .. Len(pending) : pending[i] \in Jobs
<1>1. job \in [Jobs -> JobStates] /\ pending \in Seq(Jobs) /\ running \in Nat
  BY DEF JobTypes, JobStates
<1>2. DOMAIN job = Jobs /\ DOMAIN pending = 1 .. Len(pending)
  BY <1>1
<1>3. Holders(job) = {t \in DOMAIN job : job[t] = "running"}
  BY <1>2 DEF Holders
<1>4. running <= Concurrency /\ Concurrency \in Nat
  BY DeliveryAssumption DEF SlotInv, SlotsAreExact
<1>5. \A t \in Jobs : job[t] = "pending" <=> \E i \in 1 .. Len(pending) : pending[i] = t
  BY <1>2 DEF SlotInv, SlotsAreExact
<1>6. IsFiniteSet(Holders(job)) /\ Cardinality(Holders(job)) = running
  BY <1>3 DEF SlotInv, SlotsAreExact, Holders
<1>7. pending = <<>> \/ running = Concurrency
  BY DEF SlotInv, SlotsAreExact
<1>8. \A i, j \in 1 .. Len(pending) : pending[i] = pending[j] => i = j
  BY DEF SlotInv
<1>9. running \in 0 .. Concurrency
  BY <1>1, <1>4
<1>10. Len(pending) \in Nat /\ \A i \in 1 .. Len(pending) : pending[i] \in Jobs
  BY <1>1
<1> QED BY <1>1, <1>4, <1>5, <1>6, <1>7, <1>8, <1>9, <1>10

\* enqueue: the job gets a slot or waits.
LEMMA EnqueueKeepsSlots ==
  ASSUME JobTypes, SlotInv, NEW j \in Jobs, Slot!Enqueue(j)
  PROVE  /\ JobTypes' /\ SlotInv' /\ UNCHANGED task
         /\ job'[j] # "new" /\ \A t \in Jobs \ {j} : job'[t] = "new" <=> job[t] = "new"
<1> DEFINE queue == Append(pending, j)
           jobs == [job EXCEPT ![j] = "pending"]
<1>1. job[j] = "new" /\ Slot!RunNext(running, queue, jobs) /\ task' = task
  BY DEF Slot!Enqueue
<1>2. "pending" \in JobStates
  BY DEF JobStates
<1>3. jobs \in [Jobs -> JobStates] /\ jobs[j] = "pending" /\ \A t \in Jobs \ {j} : jobs[t] = job[t]
  BY <1>2, SlotFacts
<1>4. /\ queue \in Seq(Jobs) /\ Len(queue) = Len(pending) + 1 /\ queue[Len(pending) + 1] = j
      /\ \A i \in 1 .. Len(pending) : queue[i] = pending[i]
  BY SlotFacts
<1> HIDE DEF queue, jobs
<1>5. Holders(jobs) = Holders(job)
  BY <1>1, <1>3 DEF Holders
<1>6. \A i \in 1 .. Len(queue) : i \in 1 .. Len(pending) \/ i = Len(pending) + 1
  BY <1>4, SlotFacts
<1>7. \A i \in 1 .. Len(pending) : pending[i] # j /\ i \in 1 .. Len(queue)
  BY <1>1, <1>4, SlotFacts
<1>8. \A i, k \in 1 .. Len(queue) : queue[i] = queue[k] => i = k
  <2> SUFFICES ASSUME NEW i \in 1 .. Len(queue), NEW k \in 1 .. Len(queue), queue[i] = queue[k]
               PROVE  i = k
    OBVIOUS
  <2>1. CASE i = Len(pending) + 1 /\ k = Len(pending) + 1
    BY <2>1
  <2>2. CASE i \in 1 .. Len(pending) /\ k \in 1 .. Len(pending)
    BY <1>4, <2>2, SlotFacts
  <2> QED BY <1>4, <1>6, <1>7, <2>1, <2>2
<1>9. \A t \in Jobs : jobs[t] = "pending" <=> \E i \in 1 .. Len(queue) : queue[i] = t
  <2>1. Len(pending) + 1 \in 1 .. Len(queue)
    BY <1>4, SlotFacts
  <2>2. ASSUME NEW t \in Jobs, jobs[t] = "pending" PROVE \E i \in 1 .. Len(queue) : queue[i] = t
    <3>1. CASE t = j
      BY <1>4, <2>1, <3>1
    <3>2. CASE t # j
      <4>1. PICK i \in 1 .. Len(pending) : pending[i] = t
        BY <1>3, <2>2, <3>2, SlotFacts
      <4> QED BY <1>4, <1>7, <4>1
    <3> QED BY <3>1, <3>2
  <2>3. ASSUME NEW t \in Jobs, NEW i \in 1 .. Len(queue), queue[i] = t PROVE jobs[t] = "pending"
    <3>1. CASE i = Len(pending) + 1
      BY <1>3, <1>4, <2>3, <3>1
    <3>2. CASE i \in 1 .. Len(pending)
      BY <1>3, <1>4, <1>7, <2>3, <3>2, SlotFacts
    <3> QED BY <1>6, <3>1, <3>2
  <2> QED BY <2>2, <2>3
<1>10. Len(queue) <= 1 \/ running + 1 >= Concurrency
  <2>1. CASE pending = <<>>
    BY <1>4, <2>1
  <2>2. CASE running = Concurrency
    BY <2>2, SlotFacts
  <2> QED BY <2>1, <2>2, SlotFacts
<1>11. Fillable(running, queue, jobs)
  BY <1>5, <1>8, <1>9, <1>10, SlotFacts DEF Fillable
<1>12. /\ job' \in [Jobs -> JobStates] /\ running' \in Nat /\ pending' \in Seq(Jobs) /\ SlotInv'
       /\ \A t \in Jobs : job'[t] = jobs[t] \/ (jobs[t] = "pending" /\ job'[t] = "running")
  BY <1>1, <1>3, <1>4, <1>11, SlotFacts, RunNextFacts
<1>13. JobTypes'
  BY <1>1, <1>12 DEF JobTypes, JobStates
<1> QED BY <1>1, <1>3, <1>12, <1>13

\* A job ends, by its task or its timer, and its slot is given on.
LEMMA AnswerKeepsSlots ==
  ASSUME JobTypes, SlotInv, NEW j \in Jobs, job[j] = "running",
         NEW outcome \in Slot!Outcomes, Slot!Answer(j, outcome)
  PROVE  /\ JobTypes' /\ SlotInv' /\ UNCHANGED task
         /\ \A t \in Jobs : job'[t] = "new" <=> job[t] = "new"
<1> DEFINE slots == Slot!SlotFreed(j)
           jobs == [job EXCEPT ![j] = outcome]
<1>1. Slot!RunNext(slots, pending, jobs) /\ task' = task
  BY DEF Slot!Answer
<1>2. outcome \in JobStates /\ outcome \notin {"new", "pending", "running"}
  BY DEF JobStates, Slot!Outcomes
<1>3. jobs \in [Jobs -> JobStates] /\ jobs[j] = outcome /\ \A t \in Jobs \ {j} : jobs[t] = job[t]
  BY <1>2, SlotFacts
<1> HIDE DEF jobs
<1>4. j \in Holders(job) /\ Holders(jobs) = Holders(job) \ {j}
  BY <1>2, <1>3 DEF Holders
<1>5. running \in Nat \ {0}
  <2>1. running # 0
    BY <1>4, SlotFacts, FS_EmptySet
  <2> QED BY <2>1 DEF JobTypes
<1>6. slots = running - 1
  BY <1>5 DEF Slot!SlotFreed
<1> HIDE DEF slots
<1>7. IsFiniteSet(Holders(jobs)) /\ Cardinality(Holders(jobs)) = running - 1
  <2>1. IsFiniteSet(Holders(job)) /\ Cardinality(Holders(job)) = running
    BY SlotFacts
  <2>2. IsFiniteSet(Holders(job) \ {j})
    BY <2>1, FS_RemoveElement
  <2>3. Cardinality(Holders(job) \ {j}) = Cardinality(Holders(job)) - 1
    BY <1>4, <2>1, FS_RemoveElement
  <2> QED BY <1>4, <2>1, <2>2, <2>3
<1>8. \A t \in Jobs : jobs[t] = "pending" <=> \E i \in 1 .. Len(pending) : pending[i] = t
  <2>1. \A t \in Jobs : jobs[t] = "pending" <=> job[t] = "pending"
    BY <1>2, <1>3
  <2> QED BY <2>1, SlotFacts
<1>9. Len(pending) <= 1 \/ slots + 1 >= Concurrency
  <2>1. CASE pending = <<>>
    BY <2>1
  <2>2. CASE running = Concurrency
    BY <1>5, <1>6, <2>2, SlotFacts
  <2> QED BY <2>1, <2>2, SlotFacts
<1>10. slots \in 0 .. Concurrency
  BY <1>5, <1>6, SlotFacts
<1>11. Fillable(slots, pending, jobs)
  BY <1>6, <1>7, <1>8, <1>9, SlotFacts DEF Fillable
<1>12. /\ job' \in [Jobs -> JobStates] /\ running' \in Nat /\ pending' \in Seq(Jobs) /\ SlotInv'
       /\ \A t \in Jobs : job'[t] = jobs[t] \/ (jobs[t] = "pending" /\ job'[t] = "running")
  BY <1>1, <1>3, <1>10, <1>11, SlotFacts, RunNextFacts
<1>13. JobTypes'
  BY <1>1, <1>12 DEF JobTypes, JobStates
<1> QED BY <1>1, <1>2, <1>3, <1>12, <1>13

\* A refusal takes no slot.
LEMMA RejectKeepsSlots ==
  ASSUME JobTypes, SlotInv, NEW j \in Jobs, Slot!Reject(j)
  PROVE  /\ JobTypes' /\ SlotInv' /\ UNCHANGED task
         /\ \A t \in Jobs \ {j} : job'[t] = job[t]
<1>1. /\ job[j] = "new" /\ job' = [job EXCEPT ![j] = "refused"]
      /\ UNCHANGED <<task, running, pending>>
  BY DEF Slot!Reject
<1>2. "refused" \in JobStates /\ job \in [Jobs -> JobStates]
  BY SlotFacts DEF JobStates
<1>3. job' \in [Jobs -> JobStates] /\ job'[j] = "refused" /\ \A t \in Jobs \ {j} : job'[t] = job[t]
  BY <1>1, <1>2
<1>4. JobTypes'
  BY <1>1, <1>3 DEF JobTypes, JobStates
<1>5. DOMAIN job = Jobs /\ DOMAIN job' = Jobs
  BY <1>2, <1>3
<1>6. {t \in DOMAIN job' : job'[t] = "running"} = {t \in DOMAIN job : job[t] = "running"}
  BY <1>1, <1>3, <1>5
<1>7. {t \in DOMAIN job' : job'[t] = "pending"} = {t \in DOMAIN job : job[t] = "pending"}
  BY <1>1, <1>3, <1>5
<1>8. SlotsAreExact'
  <2>1. running' = running /\ pending' = pending
    BY <1>1
  <2>2. running' = Cardinality({t \in DOMAIN job' : job'[t] = "running"})
    BY <1>6, <2>1 DEF SlotInv, SlotsAreExact
  <2>3. {pending'[i] : i \in DOMAIN pending'} = {t \in DOMAIN job' : job'[t] = "pending"}
    BY <1>7, <2>1 DEF SlotInv, SlotsAreExact
  <2> HIDE <1>1
  <2> QED BY <2>1, <2>2, <2>3 DEF SlotInv, SlotsAreExact
<1>9. SlotInv'
  BY <1>1, <1>5, <1>6, <1>8 DEF SlotInv
<1> QED BY <1>1, <1>3, <1>4, <1>9

\* The work of a job goes on without the queue.
TaskMoves(j) ==
  /\ task' \in [Jobs -> {"idle", "working", "resolved", "rejected"}]
  /\ task'[j] # "idle" /\ \A t \in Jobs \ {j} : task'[t] = task[t]

\* A step of the work alone leaves jobs and slots as they are.
LEMMA TaskKeepsSlots ==
  ASSUME JobTypes, SlotInv, NEW j \in Jobs,
         \/ Slot!TaskStarts(j)
         \/ Slot!TaskReturnsAtOnce(j, "resolved") \/ Slot!TaskReturnsAtOnce(j, "rejected")
         \/ Slot!TaskSettles(j)
  PROVE  JobTypes' /\ SlotInv' /\ TaskMoves(j) /\ UNCHANGED <<job, running, pending>>
<1>1. task \in [Jobs -> {"idle", "working", "resolved", "rejected"}]
  BY DEF JobTypes
<1>2. /\ UNCHANGED <<job, running, pending>>
      /\ \E e \in {"working", "resolved", "rejected"} : task' = [task EXCEPT ![j] = e]
  BY DEF Slot!TaskStarts, Slot!TaskReturnsAtOnce, Slot!TaskSettles
<1>3. TaskMoves(j)
  BY <1>1, <1>2 DEF TaskMoves
<1>4. JobTypes' /\ SlotInv'
  BY <1>2, <1>3 DEF JobTypes, SlotInv, SlotsAreExact, TaskMoves
<1> QED BY <1>2, <1>3, <1>4

\* Neither a new process nor one that died has a job.
LEMMA EmptySlots == Slot!Init => JobTypes /\ SlotInv
<1> SUFFICES ASSUME Slot!Init PROVE JobTypes /\ SlotInv
  OBVIOUS
<1>1. /\ job = [t \in Jobs |-> "new"] /\ task = [t \in Jobs |-> "idle"]
      /\ running = 0 /\ pending = <<>>
  BY DEF Slot!Init, Jobs
<1>2. JobTypes
  BY <1>1 DEF JobTypes
<1>3. {t \in Jobs : job[t] = "running"} = {} /\ {t \in DOMAIN job : job[t] = "running"} = {}
  BY <1>1
<1>4. {t \in DOMAIN job : job[t] = "pending"} = {} /\ {pending[i] : i \in DOMAIN pending} = {}
  BY <1>1
<1>5. IsFiniteSet({}) /\ Cardinality({}) = 0
  BY FS_EmptySet
<1>6. running = 0 /\ pending = <<>> /\ Concurrency \in Nat /\ 0 <= Concurrency /\ Len(pending) = 0
  BY <1>1, DeliveryAssumption
<1> HIDE <1>1
<1>7. SlotsAreExact
  BY <1>3, <1>4, <1>5, <1>6 DEF SlotsAreExact
<1>8. IsFiniteSet({t \in Jobs : job[t] = "running"})
  BY <1>3, <1>5
<1>9. SlotInv
  BY <1>6, <1>7, <1>8 DEF SlotInv
<1> QED BY <1>2, <1>9

-----------------------------------------------------------------------------
\* The send queue.

\* Each chunk of an attempt is a task of the send queue.
LEMMA ChunksAreTasks ==
  /\ \A a \in Attempts, c \in Chunks : <<a, c>> \in Tasks /\ <<a, c>> \in Jobs
  /\ Tasks \subseteq Jobs /\ Tasks \ Progress = Attempts \X Chunks
  /\ Runs \subseteq Attempts /\ Replays \subseteq Attempts
BY DeliveryAssumption DEF Jobs, Attempts

\* An arrival is the only task that becomes known to the queue.
LEMMA EnqueueFacts ==
  ASSUME QueueInv, NEW t \in Tasks, Enqueue(t)
  PROVE  /\ QueueInv' /\ phase[t] = "new" /\ phase'[t] # "new"
         /\ \A u \in Tasks \ {t} : phase'[u] = phase[u]
<1>1. phase \in [Tasks -> Phases] /\ phase[t] = "new" /\ phase' = [phase EXCEPT ![t] = "queued"]
  BY DEF Enqueue, QueueInv, TypeOK
<1> QED BY <1>1, EnqueueKeepsInv

\* No task is forgotten as it proceeds.
LEMMA ProceedFacts ==
  ASSUME QueueInv, NEW t \in Tasks, QueueStep(t)
  PROVE  /\ QueueInv'
         /\ \A u \in Tasks : phase'[u] = "new" <=> phase[u] = "new"
<1>1. QueueInv'
  BY StartKeepsInv, SettleKeepsInv, ReleaseKeepsInv DEF QueueStep
<1>2. \A u \in Tasks : Arrived(u)' <=> Arrived(u)
  BY StepKeepsOrder
<1> QED BY <1>1, <1>2 DEF Arrived

\* A step outside the queue leaves it in order.
LEMMA QueueUntouched == QueueInv /\ UNCHANGED queueVars => QueueInv'
BY NextKeepsInv

-----------------------------------------------------------------------------
\* The attempts.

\* A step of the queues that takes no chunk to the channel.
Quiet ==
  /\ UNCHANGED <<db, pc, of, handlerVars, worldVars, crashes>>
  /\ \A t \in Attempts \X Chunks : phase'[t] = "new" <=> phase[t] = "new"
  /\ \A t \in Tasks : job'[t] # "new" => phase'[t] # "new"
  /\ \A t \in Tasks : job[t] # "new" => job'[t] # "new"
  /\ \A t \in Jobs : task'[t] = task[t]

\* It keeps what the invariant says of the attempts.
LEMMA QuietKeepsAttempts ==
  ASSUME DeliveryTypes, AttemptInv, Quiet
  PROVE  DeliveryTypes' /\ AttemptInv'
<1>1. /\ db' = db /\ pc' = pc /\ of' = of /\ receipts' = receipts /\ calling' = calling
      /\ calls' = calls /\ arrived' = arrived /\ crashes' = crashes
  BY DEF Quiet, handlerVars, worldVars
<1>2. DeliveryTypes'
  BY <1>1 DEF DeliveryTypes, RunOf
<1>3. \A a \in Attempts, c \in Chunks : Sent(a, c)' <=> Sent(a, c)
  BY ChunksAreTasks DEF Quiet, Sent
<1>4. \A a \in Attempts : RunOf(a)' = RunOf(a)
  BY <1>1 DEF RunOf
<1>5. "text" \in Chunks /\ "done" \in Chunks
  BY DEF Chunks
<1>6. \A a \in Attempts : (Sent(a, "text")' <=> Sent(a, "text")) /\ (Sent(a, "done")' <=> Sent(a, "done"))
  BY <1>3, <1>5
<1>7. \A a \in Attempts : task'[<<a, "done">>] = task[<<a, "done">>]
  BY <1>5, ChunksAreTasks DEF Quiet
<1>8. calling \subseteq Jobs
  BY ChunksAreTasks DEF DeliveryTypes
<1>9. ChunksInOrder'
  <2>1. \A t \in Tasks : task'[t] # "idle" => job'[t] # "new"
    BY ChunksAreTasks DEF Quiet, AttemptInv, ChunksInOrder
  <2>2. \A t \in calling : task'[t] # "idle"
    BY <1>8 DEF Quiet, AttemptInv, ChunksInOrder
  <2>3. \A t \in Tasks : job'[t] # "new" => phase'[t] # "new"
    BY DEF Quiet
  <2> QED BY <1>1, <1>6, <2>1, <2>2, <2>3 DEF AttemptInv, ChunksInOrder
<1>10. AdmittedOnce'
  BY <1>1, <1>4, <1>6 DEF AttemptInv, AdmittedOnce
<1>11. CallIsMarked'
  BY <1>1, <1>4, <1>6, <1>7 DEF AttemptInv, CallIsMarked
<1>12. OneFinalPerRun' /\ ClosedMeansArrived'
  BY <1>1 DEF AttemptInv, OneFinalPerRun, ClosedMeansArrived
<1>13. EvidenceArrived' /\ ReportedForGood'
  BY <1>1, <1>4 DEF AttemptInv, EvidenceArrived, ReportedForGood
<1> QED BY <1>2, <1>9, <1>10, <1>11, <1>12, <1>13 DEF AttemptInv

\* A step of one attempt on the rows of its run: what it may not touch, and what
\* it leaves true of the rows.
RowStep ==
  /\ UNCHANGED <<queueVars, slotVars, of, handlerVars, worldVars, crashes>>
  /\ db' \in [Runs -> Rows] /\ pc' \in [Attempts -> Places]
  /\ \A a \in Attempts : pc[a] = "idle" => pc'[a] = "idle"
  /\ \A a \in Attempts : pc'[a] \in Unadmitted => pc[a] \in Unadmitted
  /\ \A r \in Runs : db[r].ledger # "none" => db'[r].ledger # "none"

\* If it leaves the rows true, it keeps what the invariant says of the attempts.
LEMMA RowStepKeepsAttempts ==
  ASSUME DeliveryTypes, AttemptInv, RowStep,
         EvidenceArrived', ReportedForGood', ClosedMeansArrived'
  PROVE  DeliveryTypes' /\ AttemptInv'
<1>1. /\ phase' = phase /\ job' = job /\ task' = task /\ of' = of /\ receipts' = receipts
      /\ calling' = calling /\ calls' = calls /\ arrived' = arrived /\ crashes' = crashes
  BY DEF RowStep, queueVars, slotVars, handlerVars, worldVars
<1>2. \A a \in Attempts : RunOf(a)' = RunOf(a)
  BY <1>1 DEF RunOf
<1>3. \A a \in Attempts, c \in Chunks : Sent(a, c)' <=> Sent(a, c)
  BY <1>1 DEF Sent
<1>4. \A a \in Attempts : Sent(a, "text")' <=> Sent(a, "text")
  BY <1>3 DEF Chunks
<1>5. DeliveryTypes'
  BY <1>1, <1>2 DEF DeliveryTypes, RowStep
<1>6. ChunksInOrder'
  BY <1>1, <1>3 DEF AttemptInv, ChunksInOrder, Sent, RowStep
<1>7. \A a \in Attempts : Sent(a, "text") => RunOf(a) \in Runs
  BY DEF DeliveryTypes, AttemptInv, ChunksInOrder, Unadmitted
<1>8. AdmittedOnce'
  BY <1>2, <1>4, <1>7 DEF AttemptInv, AdmittedOnce, RowStep
<1>9. CallIsMarked' /\ OneFinalPerRun'
  BY <1>1, <1>2, <1>4 DEF AttemptInv, CallIsMarked, OneFinalPerRun, RowStep
<1> QED BY <1>5, <1>6, <1>8, <1>9 DEF AttemptInv

\* What a row says of the world, and what it never takes back.
RowIsTrue(r, row) ==
  /\ row.ledger = "delivered" \/ row.committed => r \in arrived
  /\ row.receipt # "none" => row.aggregate = "reported"
  /\ row.staged = "consumed" => row.aggregate = "reported"
  /\ row.aggregate = "reported" => r \in arrived

RowFollows(old, row) ==
  /\ old.ledger # "none" => row.ledger # "none"
  /\ old.aggregate = "reported" => row.aggregate = "reported"

\* The rows are true in every state of the invariant.
LEMMA RowFacts ==
  ASSUME DeliveryTypes, AttemptInv, NEW r \in Runs
  PROVE  db[r] \in Rows /\ RowIsTrue(r, db[r])
BY DEF DeliveryTypes, AttemptInv, EvidenceArrived, ReportedForGood, ClosedMeansArrived, RowIsTrue

\* An attempt that writes a true row and goes where the evidence allows keeps the
\* invariant.
WritesRow(a, row, place) ==
  /\ db' = [db EXCEPT ![RunOf(a)] = row]
  /\ Goto(a, place)
  /\ UNCHANGED <<queueVars, slotVars, of, handlerVars, worldVars, crashes>>

MayGo(a, row, place) ==
  /\ pc[a] = "idle" => place = "idle"
  /\ place \in Unadmitted => pc[a] \in Unadmitted
  /\ place = "working" => pc[a] = "working"
  /\ place \in {"record", "report", "repeat"} => RunOf(a) \in arrived
  /\ place = "consume" => row.aggregate = "reported"

StaysOpen(a, row, place) ==
  \/ a = RunOf(a) /\ place # "working"
  \/ row.aggregate = db[RunOf(a)].aggregate /\ row.staged = db[RunOf(a)].staged
  \/ db[RunOf(a)].aggregate # "open"

\* What such a write has to satisfy, for the row and for the attempt.
LEMMA WriteKeepsAttempts ==
  ASSUME DeliveryTypes, AttemptInv, NEW a \in Attempts, RunOf(a) \in Runs,
         NEW row \in Rows, NEW place \in Places, WritesRow(a, row, place),
         RowIsTrue(RunOf(a), row), RowFollows(db[RunOf(a)], row),
         MayGo(a, row, place), StaysOpen(a, row, place)
  PROVE  DeliveryTypes' /\ AttemptInv'
<1> DEFINE r == RunOf(a)
<1>1. /\ db' \in [Runs -> Rows] /\ db'[r] = row /\ \A q \in Runs \ {r} : db'[q] = db[q]
      /\ pc' \in [Attempts -> Places] /\ pc'[a] = place
      /\ \A b \in Attempts \ {a} : pc'[b] = pc[b]
  BY DEF DeliveryTypes, WritesRow, Goto
<1>2. r \in Runs /\ RowIsTrue(r, row) /\ RowFollows(db[r], row)
  OBVIOUS
<1>3. UNCHANGED <<of, receipts, arrived>>
  BY DEF WritesRow, handlerVars, worldVars
<1>4. \A b \in Attempts : RunOf(b)' = RunOf(b)
  BY <1>3 DEF RunOf
<1>5. \A b \in Attempts : pc[b] # "idle" => RunOf(b) \in Runs
  BY DEF DeliveryTypes
<1>6. place \in {"record", "report", "repeat"} => r \in arrived
  BY DEF MayGo
<1>7. place = "consume" => row.aggregate = "reported"
  BY DEF MayGo
<1>8. ASSUME pc'[r] = "working" PROVE row.aggregate = "open" /\ row.staged = "none"
  <2>1. CASE a = r /\ place # "working"
    BY <1>1, <1>8, <2>1
  <2>2. CASE ~(a = r /\ place # "working")
    <3>1. pc[r] = "working"
      BY <1>1, <1>2, <1>8, ChunksAreTasks DEF MayGo
    <3> QED BY <1>2, <2>2, <3>1 DEF StaysOpen, AttemptInv, ReportedForGood
  <2> QED BY <2>1, <2>2
<1> HIDE DEF r
<1>9. EvidenceArrived'
  <2>1. \A q \in Runs : db'[q].ledger = "delivered" \/ db'[q].committed => q \in arrived
    BY <1>1, <1>2 DEF RowIsTrue, AttemptInv, EvidenceArrived
  <2>2. \A b \in Attempts : pc'[b] \in {"record", "report", "repeat"} => RunOf(b) \in arrived
    BY <1>1, <1>6 DEF r, AttemptInv, EvidenceArrived
  <2> QED BY <1>3, <1>4, <2>1, <2>2 DEF AttemptInv, EvidenceArrived
<1>10. ReportedForGood'
  <2>1. ASSUME NEW q \in Runs, pc'[q] = "working"
        PROVE  db'[q].aggregate = "open" /\ db'[q].staged = "none"
    <3>1. CASE q = r
      BY <1>1, <1>8, <2>1, <3>1
    <3>2. CASE q # r
      <4>1. q # a
        BY <3>2 DEF r, RunOf
      <4> QED BY <1>1, <2>1, <3>2, <4>1, ChunksAreTasks DEF AttemptInv, ReportedForGood
    <3> QED BY <3>1, <3>2
  <2>2. \A q \in Runs : db'[q].receipt # "none" => db'[q].aggregate = "reported"
    BY <1>1, <1>2 DEF RowIsTrue, AttemptInv, ReportedForGood
  <2>3. ASSUME NEW b \in Attempts, pc'[b] = "consume"
        PROVE  db'[RunOf(b)].aggregate = "reported"
    <3>1. CASE b = a
      BY <1>1, <1>7, <2>3, <3>1 DEF r
    <3>2. CASE b # a
      <4>1. pc[b] = "consume" /\ RunOf(b) \in Runs
        BY <1>1, <1>5, <2>3, <3>2
      <4>2. db[RunOf(b)].aggregate = "reported"
        BY <4>1 DEF AttemptInv, ReportedForGood
      <4> QED BY <1>1, <1>2, <4>1, <4>2 DEF RowFollows
    <3> QED BY <3>1, <3>2
  <2> QED BY <1>4, <2>1, <2>2, <2>3 DEF ReportedForGood
<1>11. ClosedMeansArrived'
  BY <1>1, <1>2, <1>3 DEF RowIsTrue, AttemptInv, ClosedMeansArrived
<1>12. RowStep
  BY <1>1, <1>2 DEF RowStep, WritesRow, RowFollows, MayGo
<1> QED BY <1>9, <1>10, <1>11, <1>12, RowStepKeepsAttempts

\* The queues are as they were.
LEMMA WriteKeepsInv ==
  ASSUME DeliveryInv, NEW a \in Attempts, RunOf(a) \in Runs,
         NEW row \in Rows, NEW place \in Places, WritesRow(a, row, place),
         RowIsTrue(RunOf(a), row), RowFollows(db[RunOf(a)], row),
         MayGo(a, row, place), StaysOpen(a, row, place)
  PROVE  DeliveryInv'
<1>1. DeliveryTypes' /\ AttemptInv'
  BY WriteKeepsAttempts DEF DeliveryInv
<1>2. QueueInv'
  BY QueueUntouched DEF DeliveryInv, WritesRow
<1>3. JobTypes' /\ SlotInv'
  BY DEF DeliveryInv, WritesRow, slotVars, JobTypes, SlotInv, SlotsAreExact
<1> QED BY <1>1, <1>2, <1>3 DEF DeliveryInv

\* The outcome of a run that is being worked on is recorded before anything else.
LEMMA DecideKeepsInv ==
  ASSUME DeliveryInv, NEW r \in Runs, Decide(r)
  PROVE  DeliveryInv'
<1> DEFINE row == [db[r] EXCEPT !.aggregate = "outcome", !.status = "running"]
<1>1. db[r] \in Rows /\ RowIsTrue(r, db[r]) /\ RunOf(r) = r /\ r \in Attempts
  BY RowFacts DEF DeliveryInv, RunOf, Attempts
<1>2. pc[r] = "working" /\ db[r].aggregate = "open" /\ db[r].staged = "none"
  BY DEF Decide, DeliveryInv, AttemptInv, ReportedForGood
<1>3. /\ row \in Rows /\ row.aggregate = "outcome" /\ row.staged = db[r].staged
      /\ row.ledger = db[r].ledger /\ row.committed = db[r].committed /\ row.receipt = db[r].receipt
  BY <1>1 DEF Rows
<1>4. WritesRow(r, row, "stage")
  BY <1>1 DEF Decide, WritesRow, processVars, DeliveryInv, DeliveryTypes
<1> HIDE DEF row
<1>5. RowIsTrue(r, row) /\ RowFollows(db[r], row) /\ MayGo(r, row, "stage") /\ StaysOpen(r, row, "stage")
  BY <1>1, <1>2, <1>3 DEF RowIsTrue, RowFollows, MayGo, StaysOpen, Unadmitted
<1>6. "stage" \in Places
  BY DEF Places
<1> QED BY <1>1, <1>3, <1>4, <1>5, <1>6, WriteKeepsInv

\* A cancellation touches the status alone.
LEMMA CancelKeepsInv ==
  ASSUME DeliveryInv, NEW r \in Runs, Cancel(r)
  PROVE  DeliveryInv'
<1> DEFINE row == [db[r] EXCEPT !.status = UpdatedStatus(db[r], "cancelled")]
<1>1. db[r] \in Rows /\ RowIsTrue(r, db[r]) /\ RunOf(r) = r /\ r \in Attempts /\ pc[r] \in Places
  BY RowFacts DEF DeliveryInv, DeliveryTypes, RunOf, Attempts
<1>2. UpdatedStatus(db[r], "cancelled") \in {"running", "awaiting_user", "cancelled", "interrupted", "completed"}
  BY <1>1 DEF UpdatedStatus, Rows
<1>3. /\ row \in Rows /\ row.aggregate = db[r].aggregate /\ row.staged = db[r].staged
      /\ row.ledger = db[r].ledger /\ row.committed = db[r].committed /\ row.receipt = db[r].receipt
  BY <1>1, <1>2 DEF Rows
<1>4. db' = [db EXCEPT ![r] = row]
  BY <1>1 DEF Cancel, DeliveryInv, DeliveryTypes
<1>5. Goto(r, pc[r])
  BY DEF Cancel, Goto, DeliveryInv, DeliveryTypes
<1>6. WritesRow(r, row, pc[r])
  BY <1>1, <1>4, <1>5 DEF Cancel, WritesRow
<1> HIDE DEF row
<1>7. RowIsTrue(r, row) /\ RowFollows(db[r], row) /\ StaysOpen(r, row, pc[r])
  BY <1>1, <1>3 DEF RowIsTrue, RowFollows, StaysOpen
<1>8. MayGo(r, row, pc[r])
  BY <1>1, <1>3 DEF MayGo, DeliveryInv, AttemptInv, EvidenceArrived, ReportedForGood
<1> QED BY <1>1, <1>3, <1>6, <1>7, <1>8, WriteKeepsInv

\* So is the cancellation, when the driver notices it.
LEMMA AbandonKeepsInv ==
  ASSUME DeliveryInv, NEW r \in Runs, Abandon(r)
  PROVE  DeliveryInv'
<1> DEFINE row == [db[r] EXCEPT !.aggregate = "cancelled", !.status = "cancelled"]
<1>1. db[r] \in Rows /\ RowIsTrue(r, db[r]) /\ RunOf(r) = r /\ r \in Attempts
  BY RowFacts DEF DeliveryInv, RunOf, Attempts
<1>2. pc[r] = "working" /\ db[r].aggregate = "open" /\ db[r].staged = "none"
  BY DEF Abandon, DeliveryInv, AttemptInv, ReportedForGood
<1>3. /\ row \in Rows /\ row.aggregate = "cancelled" /\ row.staged = db[r].staged
      /\ row.ledger = db[r].ledger /\ row.committed = db[r].committed /\ row.receipt = db[r].receipt
  BY <1>1 DEF Rows
<1>4. WritesRow(r, row, "stage")
  BY <1>1 DEF Abandon, WritesRow, processVars, DeliveryInv, DeliveryTypes
<1> HIDE DEF row
<1>5. RowIsTrue(r, row) /\ RowFollows(db[r], row) /\ MayGo(r, row, "stage") /\ StaysOpen(r, row, "stage")
  BY <1>1, <1>2, <1>3 DEF RowIsTrue, RowFollows, MayGo, StaysOpen, Unadmitted
<1>6. "stage" \in Places
  BY DEF Places
<1> QED BY <1>1, <1>3, <1>4, <1>5, <1>6, WriteKeepsInv

\* A staged response is pending until its delivery is reported.
LEMMA StageKeepsInv ==
  ASSUME DeliveryInv, NEW r \in Runs, Stage(r)
  PROVE  DeliveryInv'
<1> DEFINE row == [db[r] EXCEPT !.staged = "pending"]
<1>1. db[r] \in Rows /\ RowIsTrue(r, db[r]) /\ RunOf(r) = r /\ r \in Attempts /\ pc[r] = "stage"
  BY RowFacts DEF DeliveryInv, RunOf, Attempts, Stage
<1>2. /\ row \in Rows /\ row.aggregate = db[r].aggregate /\ row.staged = "pending"
      /\ row.ledger = db[r].ledger /\ row.committed = db[r].committed /\ row.receipt = db[r].receipt
  BY <1>1 DEF Rows
<1>3. WritesRow(r, row, "commit")
  BY <1>1 DEF Stage, WritesRow, processVars, DeliveryInv, DeliveryTypes
<1> HIDE DEF row
<1>4. RowIsTrue(r, row) /\ RowFollows(db[r], row) /\ MayGo(r, row, "commit") /\ StaysOpen(r, row, "commit")
  BY <1>1, <1>2 DEF RowIsTrue, RowFollows, MayGo, StaysOpen, Unadmitted
<1>5. "commit" \in Places
  BY DEF Places
<1> QED BY <1>1, <1>2, <1>3, <1>4, <1>5, WriteKeepsInv

\* A row that is not written, and an attempt that admission sends elsewhere than
\* to the channel.
LEMMA TurnedAwayKeepsInv ==
  ASSUME DeliveryInv, NEW a \in Attempts, pc[a] \in {"commit", "listed"},
         NEW place \in {"repeat", "record", "finished"}, Goto(a, place),
         place \in {"repeat", "record"} => RunOf(a) \in arrived,
         UNCHANGED <<db, queueVars, slotVars, of, handlerVars, worldVars, processVars>>
  PROVE  DeliveryInv'
<1> DEFINE r == RunOf(a)
<1>1. r \in Runs /\ db[r] \in Rows /\ RowIsTrue(r, db[r]) /\ place \in Places
  BY RowFacts DEF DeliveryInv, DeliveryTypes, Places
<1>2. WritesRow(a, db[r], place)
  BY <1>1 DEF WritesRow, processVars, DeliveryInv, DeliveryTypes
<1>3. MayGo(a, db[r], place) /\ RowFollows(db[r], db[r]) /\ StaysOpen(a, db[r], place)
  BY DEF MayGo, RowFollows, StaysOpen, Unadmitted
<1> QED BY <1>1, <1>2, <1>3, WriteKeepsInv

\* The attempt that was admitted writes what became of its chunks.
LEMMA CompleteKeepsInv ==
  ASSUME DeliveryInv, NEW a \in Attempts, Complete(a)
  PROVE  DeliveryInv'
<1> DEFINE r == RunOf(a)
<1>1. PICK status \in {"suppressed", "delivered", "failed"} :
        /\ status = "delivered" => a \in receipts
        /\ db' = [db EXCEPT ![r].ledger = status]
        /\ Goto(a, IF status = "delivered" THEN "record" ELSE "finished")
        /\ pc[a] = "done"
        /\ UNCHANGED <<queueVars, slotVars, of, handlerVars, worldVars, processVars>>
  BY DEF Complete, Delivered
<1> DEFINE row == [db[r] EXCEPT !.ledger = status]
           place == IF status = "delivered" THEN "record" ELSE "finished"
<1>2. r \in Runs /\ db[r] \in Rows /\ RowIsTrue(r, db[r])
  BY <1>1, RowFacts DEF DeliveryInv, DeliveryTypes
<1>3. /\ row \in Rows /\ row.aggregate = db[r].aggregate /\ row.staged = db[r].staged
      /\ row.ledger = status /\ row.committed = db[r].committed /\ row.receipt = db[r].receipt
  BY <1>2 DEF Rows
<1>4. WritesRow(a, row, place)
  BY <1>1, <1>2 DEF WritesRow, processVars, DeliveryInv, DeliveryTypes
<1>5. status = "delivered" => r \in arrived
  BY <1>1 DEF DeliveryInv, AttemptInv, EvidenceArrived
<1>6. place \in Places /\ place \in {"record", "finished"} /\ (place = "record" => status = "delivered")
  BY DEF Places
<1> HIDE DEF row, place
<1>7. RowIsTrue(r, row) /\ RowFollows(db[r], row)
  BY <1>2, <1>3, <1>5, <1>1 DEF RowIsTrue, RowFollows
<1>8. MayGo(a, row, place) /\ StaysOpen(a, row, place)
  BY <1>1, <1>3, <1>5, <1>6 DEF MayGo, StaysOpen, Unadmitted
<1> QED BY <1>2, <1>3, <1>4, <1>6, <1>7, <1>8, WriteKeepsInv

\* What is recorded as delivered has arrived.
LEMMA RecordKeepsInv ==
  ASSUME DeliveryInv, NEW a \in Attempts, Record(a)
  PROVE  DeliveryInv'
<1> DEFINE r == RunOf(a)
           row == [db[r] EXCEPT !.committed = TRUE]
<1>1. pc[a] = "record" /\ r \in Runs /\ db[r] \in Rows /\ RowIsTrue(r, db[r]) /\ r \in arrived
  BY RowFacts DEF Record, DeliveryInv, DeliveryTypes, AttemptInv, EvidenceArrived
<1>2. /\ row \in Rows /\ row.aggregate = db[r].aggregate /\ row.staged = db[r].staged
      /\ row.ledger = db[r].ledger /\ row.receipt = db[r].receipt
  BY <1>1 DEF Rows
<1>3. WritesRow(a, row, "report")
  BY <1>1 DEF Record, WritesRow, processVars, DeliveryInv, DeliveryTypes
<1> HIDE DEF row
<1>4. RowIsTrue(r, row) /\ RowFollows(db[r], row) /\ MayGo(a, row, "report") /\ StaysOpen(a, row, "report")
  BY <1>1, <1>2 DEF RowIsTrue, RowFollows, MayGo, StaysOpen, Unadmitted
<1>5. "report" \in Places
  BY DEF Places
<1> QED BY <1>1, <1>2, <1>3, <1>4, <1>5, WriteKeepsInv

\* A report is final, and it is made for a text that arrived.
LEMMA ReportedFacts ==
  ASSUME NEW r \in Runs, NEW row \in Rows, RowIsTrue(r, row), r \in arrived,
         NEW receipt \in {"delivered", "duplicate", "startup"}
  PROVE  /\ Reported(row, receipt) \in Rows /\ RowIsTrue(r, Reported(row, receipt))
         /\ RowFollows(row, Reported(row, receipt))
         /\ Reported(row, receipt).aggregate = "reported"
         /\ Reported(row, receipt).receipt = receipt
<1> DEFINE new == Reported(row, receipt)
<1>1. /\ new \in Rows /\ new.aggregate = "reported" /\ new.staged = row.staged
      /\ new.ledger = row.ledger /\ new.committed = row.committed /\ new.receipt = receipt
  BY DEF Reported, Rows
<1> HIDE DEF new
<1>2. RowIsTrue(r, new) /\ RowFollows(row, new)
  BY <1>1 DEF RowIsTrue, RowFollows
<1> QED BY <1>1, <1>2 DEF new

\* The aggregate is reported once; a second report changes nothing.
LEMMA ReportKeepsInv ==
  ASSUME DeliveryInv, NEW a \in Attempts, Report(a)
  PROVE  DeliveryInv'
<1> DEFINE r == RunOf(a)
           receipt == IF pc[a] = "repeat" THEN "duplicate" ELSE "delivered"
           fresh == db[r].aggregate \in Undelivered
           row == IF fresh THEN Reported(db[r], receipt) ELSE db[r]
           place == IF fresh \/ db[r].receipt = receipt THEN "consume" ELSE "finished"
<1>1. /\ pc[a] \in {"report", "repeat"} /\ r \in Runs /\ db[r] \in Rows
      /\ RowIsTrue(r, db[r]) /\ r \in arrived
  BY RowFacts DEF Report, DeliveryInv, DeliveryTypes, AttemptInv, EvidenceArrived
<1>2. receipt \in {"delivered", "duplicate", "startup"} /\ receipt # "none"
  OBVIOUS
<1>3. row \in Rows /\ RowIsTrue(r, row) /\ RowFollows(db[r], row)
  BY <1>1, <1>2, ReportedFacts DEF RowFollows
<1>4. place \in {"consume", "finished"} /\ (place = "consume" => row.aggregate = "reported")
  BY <1>1, <1>2, ReportedFacts DEF RowIsTrue
<1>5. WritesRow(a, row, place)
  <2>1. db' = [db EXCEPT ![r] = row]
    BY <1>1 DEF Report, DeliveryInv, DeliveryTypes
  <2> QED BY <2>1 DEF Report, WritesRow, processVars
<1>6. StaysOpen(a, row, place)
  BY DEF StaysOpen, Undelivered
<1> HIDE DEF row, place
<1>7. MayGo(a, row, place)
  BY <1>1, <1>4 DEF MayGo, Unadmitted
<1>8. place \in Places
  BY <1>4 DEF Places
<1> QED BY <1>1, <1>3, <1>5, <1>6, <1>7, <1>8, WriteKeepsInv

\* A response is consumed once its run was reported.
LEMMA ConsumedKeepsInv ==
  ASSUME DeliveryInv, NEW a \in Attempts, pc[a] # "idle", db[RunOf(a)].aggregate = "reported",
         db' = [db EXCEPT ![RunOf(a)].staged = "consumed"], Goto(a, "finished"),
         UNCHANGED <<queueVars, slotVars, of, handlerVars, worldVars, processVars>>
  PROVE  DeliveryInv'
<1> DEFINE r == RunOf(a)
           row == [db[r] EXCEPT !.staged = "consumed"]
<1>1. r \in Runs /\ db[r] \in Rows /\ RowIsTrue(r, db[r])
  BY RowFacts DEF DeliveryInv, DeliveryTypes
<1>2. /\ row \in Rows /\ row.aggregate = "reported"
      /\ row.ledger = db[r].ledger /\ row.committed = db[r].committed /\ row.receipt = db[r].receipt
  BY <1>1 DEF Rows
<1>3. WritesRow(a, row, "finished")
  BY <1>1 DEF WritesRow, processVars, DeliveryInv, DeliveryTypes
<1> HIDE DEF row
<1>4. /\ RowIsTrue(r, row) /\ RowFollows(db[r], row)
      /\ MayGo(a, row, "finished") /\ StaysOpen(a, row, "finished")
  BY <1>1, <1>2 DEF RowIsTrue, RowFollows, MayGo, StaysOpen, Unadmitted
<1>5. "finished" \in Places
  BY DEF Places
<1> QED BY <1>1, <1>2, <1>3, <1>4, <1>5, WriteKeepsInv

\* A chunk that is sent becomes known to the queue, and no other.
LEMMA SendFacts ==
  ASSUME DeliveryInv, NEW a \in Attempts, NEW c \in Chunks, Enqueue(<<a, c>>)
  PROVE  /\ QueueInv' /\ ~Sent(a, c) /\ Sent(a, c)'
         /\ \A b \in Attempts, e \in Chunks : b # a \/ e # c => (Sent(b, e)' <=> Sent(b, e))
         /\ \A t \in Tasks : phase[t] # "new" => phase'[t] # "new"
<1>1. QueueInv /\ <<a, c>> \in Tasks
  BY ChunksAreTasks DEF DeliveryInv
<1>2. /\ QueueInv' /\ phase[<<a, c>>] = "new" /\ phase'[<<a, c>>] # "new"
      /\ \A u \in Tasks \ {<<a, c>>} : phase'[u] = phase[u]
  BY <1>1, EnqueueFacts
<1>3. \A b \in Attempts, e \in Chunks : b # a \/ e # c => <<b, e>> \in Tasks \ {<<a, c>>}
  BY ChunksAreTasks
<1> QED BY <1>2, <1>3 DEF Sent

\* The ledger admits an attempt only for a run that no attempt has sent anything
\* for.
LEMMA AdmittedKeepsInv ==
  ASSUME DeliveryInv, NEW a \in Attempts, pc[a] \in {"commit", "listed"},
         db[RunOf(a)].ledger = "none", db' = [db EXCEPT ![RunOf(a)].ledger = "started"],
         Enqueue(<<a, "text">>), Goto(a, "text"),
         UNCHANGED <<slotVars, of, handlerVars, worldVars, processVars>>
  PROVE  DeliveryInv'
<1> DEFINE r == RunOf(a)
           row == [db[r] EXCEPT !.ledger = "started"]
<1>1. r \in Runs /\ db[r] \in Rows /\ RowIsTrue(r, db[r])
  BY RowFacts DEF DeliveryInv, DeliveryTypes
<1>2. /\ row \in Rows /\ row.aggregate = db[r].aggregate /\ row.staged = db[r].staged
      /\ row.ledger = "started" /\ row.committed = db[r].committed /\ row.receipt = db[r].receipt
  BY <1>1 DEF Rows
<1>3. /\ db' \in [Runs -> Rows] /\ db'[r] = row /\ \A q \in Runs \ {r} : db'[q] = db[q]
      /\ pc' \in [Attempts -> Places] /\ pc'[a] = "text"
      /\ \A b \in Attempts \ {a} : pc'[b] = pc[b]
  BY <1>1, <1>2 DEF DeliveryInv, DeliveryTypes, Goto, Places
<1>4. /\ UNCHANGED <<job, task, running, pending, of, calling, receipts, calls, arrived, crashes>>
      /\ \A b \in Attempts : RunOf(b)' = RunOf(b)
  BY DEF slotVars, handlerVars, worldVars, processVars, RunOf
<1>5. /\ QueueInv' /\ ~Sent(a, "text") /\ Sent(a, "text")'
      /\ \A b \in Attempts, e \in Chunks : b # a \/ e # "text" => (Sent(b, e)' <=> Sent(b, e))
      /\ \A t \in Tasks : phase[t] # "new" => phase'[t] # "new"
  BY SendFacts DEF Chunks
<1> HIDE DEF row
<1>6. /\ \A b \in Attempts : Sent(b, "done")' <=> Sent(b, "done")
      /\ \A b \in Attempts \ {a} : Sent(b, "text")' <=> Sent(b, "text")
  BY <1>5 DEF Chunks
<1>7. JobTypes' /\ SlotInv'
  BY <1>4 DEF DeliveryInv, JobTypes, SlotInv, SlotsAreExact
<1>8. DeliveryTypes'
  BY <1>3, <1>4 DEF DeliveryInv, DeliveryTypes
<1>9. ChunksInOrder'
  <2>1. ChunksInOrder
    BY DEF DeliveryInv, AttemptInv
  <2>2. \A t \in Tasks : job[t] # "new" => phase'[t] # "new"
    BY <1>5, <2>1 DEF ChunksInOrder
  <2>3. \A b \in Attempts : Sent(b, "done")' => Sent(b, "text")'
    BY <1>5, <1>6, <2>1 DEF ChunksInOrder
  <2>4. \A b \in Attempts : b \in receipts => Sent(b, "text")'
    BY <1>5, <1>6, <2>1 DEF ChunksInOrder
  <2>5. \A b \in Attempts : Sent(b, "text")' => pc'[b] \notin Unadmitted
    BY <1>3, <1>6, <2>1 DEF ChunksInOrder, Unadmitted
  <2> QED BY <1>4, <2>1, <2>2, <2>3, <2>4, <2>5 DEF ChunksInOrder
<1>10. \A b \in Attempts : Sent(b, "text") => RunOf(b) # r
  BY DEF DeliveryInv, AttemptInv, AdmittedOnce
<1>11. AdmittedOnce'
  <2>1. \A b, c \in Attempts :
          Sent(b, "text")' /\ Sent(c, "text")' /\ RunOf(b) = RunOf(c) => b = c
    BY <1>6, <1>10 DEF DeliveryInv, AttemptInv, AdmittedOnce
  <2>2. ASSUME NEW b \in Attempts, Sent(b, "text")' PROVE db'[RunOf(b)].ledger # "none"
    <3>1. CASE b = a
      BY <1>2, <1>3, <3>1
    <3>2. CASE b # a
      <4>1. Sent(b, "text") /\ RunOf(b) \in Runs \ {r}
        BY <1>6, <1>10, <2>2, <3>2
        DEF DeliveryInv, DeliveryTypes, AttemptInv, ChunksInOrder, Unadmitted
      <4> QED BY <1>3, <4>1 DEF DeliveryInv, AttemptInv, AdmittedOnce
    <3> QED BY <3>1, <3>2
  <2> QED BY <1>4, <2>1, <2>2 DEF AdmittedOnce
<1>12. CallIsMarked' /\ OneFinalPerRun'
  <2>1. ~(calls[r] > 0)
    BY <1>1 DEF DeliveryInv, AttemptInv, CallIsMarked
  <2>2. ASSUME NEW q \in Runs, calls[q] > 0
        PROVE  /\ db'[q].ledger # "none"
               /\ \A b \in Attempts : RunOf(b) = q /\ Sent(b, "text")' => task[<<b, "done">>] # "idle"
    <3>1. q # r
      BY <2>1, <2>2
    <3>2. /\ db[q].ledger # "none"
          /\ \A b \in Attempts : RunOf(b) = q /\ Sent(b, "text") => task[<<b, "done">>] # "idle"
      BY <2>2 DEF DeliveryInv, AttemptInv, CallIsMarked
    <3> QED BY <1>3, <1>6, <3>1, <3>2
  <2> QED BY <1>4, <2>2 DEF DeliveryInv, AttemptInv, CallIsMarked, OneFinalPerRun
<1>13. EvidenceArrived'
  <2>1. \A q \in Runs : db'[q].ledger = "delivered" \/ db'[q].committed => q \in arrived
    BY <1>1, <1>2, <1>3 DEF RowIsTrue, DeliveryInv, AttemptInv, EvidenceArrived
  <2>2. \A b \in Attempts : pc'[b] \in {"record", "report", "repeat"} => RunOf(b) \in arrived
    BY <1>3 DEF DeliveryInv, AttemptInv, EvidenceArrived
  <2> QED BY <1>4, <2>1, <2>2 DEF DeliveryInv, AttemptInv, EvidenceArrived
<1>14. \A q \in Runs : /\ db'[q].aggregate = db[q].aggregate /\ db'[q].staged = db[q].staged
                       /\ db'[q].receipt = db[q].receipt
  BY <1>2, <1>3
<1>15. ReportedForGood' /\ ClosedMeansArrived'
  <2>1. \A b \in Attempts : pc'[b] = "consume" => pc[b] = "consume" /\ RunOf(b) \in Runs
    BY <1>3 DEF DeliveryInv, DeliveryTypes
  <2>2. \A q \in Runs : pc'[q] = "working" => pc[q] = "working"
    BY <1>3, ChunksAreTasks
  <2> QED BY <1>4, <1>14, <2>1, <2>2 DEF DeliveryInv, AttemptInv, ReportedForGood, ClosedMeansArrived
<1> QED BY <1>5, <1>7, <1>8, <1>9, <1>11, <1>12, <1>13, <1>15 DEF DeliveryInv, AttemptInv

\* Whatever admission decides.
LEMMA AdmitKeepsInv ==
  ASSUME DeliveryInv, NEW a \in Attempts, pc[a] \in {"commit", "listed"}, Admit(a)
  PROVE  DeliveryInv'
<1> DEFINE r == RunOf(a)
<1>1. r \in Runs /\ RowIsTrue(r, db[r])
  BY RowFacts DEF DeliveryInv, DeliveryTypes
<1>2. UNCHANGED <<slotVars, of, handlerVars, worldVars, processVars>>
  BY DEF Admit
<1>3. CASE db[r].committed /\ Goto(a, "repeat") /\ UNCHANGED <<db, queueVars>>
  BY <1>1, <1>2, <1>3, TurnedAwayKeepsInv DEF RowIsTrue
<1>4. CASE /\ MayReserve(r) /\ db' = [db EXCEPT ![r].ledger = "started"]
           /\ Enqueue(<<a, "text">>) /\ Goto(a, "text")
  BY <1>2, <1>4, AdmittedKeepsInv DEF MayReserve
<1>5. CASE db[r].ledger = "delivered" /\ Goto(a, "record") /\ UNCHANGED <<db, queueVars>>
  BY <1>1, <1>2, <1>5, TurnedAwayKeepsInv DEF RowIsTrue
<1>6. CASE Goto(a, "finished") /\ UNCHANGED <<db, queueVars>>
  BY <1>2, <1>6, TurnedAwayKeepsInv
<1> QED BY <1>3, <1>4, <1>5, <1>6 DEF Admit

\* A replay takes a response to admission, or consumes it if it was reported.
LEMMA TakeKeepsInv ==
  ASSUME DeliveryInv, NEW p \in Replays, Take(p)
  PROVE  DeliveryInv'
<1>1. p \in Attempts /\ RunOf(p) = of[p] /\ pc[p] = "listed"
  BY DeliveryAssumption DEF Take, RunOf, Attempts
<1>2. CASE AlreadyReported(of[p])
  BY <1>1, <1>2, ConsumedKeepsInv DEF Take, AlreadyReported
<1>3. CASE ~AlreadyReported(of[p])
  BY <1>1, <1>3, AdmitKeepsInv DEF Take
<1> QED BY <1>2, <1>3

\* A replay that has sent nothing chooses its run.
LEMMA ListPendingKeepsInv ==
  ASSUME DeliveryInv, NEW p \in Replays, ListPending(p)
  PROVE  DeliveryInv'
<1>1. PICK r \in Runs : db[r].staged = "pending" /\ of' = [of EXCEPT ![p] = r]
  BY DEF ListPending
<1>2. /\ pc[p] = "idle" /\ Goto(p, "listed") /\ p \in Attempts /\ p \notin Runs
      /\ UNCHANGED <<queueVars, slotVars, db, handlerVars, worldVars, processVars>>
  BY DeliveryAssumption DEF ListPending, Attempts
<1>3. /\ UNCHANGED <<phase, db, job, task, running, pending, calling, receipts, calls, arrived, crashes>>
      /\ DOMAIN of = Replays
  BY <1>2 DEF queueVars, slotVars, handlerVars, worldVars, processVars, DeliveryInv, DeliveryTypes
<1>4. /\ pc' \in [Attempts -> Places] /\ pc'[p] = "listed" /\ \A b \in Attempts \ {p} : pc'[b] = pc[b]
  BY <1>2 DEF Goto, DeliveryInv, DeliveryTypes, Places
<1>5. DOMAIN of' = Replays /\ RunOf(p)' = r /\ \A b \in Attempts \ {p} : RunOf(b)' = RunOf(b)
  BY <1>1, <1>2, <1>3 DEF RunOf, Attempts
<1>6. \A a \in Attempts, c \in Chunks : Sent(a, c)' <=> Sent(a, c)
  BY <1>3 DEF Sent
<1>7. ~Sent(p, "text") /\ ~Sent(p, "done") /\ p \notin receipts
  BY <1>2 DEF DeliveryInv, AttemptInv, ChunksInOrder, Unadmitted
<1>8. /\ \A b \in Attempts : Sent(b, "text")' <=> Sent(b, "text")
      /\ \A b \in Attempts : Sent(b, "done")' <=> Sent(b, "done")
  BY <1>6 DEF Chunks
<1>9. QueueInv' /\ JobTypes' /\ SlotInv'
  BY <1>2, <1>3, QueueUntouched DEF DeliveryInv, JobTypes, SlotInv, SlotsAreExact
<1>10. DeliveryTypes'
  BY <1>1, <1>3, <1>4, <1>5 DEF DeliveryInv, DeliveryTypes
<1>11. ChunksInOrder'
  BY <1>3, <1>4, <1>7, <1>8 DEF DeliveryInv, AttemptInv, ChunksInOrder
<1>12. \A b \in Attempts : Sent(b, "text") => b # p /\ RunOf(b)' = RunOf(b)
  BY <1>5, <1>7
<1>13. AdmittedOnce' /\ CallIsMarked' /\ OneFinalPerRun'
  BY <1>3, <1>8, <1>12
  DEF DeliveryInv, AttemptInv, AdmittedOnce, CallIsMarked, OneFinalPerRun
<1>14. EvidenceArrived'
  BY <1>3, <1>4, <1>5, <1>7 DEF DeliveryInv, AttemptInv, EvidenceArrived
<1>15. \A q \in Runs : pc'[q] = pc[q]
  BY <1>2, <1>4, ChunksAreTasks
<1>16. ReportedForGood' /\ ClosedMeansArrived'
  BY <1>3, <1>4, <1>5, <1>15
  DEF DeliveryInv, AttemptInv, ReportedForGood, ClosedMeansArrived
<1> QED BY <1>9, <1>10, <1>11, <1>13, <1>14, <1>16 DEF DeliveryInv, AttemptInv

\* The done chunk follows the text of the attempt, whose run was not called yet.
LEMMA TextSentKeepsInv ==
  ASSUME DeliveryInv, NEW a \in Attempts, TextSent(a)
  PROVE  DeliveryInv'
<1>1. /\ pc[a] = "text" /\ Enqueue(<<a, "done">>) /\ Goto(a, "done")
      /\ phase[<<a, "text">>] \in {"settled", "released"}
      /\ UNCHANGED <<slotVars, db, of, handlerVars, worldVars, processVars>>
  BY DEF TextSent, Answered
<1>2. /\ UNCHANGED <<db, job, task, running, pending, of, calling, receipts, calls, arrived, crashes>>
      /\ \A b \in Attempts : RunOf(b)' = RunOf(b)
  BY <1>1 DEF slotVars, handlerVars, worldVars, processVars, RunOf
<1>3. /\ QueueInv' /\ ~Sent(a, "done") /\ Sent(a, "done")'
      /\ \A b \in Attempts, e \in Chunks : b # a \/ e # "done" => (Sent(b, e)' <=> Sent(b, e))
      /\ \A t \in Tasks : phase[t] # "new" => phase'[t] # "new"
  BY <1>1, SendFacts DEF Chunks
<1>4. /\ \A b \in Attempts : Sent(b, "text")' <=> Sent(b, "text")
      /\ \A b \in Attempts \ {a} : Sent(b, "done")' <=> Sent(b, "done")
      /\ Sent(a, "text")
  BY <1>1, <1>3 DEF Chunks, Sent
<1>5. pc' \in [Attempts -> Places] /\ pc'[a] = "done" /\ \A b \in Attempts \ {a} : pc'[b] = pc[b]
  BY <1>1 DEF Goto, DeliveryInv, DeliveryTypes, Places
<1>6. JobTypes' /\ SlotInv' /\ DeliveryTypes'
  BY <1>1, <1>2, <1>5 DEF DeliveryInv, JobTypes, SlotInv, SlotsAreExact, DeliveryTypes
<1>7. ChunksInOrder'
  <2>1. ChunksInOrder
    BY DEF DeliveryInv, AttemptInv
  <2>2. \A t \in Tasks : job[t] # "new" => phase'[t] # "new"
    BY <1>3, <2>1 DEF ChunksInOrder
  <2>3. \A b \in Attempts : Sent(b, "done")' => Sent(b, "text")'
    BY <1>4, <2>1 DEF ChunksInOrder
  <2>4. \A b \in Attempts : Sent(b, "text")' => pc'[b] \notin Unadmitted
    BY <1>4, <1>5, <2>1 DEF ChunksInOrder, Unadmitted
  <2> QED BY <1>2, <1>4, <2>1, <2>2, <2>3, <2>4 DEF ChunksInOrder
<1>8. AdmittedOnce' /\ CallIsMarked' /\ OneFinalPerRun'
  BY <1>2, <1>4 DEF DeliveryInv, AttemptInv, AdmittedOnce, CallIsMarked, OneFinalPerRun
<1>9. EvidenceArrived'
  BY <1>2, <1>5 DEF DeliveryInv, AttemptInv, EvidenceArrived
<1>10. \A q \in Runs : pc'[q] = "working" => pc[q] = "working"
  BY <1>5, ChunksAreTasks
<1>11. ReportedForGood' /\ ClosedMeansArrived'
  BY <1>2, <1>5, <1>10 DEF DeliveryInv, AttemptInv, ReportedForGood, ClosedMeansArrived
<1> QED BY <1>3, <1>6, <1>7, <1>8, <1>9, <1>11 DEF DeliveryInv, AttemptInv

\* A chunk whose work has begun was sent, and so was the text of its attempt.
LEMMA WorkFacts ==
  ASSUME DeliveryInv, NEW t \in Attempts \X Chunks, job[t] # "new" \/ task[t] # "idle"
  PROVE  /\ t[1] \in Attempts /\ t[2] \in Chunks /\ t = <<t[1], t[2]>> /\ t \in Tasks /\ t \in Jobs
         /\ Sent(t[1], "text") /\ RunOf(t[1]) \in Runs /\ db[RunOf(t[1])].ledger # "none"
<1>1. PICK a \in Attempts, c \in Chunks : t = <<a, c>>
  OBVIOUS
<1>2. t \in Tasks /\ t \in Jobs /\ t[1] = a /\ t[2] = c
  BY <1>1, ChunksAreTasks
<1>3. Sent(a, c) /\ c \in {"text", "done"}
  BY <1>1, <1>2 DEF DeliveryInv, AttemptInv, ChunksInOrder, Sent, Chunks
<1>4. Sent(a, "text")
  BY <1>3 DEF DeliveryInv, AttemptInv, ChunksInOrder
<1>5. pc[a] \notin Unadmitted /\ db[RunOf(a)].ledger # "none"
  BY <1>4 DEF DeliveryInv, AttemptInv, ChunksInOrder, AdmittedOnce
<1>6. RunOf(a) \in Runs
  BY <1>5 DEF DeliveryInv, DeliveryTypes, Unadmitted
<1> QED BY <1>1, <1>2, <1>4, <1>5, <1>6

\* The provider is called by the done chunk of the attempt that was admitted,
\* when its work begins; it has not been called for the run before.
LEMMA ChunkStartsKeepsInv ==
  ASSUME DeliveryInv, NEW t \in Attempts \X Chunks, ChunkStarts(t)
  PROVE  DeliveryInv'
<1> DEFINE a == t[1]
           r == RunOf(a)
           stop == CancellationBlocks(r)
           sends == ~stop /\ t[2] = "done" /\ a \in buffered
<1>1. /\ job[t] = "running" /\ task[t] = "idle"
      /\ \/ Slot!TaskStarts(t)
         \/ Slot!TaskReturnsAtOnce(t, "resolved") \/ Slot!TaskReturnsAtOnce(t, "rejected")
  BY DEF ChunkStarts, Slot!TaskStarts, Slot!TaskReturnsAtOnce
<1>2. \/ t = <<a, "done">> /\ calling' = calling \union {t} /\ calls' = [calls EXCEPT ![r] = @ + 1]
      \/ calling' = calling /\ calls' = calls
  BY DEF ChunkStarts
<1>3. /\ UNCHANGED <<queueVars, phase, db, pc, of, receipts, arrived, crashes>>
      /\ \A b \in Attempts : RunOf(b)' = RunOf(b)
      /\ \A b \in Attempts, c \in Chunks : Sent(b, c)' <=> Sent(b, c)
      /\ \A b \in Attempts : Sent(b, "text")' <=> Sent(b, "text")
  BY DEF ChunkStarts, queueVars, processVars, RunOf, Sent
<1>4. /\ a \in Attempts /\ t \in Tasks /\ t \in Jobs
      /\ Sent(a, "text") /\ r \in Runs /\ db[r].ledger # "none"
  BY <1>1, WorkFacts
<1>5. JobTypes' /\ SlotInv' /\ TaskMoves(t) /\ UNCHANGED <<job, running, pending>>
  BY <1>1, <1>4, TaskKeepsSlots DEF DeliveryInv
<1>6. QueueInv'
  BY <1>3, QueueUntouched DEF DeliveryInv
<1>7. calls \in [Runs -> Nat] /\ calling \subseteq Attempts \X Chunks
  BY DEF DeliveryInv, DeliveryTypes
<1> HIDE DEF a, r
<1>8. DeliveryTypes'
  <2>1. calls' \in [Runs -> Nat] /\ calling' \subseteq Attempts \X Chunks
    BY <1>2, <1>4, <1>7
  <2> QED BY <1>3, <2>1 DEF DeliveryInv, DeliveryTypes
<1>9. ChunksInOrder'
  <2>1. ChunksInOrder
    BY DEF DeliveryInv, AttemptInv
  <2>2. \A u \in Tasks : task'[u] # "idle" => job'[u] # "new"
    BY <1>1, <1>5, <2>1, ChunksAreTasks DEF ChunksInOrder, TaskMoves
  <2>3. \A u \in calling' : task'[u] # "idle"
    BY <1>2, <1>5, <1>7, <2>1, ChunksAreTasks DEF ChunksInOrder, TaskMoves
  <2> QED BY <1>3, <1>5, <2>1, <2>2, <2>3 DEF ChunksInOrder, Sent
<1>10. AdmittedOnce'
  BY <1>3 DEF DeliveryInv, AttemptInv, AdmittedOnce
<1>11. \A u \in Jobs : task[u] # "idle" => task'[u] # "idle"
  BY <1>5 DEF TaskMoves
<1>12. CallIsMarked' /\ OneFinalPerRun'
  <2>1. CASE calls' = calls
    <3>1. \A b \in Attempts : task[<<b, "done">>] # "idle" => task'[<<b, "done">>] # "idle"
      BY <1>11, ChunksAreTasks DEF Chunks
    <3> QED BY <1>3, <2>1, <3>1 DEF DeliveryInv, AttemptInv, CallIsMarked, OneFinalPerRun
  <2>2. CASE t = <<a, "done">> /\ calls' = [calls EXCEPT ![r] = @ + 1]
    <3>1. calls[r] = 0
      BY <1>1, <1>4, <1>7, <2>2 DEF r, DeliveryInv, AttemptInv, CallIsMarked
    <3>2. calls'[r] = 1 /\ \A q \in Runs \ {r} : calls'[q] = calls[q]
      BY <1>4, <1>7, <2>2, <3>1
    <3>3. OneFinalPerRun'
      BY <3>2 DEF DeliveryInv, AttemptInv, OneFinalPerRun
    <3>4. ASSUME NEW b \in Attempts, RunOf(b) = r, Sent(b, "text")
          PROVE  task'[<<b, "done">>] # "idle"
      <4>1. b = a
        BY <1>4, <3>4 DEF r, DeliveryInv, AttemptInv, AdmittedOnce
      <4> QED BY <1>5, <2>2, <4>1 DEF TaskMoves
    <3>5. ASSUME NEW q \in Runs \ {r}, calls[q] > 0, NEW b \in Attempts, RunOf(b) = q, Sent(b, "text")
          PROVE  task'[<<b, "done">>] # "idle"
      <4>1. task[<<b, "done">>] # "idle" /\ <<b, "done">> \in Jobs
        BY <3>5, ChunksAreTasks DEF DeliveryInv, AttemptInv, CallIsMarked, Chunks
      <4> QED BY <1>11, <4>1
    <3>6. \A q \in Runs : calls'[q] > 0 => db[q].ledger # "none"
      BY <1>4, <3>2 DEF DeliveryInv, AttemptInv, CallIsMarked
    <3>7. CallIsMarked'
      BY <1>3, <3>2, <3>4, <3>5, <3>6 DEF CallIsMarked
    <3> QED BY <3>3, <3>7
  <2> QED BY <1>2, <2>1, <2>2
<1>13. EvidenceArrived' /\ ReportedForGood' /\ ClosedMeansArrived'
  BY <1>3 DEF DeliveryInv, AttemptInv, EvidenceArrived, ReportedForGood, ClosedMeansArrived
<1> QED BY <1>5, <1>6, <1>8, <1>9, <1>10, <1>12, <1>13 DEF DeliveryInv, AttemptInv

\* The receipt comes back for a text that arrived.
LEMMA CallReturnsKeepsInv ==
  ASSUME DeliveryInv, NEW t \in Attempts \X Chunks, CallReturns(t)
  PROVE  DeliveryInv'
<1> DEFINE a == t[1]
<1>1. t \in calling /\ Slot!TaskSettles(t) /\ calling' = calling \ {t} /\ t \in Jobs
  BY ChunksAreTasks DEF CallReturns
<1>2. task[t] # "idle"
  BY <1>1 DEF DeliveryInv, AttemptInv, ChunksInOrder
<1>3. a \in Attempts /\ RunOf(a) \in Runs /\ Sent(a, "text")
  BY <1>2, WorkFacts
<1>4. /\ UNCHANGED <<queueVars, phase, db, pc, of, calls, crashes>>
      /\ \A b \in Attempts : RunOf(b)' = RunOf(b)
      /\ \A b \in Attempts, c \in Chunks : Sent(b, c)' <=> Sent(b, c)
      /\ \A b \in Attempts : Sent(b, "text")' <=> Sent(b, "text")
  BY DEF CallReturns, queueVars, processVars, RunOf, Sent
<1>5. /\ receipts' = receipts \/ (receipts' = receipts \union {a} /\ RunOf(a) \in arrived')
      /\ arrived' = arrived \/ arrived' = arrived \union {RunOf(a)}
  BY DEF CallReturns
<1>6. JobTypes' /\ SlotInv' /\ TaskMoves(t) /\ UNCHANGED <<job, running, pending>>
  BY <1>1, TaskKeepsSlots DEF DeliveryInv
<1>7. QueueInv'
  BY <1>4, QueueUntouched DEF DeliveryInv
<1> HIDE DEF a
<1>8. receipts' \subseteq Attempts /\ arrived' \subseteq Runs /\ arrived \subseteq arrived'
  BY <1>3, <1>5 DEF DeliveryInv, DeliveryTypes
<1>9. DeliveryTypes'
  BY <1>1, <1>4, <1>8 DEF DeliveryInv, DeliveryTypes
<1>10. \A u \in Jobs : task[u] # "idle" => task'[u] # "idle"
  BY <1>6 DEF TaskMoves
<1>11. ChunksInOrder'
  <2>1. ChunksInOrder /\ calling \subseteq Attempts \X Chunks
    BY DEF DeliveryInv, AttemptInv, DeliveryTypes
  <2>2. job[t] # "new"
    BY <1>2, <2>1, ChunksAreTasks DEF ChunksInOrder
  <2>3. \A u \in Tasks : task'[u] # "idle" => job'[u] # "new"
    BY <1>6, <2>1, <2>2, ChunksAreTasks DEF ChunksInOrder, TaskMoves
  <2>4. \A u \in calling' : task'[u] # "idle"
    BY <1>1, <1>10, <2>1, ChunksAreTasks DEF ChunksInOrder
  <2>5. \A b \in Attempts : b \in receipts' => Sent(b, "text")'
    BY <1>3, <1>4, <1>5, <2>1 DEF ChunksInOrder
  <2> QED BY <1>4, <1>6, <2>1, <2>3, <2>4, <2>5 DEF ChunksInOrder, Sent
<1>12. AdmittedOnce'
  BY <1>4 DEF DeliveryInv, AttemptInv, AdmittedOnce
<1>13. CallIsMarked' /\ OneFinalPerRun'
  <2>1. \A b \in Attempts : task[<<b, "done">>] # "idle" => task'[<<b, "done">>] # "idle"
    BY <1>10, ChunksAreTasks DEF Chunks
  <2> QED BY <1>4, <2>1 DEF DeliveryInv, AttemptInv, CallIsMarked, OneFinalPerRun
<1>14. EvidenceArrived'
  BY <1>4, <1>5, <1>8 DEF DeliveryInv, AttemptInv, EvidenceArrived
<1>15. ReportedForGood' /\ ClosedMeansArrived'
  BY <1>4, <1>8 DEF DeliveryInv, AttemptInv, ReportedForGood, ClosedMeansArrived
<1> QED BY <1>6, <1>7, <1>9, <1>11, <1>12, <1>13, <1>14, <1>15 DEF DeliveryInv, AttemptInv

\* The steps of the queues: arrivals of progress and of the chunks of other
\* sessions, turns, offers, answers and releases.
LEMMA QueueStepKeepsInv ==
  ASSUME DeliveryInv,
         \/ \E g \in Progress : ProgressSent(g)
         \/ \E t \in Tasks : TurnComes(t) \/ SendEnds(t) \/ SendReleased(t)
  PROVE  DeliveryInv'
<1>1. UNCHANGED <<slotVars, db, pc, of, handlerVars, worldVars, crashes>>
  BY DEF ProgressSent, TurnComes, SendEnds, SendReleased, processVars
<1>2. JobTypes' /\ SlotInv'
  BY <1>1 DEF slotVars, DeliveryInv, JobTypes, SlotInv, SlotsAreExact
<1>3. /\ QueueInv'
      /\ \A u \in Tasks : phase[u] # "new" => phase'[u] # "new"
      /\ \A u \in Attempts \X Chunks : phase'[u] = "new" <=> phase[u] = "new"
  <2>1. CASE \E g \in Progress : ProgressSent(g)
    <3>1. PICK g \in Progress : Enqueue(g)
      BY <2>1 DEF ProgressSent
    <3>2. g \in Tasks /\ Attempts \X Chunks \subseteq Tasks \ {g}
      BY DeliveryAssumption
    <3>3. QueueInv' /\ phase'[g] # "new" /\ \A u \in Tasks \ {g} : phase'[u] = phase[u]
      BY <3>1, <3>2, EnqueueFacts DEF DeliveryInv
    <3> QED BY <3>2, <3>3
  <2>2. CASE \E t \in Tasks : TurnComes(t) \/ SendEnds(t) \/ SendReleased(t)
    <3>1. PICK t \in Tasks : QueueStep(t)
      BY <2>2 DEF TurnComes, SendEnds, SendReleased, QueueStep
    <3>2. QueueInv' /\ \A u \in Tasks : phase'[u] = "new" <=> phase[u] = "new"
      BY <3>1, ProceedFacts DEF DeliveryInv
    <3>3. Attempts \X Chunks \subseteq Tasks
      BY ChunksAreTasks
    <3> QED BY <3>2, <3>3
  <2> QED BY <2>1, <2>2
<1>4. job' = job /\ task' = task
  BY <1>1 DEF slotVars
<1>5. \A u \in Tasks : job'[u] # "new" => phase'[u] # "new"
  BY <1>3, <1>4 DEF DeliveryInv, AttemptInv, ChunksInOrder
<1>6. Quiet
  BY <1>1, <1>3, <1>4, <1>5 DEF Quiet
<1> QED BY <1>2, <1>3, <1>6, QuietKeepsAttempts DEF DeliveryInv

\* Offers and answers move jobs through the slots of the delivery queue.
LEMMA SlotStepKeepsInv ==
  ASSUME DeliveryInv,
         \/ \E o \in Others : OtherOffers(o)
         \/ \E t \in Tasks : Offer(t)
         \/ \E t \in Tasks \ Progress : JobAnswered(t)
         \/ \E t \in Unrelated : OtherAnswered(t)
  PROVE  DeliveryInv'
<1>1. UNCHANGED <<queueVars, phase, db, pc, of, handlerVars, worldVars, crashes>>
  BY DEF OtherOffers, Offer, JobAnswered, OtherAnswered, processVars, queueVars
<1>2. QueueInv'
  BY <1>1, QueueUntouched DEF DeliveryInv
<1>3. JobTypes /\ SlotInv /\ Others \intersect Tasks = {} /\ Tasks \subseteq Jobs /\ Others \subseteq Jobs
  BY DeliveryAssumption DEF DeliveryInv, Jobs
<1>4. /\ JobTypes' /\ SlotInv' /\ UNCHANGED task
      /\ \A u \in Tasks : job[u] # "new" => job'[u] # "new"
      /\ \A u \in Tasks : job'[u] # "new" => job[u] # "new" \/ phase[u] # "new"
  <2>1. ASSUME NEW o \in Others, OtherOffers(o)
        PROVE  JobTypes' /\ SlotInv' /\ UNCHANGED task /\ \A u \in Tasks : job'[u] = "new" <=> job[u] = "new"
    <3>1. o \in Jobs /\ Tasks \subseteq Jobs \ {o} /\ Slot!Enqueue(o)
      BY <1>3, <2>1 DEF OtherOffers
    <3> QED BY <1>3, <3>1, EnqueueKeepsSlots
  <2>2. ASSUME NEW t \in Tasks, Offer(t)
        PROVE  /\ JobTypes' /\ SlotInv' /\ UNCHANGED task /\ phase[t] # "new" /\ job[t] = "new"
               /\ \A u \in Tasks \ {t} : job'[u] = "new" <=> job[u] = "new"
    <3>1. t \in Jobs /\ Tasks \ {t} \subseteq Jobs \ {t} /\ phase[t] = "running" /\ job[t] = "new"
      BY <1>3, <2>2 DEF Offer
    <3>2. CASE Slot!Enqueue(t)
      BY <1>3, <3>1, <3>2, EnqueueKeepsSlots
    <3>3. CASE Slot!Reject(t)
      BY <1>3, <3>1, <3>3, RejectKeepsSlots
    <3> QED BY <2>2, <3>2, <3>3 DEF Offer
  <2>3. ASSUME NEW t \in Tasks, JobAnswered(t)
        PROVE  JobTypes' /\ SlotInv' /\ UNCHANGED task /\ \A u \in Tasks : job'[u] = "new" <=> job[u] = "new"
    <3>1. PICK outcome \in Slot!Outcomes : job[t] = "running" /\ Slot!Answer(t, outcome)
      BY <2>3 DEF JobAnswered, Slot!TaskWins, Slot!TimerWins, Slot!Outcomes
    <3> QED BY <1>3, <3>1, AnswerKeepsSlots
  <2>4. ASSUME NEW t \in Unrelated, OtherAnswered(t)
        PROVE  JobTypes' /\ SlotInv' /\ UNCHANGED task /\ \A u \in Tasks : job'[u] = "new" <=> job[u] = "new"
    <3>1. t \in Jobs
      BY DeliveryAssumption DEF Unrelated, Jobs
    <3>2. "resolved" \in Slot!Outcomes
      BY DEF Slot!Outcomes
    <3> QED BY <1>3, <2>4, <3>1, <3>2, AnswerKeepsSlots DEF OtherAnswered
  <2> QED BY <2>1, <2>2, <2>3, <2>4
<1>5. \A u \in Tasks : job'[u] # "new" => phase'[u] # "new"
  BY <1>1, <1>4 DEF DeliveryInv, AttemptInv, ChunksInOrder
<1>6. Quiet
  BY <1>1, <1>4, <1>5 DEF Quiet
<1> QED BY <1>2, <1>4, <1>6, QuietKeepsAttempts DEF DeliveryInv

\* A crash empties the queues and ends the attempts; the rows stay, and what was
\* on the wire may arrive.
LEMMA CrashKeepsInv ==
  ASSUME DeliveryInv, Crash
  PROVE  DeliveryInv'
<1>1. Init' /\ Slot!Init'
  BY DEF Crash, Init, Slot!Init
<1>2. QueueInv'
  <2>1. Init' => QueueInv'
    BY InitInv, PTL
  <2> QED BY <1>1, <2>1
<1>3. JobTypes' /\ SlotInv'
  <2>1. Slot!Init' => JobTypes' /\ SlotInv'
    BY EmptySlots, PTL
  <2> QED BY <1>1, <2>1
<1>4. \A t \in Tasks : phase'[t] = "new" /\ job'[t] = "new" /\ task'[t] = "idle"
  BY DEF Crash
<1>5. \A a \in Attempts : ~Sent(a, "text")' /\ ~Sent(a, "done")'
  BY <1>4, ChunksAreTasks DEF Sent, Chunks
<1>6. /\ calling' = {} /\ receipts' = {} /\ UNCHANGED <<db, of, calls>>
      /\ pc' = [a \in Attempts |-> IF pc[a] \in {"idle", "finished"} THEN pc[a] ELSE "lost"]
      /\ crashes' = crashes + 1
      /\ \E landed \in SUBSET {RunOf(t[1]) : t \in calling} : arrived' = arrived \union landed
  BY DEF Crash
<1>7. \A b \in Attempts : RunOf(b)' = RunOf(b)
  BY <1>6 DEF RunOf
<1>8. \A t \in calling : RunOf(t[1]) \in Runs
  <2> SUFFICES ASSUME NEW t \in calling PROVE RunOf(t[1]) \in Runs
    OBVIOUS
  <2>1. t \in Attempts \X Chunks /\ t \in Tasks
    BY ChunksAreTasks DEF DeliveryInv, DeliveryTypes
  <2>2. task[t] # "idle"
    BY <2>1 DEF DeliveryInv, AttemptInv, ChunksInOrder
  <2> QED BY <2>1, <2>2, WorkFacts
<1>9. arrived' \subseteq Runs /\ arrived \subseteq arrived'
  BY <1>6, <1>8 DEF DeliveryInv, DeliveryTypes
<1>10. /\ pc' \in [Attempts -> Places]
       /\ \A a \in Attempts : pc'[a] \in {"idle", "finished", "lost"} /\ (pc'[a] = "idle" <=> pc[a] = "idle")
  BY <1>6 DEF DeliveryInv, DeliveryTypes, Places
<1>11. DeliveryTypes'
  BY <1>6, <1>7, <1>9, <1>10 DEF DeliveryInv, DeliveryTypes
<1>12. ChunksInOrder' /\ AdmittedOnce'
  BY <1>4, <1>5, <1>6 DEF ChunksInOrder, AdmittedOnce
<1>13. CallIsMarked' /\ OneFinalPerRun'
  BY <1>5, <1>6 DEF DeliveryInv, AttemptInv, CallIsMarked, OneFinalPerRun
<1>14. EvidenceArrived' /\ ClosedMeansArrived'
  BY <1>6, <1>9, <1>10 DEF DeliveryInv, AttemptInv, EvidenceArrived, ClosedMeansArrived
<1>15. ReportedForGood'
  BY <1>6, <1>10, ChunksAreTasks DEF DeliveryInv, AttemptInv, ReportedForGood
<1> QED BY <1>2, <1>3, <1>11, <1>12, <1>13, <1>14, <1>15 DEF DeliveryInv, AttemptInv

\* The recovery at startup reports what was recorded, and otherwise writes the
\* status alone.
LEMMA RestartKeepsInv ==
  ASSUME DeliveryInv, Restart
  PROVE  DeliveryInv'
<1>1. db' = [r \in Runs |-> Recovered(db[r])]
  BY DEF Restart
<1>2. UNCHANGED <<queueVars, slotVars, pc, of, handlerVars, worldVars, crashes>>
  BY DEF Restart
<1>3. ASSUME NEW r \in Runs
      PROVE  /\ db'[r] \in Rows /\ RowIsTrue(r, db'[r]) /\ RowFollows(db[r], db'[r])
             /\ db[r].aggregate = "open" => db'[r].aggregate = "open" /\ db'[r].staged = db[r].staged
  <2>1. db[r] \in Rows /\ RowIsTrue(r, db[r]) /\ db'[r] = Recovered(db[r])
    BY <1>1, RowFacts DEF DeliveryInv
  <2>2. CASE db[r].aggregate \in Undelivered /\ db[r].committed
    <3>1. db'[r] = Reported(db[r], "startup") /\ r \in arrived
      BY <2>1, <2>2 DEF Recovered, RowIsTrue
    <3> QED BY <2>1, <2>2, <3>1, ReportedFacts DEF Undelivered
  <2>3. CASE ~(db[r].aggregate \in Undelivered /\ db[r].committed)
    <3>1. PICK status : db'[r] = [db[r] EXCEPT !.status = status]
                        /\ status \in {UpdatedStatus(db[r], "awaiting_user"), UpdatedStatus(db[r], "interrupted")}
      BY <2>1, <2>3 DEF Recovered, ByStagedResponse
    <3>2. status \in {"running", "awaiting_user", "cancelled", "interrupted", "completed"}
      BY <2>1, <3>1 DEF UpdatedStatus, Rows
    <3>3. /\ db'[r] \in Rows /\ db'[r].aggregate = db[r].aggregate /\ db'[r].staged = db[r].staged
          /\ db'[r].ledger = db[r].ledger /\ db'[r].committed = db[r].committed
          /\ db'[r].receipt = db[r].receipt
      BY <2>1, <3>1, <3>2 DEF Rows
    <3> QED BY <2>1, <3>3 DEF RowIsTrue, RowFollows
  <2> QED BY <2>2, <2>3
<1>4. db' \in [Runs -> Rows]
  <2>1. \A r \in Runs : Recovered(db[r]) \in Rows
    BY <1>1, <1>3
  <2> QED BY <1>1, <2>1
<1>5. arrived' = arrived /\ pc' = pc /\ \A b \in Attempts : RunOf(b)' = RunOf(b)
  BY <1>2 DEF worldVars, RunOf
<1>6. EvidenceArrived' /\ ClosedMeansArrived'
  <2>1. /\ \A a \in Attempts : a \in receipts' => RunOf(a) \in arrived
        /\ \A a \in Attempts : pc'[a] \in {"record", "report", "repeat"} => RunOf(a) \in arrived
    BY <1>2, <1>5 DEF handlerVars, DeliveryInv, AttemptInv, EvidenceArrived
  <2>2. /\ \A r \in Runs : db'[r].ledger = "delivered" \/ db'[r].committed => r \in arrived
        /\ \A r \in Runs : /\ db'[r].staged = "consumed" => db'[r].aggregate = "reported"
                           /\ db'[r].aggregate = "reported" => r \in arrived
    BY <1>3 DEF RowIsTrue
  <2>3. EvidenceArrived'
    BY <1>5, <2>1, <2>2 DEF EvidenceArrived
  <2>4. ClosedMeansArrived'
    BY <1>5, <2>2 DEF ClosedMeansArrived
  <2> QED BY <2>3, <2>4
<1>7. ReportedForGood'
  <2>1. \A b \in Attempts : pc[b] = "consume" => RunOf(b) \in Runs /\ db[RunOf(b)].aggregate = "reported"
    BY DEF DeliveryInv, DeliveryTypes, AttemptInv, ReportedForGood
  <2>2. \A r \in Runs : pc[r] = "working" => db[r].aggregate = "open" /\ db[r].staged = "none"
    BY DEF DeliveryInv, AttemptInv, ReportedForGood
  <2> QED BY <1>3, <1>5, <2>1, <2>2 DEF ReportedForGood, RowIsTrue, RowFollows
<1>8. RowStep
  BY <1>2, <1>3, <1>4, <1>5 DEF RowStep, RowFollows, DeliveryInv, DeliveryTypes
<1>9. DeliveryTypes' /\ AttemptInv'
  BY <1>6, <1>7, <1>8, RowStepKeepsAttempts DEF DeliveryInv
<1>10. QueueInv' /\ JobTypes' /\ SlotInv'
  BY <1>2, QueueUntouched DEF DeliveryInv, slotVars, JobTypes, SlotInv, SlotsAreExact
<1> QED BY <1>9, <1>10 DEF DeliveryInv

\* Before any step nothing was sent, recorded or reported.
LEMMA DeliveryInitInv == DeliveryInit => DeliveryInv
<1> SUFFICES ASSUME DeliveryInit PROVE DeliveryInv
  OBVIOUS
<1>1. QueueInv /\ JobTypes /\ SlotInv
  BY InitInv, EmptySlots DEF DeliveryInit
<1>2. \A t \in Tasks : phase[t] = "new" /\ job[t] = "new" /\ task[t] = "idle"
  BY DEF DeliveryInit, Init, Slot!Init
<1>3. \A a \in Attempts : ~Sent(a, "text") /\ ~Sent(a, "done")
  BY <1>2, ChunksAreTasks DEF Sent, Chunks
<1>4. /\ db = [r \in Runs |-> NewRun] /\ pc = [a \in Attempts |-> IF a \in Runs THEN "working" ELSE "idle"]
      /\ of = [p \in Replays |-> CHOOSE r \in Runs : TRUE]
      /\ calling = {} /\ receipts = {} /\ calls = [r \in Runs |-> 0] /\ arrived = {} /\ crashes = 0
  BY DEF DeliveryInit
<1>5. NewRun \in Rows
  BY DEF NewRun, Rows
<1>6. \A a \in Attempts : pc[a] # "idle" => RunOf(a) \in Runs
  BY <1>4 DEF RunOf
<1>7. DeliveryTypes
  BY <1>4, <1>5, <1>6 DEF DeliveryTypes, Places
<1>8. ChunksInOrder /\ AdmittedOnce
  BY <1>2, <1>3, <1>4 DEF ChunksInOrder, AdmittedOnce
<1>9. CallIsMarked /\ OneFinalPerRun
  BY <1>4 DEF CallIsMarked, OneFinalPerRun
<1>10. EvidenceArrived /\ ReportedForGood /\ ClosedMeansArrived
  BY <1>4 DEF NewRun, EvidenceArrived, ReportedForGood, ClosedMeansArrived
<1> QED BY <1>1, <1>7, <1>8, <1>9, <1>10 DEF DeliveryInv, AttemptInv

-----------------------------------------------------------------------------
\* The theorems.

\* The invariant is inductive.
LEMMA DeliveryNextKeepsInv == DeliveryInv /\ [DeliveryNext]_deliveryVars => DeliveryInv'
<1> SUFFICES ASSUME DeliveryInv, [DeliveryNext]_deliveryVars PROVE DeliveryInv'
  OBVIOUS
<1>1. CASE UNCHANGED deliveryVars
  <2>1. Quiet /\ UNCHANGED <<queueVars, slotVars>>
    BY <1>1 DEF deliveryVars, Quiet, processVars, queueVars, slotVars, DeliveryInv, AttemptInv, ChunksInOrder
  <2>2. QueueInv' /\ JobTypes' /\ SlotInv'
    BY <2>1, QueueUntouched DEF DeliveryInv, slotVars, JobTypes, SlotInv, SlotsAreExact
  <2> QED BY <2>1, <2>2, QuietKeepsAttempts DEF DeliveryInv
<1>2. ASSUME NEW r \in Runs, Decide(r) \/ Cancel(r) \/ Abandon(r) PROVE DeliveryInv'
  BY <1>2, DecideKeepsInv, CancelKeepsInv, AbandonKeepsInv
<1>3. ASSUME NEW p \in Replays, ListPending(p) PROVE DeliveryInv'
  BY <1>3, ListPendingKeepsInv
<1>4. ASSUME NEW t \in Tasks \ Progress, CallReturns(t) \/ ChunkStarts(t) PROVE DeliveryInv'
  BY <1>4, ChunksAreTasks, CallReturnsKeepsInv, ChunkStartsKeepsInv
<1>5. ASSUME NEW a \in Attempts, AttemptStep(a) PROVE DeliveryInv'
  <2>1. CASE a \in Runs /\ Stage(a)
    BY <2>1, StageKeepsInv
  <2>2. CASE a \in Runs /\ Commit(a)
    BY <2>2, AdmitKeepsInv DEF Commit
  <2>3. CASE a \in Replays /\ Take(a)
    BY <2>3, TakeKeepsInv
  <2>4. CASE Report(a)
    BY <2>4, ReportKeepsInv
  <2>5. CASE Consume(a)
    <3>1. pc[a] = "consume" /\ db[RunOf(a)].aggregate = "reported"
      BY <2>5 DEF Consume, DeliveryInv, AttemptInv, ReportedForGood
    <3> QED BY <2>5, <3>1, ConsumedKeepsInv DEF Consume
  <2>6. CASE TextSent(a) \/ Complete(a) \/ Record(a)
    BY <2>6, TextSentKeepsInv, CompleteKeepsInv, RecordKeepsInv
  <2> QED BY <1>5, <2>1, <2>2, <2>3, <2>4, <2>5, <2>6 DEF AttemptStep
<1>6. ASSUME \/ \E g \in Progress : ProgressSent(g)
             \/ \E t \in Tasks : TurnComes(t) \/ SendEnds(t) \/ SendReleased(t)
      PROVE  DeliveryInv'
  BY <1>6, QueueStepKeepsInv
<1>7. ASSUME \/ \E o \in Others : OtherOffers(o)
             \/ \E t \in Tasks : Offer(t)
             \/ \E t \in Tasks \ Progress : JobAnswered(t)
             \/ \E t \in Unrelated : OtherAnswered(t)
      PROVE  DeliveryInv'
  BY <1>7, SlotStepKeepsInv
<1>8. CASE Crash \/ Restart
  BY <1>8, CrashKeepsInv, RestartKeepsInv
<1>9. ASSUME EventLoop PROVE DeliveryInv'
  <2>1. CASE \E a \in Attempts : AttemptStep(a)
    BY <1>5, <2>1
  <2>2. CASE \E t \in Tasks : SendStep(t)
    BY <1>6, <1>7, <2>2 DEF SendStep
  <2>3. CASE \E t \in Tasks \ Progress : JobStep(t)
    BY <1>4, <1>7, <2>3 DEF JobStep
  <2>4. CASE \E t \in Unrelated : OtherAnswered(t)
    BY <1>7, <2>4
  <2> QED BY <1>9, <2>1, <2>2, <2>3, <2>4 DEF EventLoop
<1> QED BY <1>1, <1>2, <1>3, <1>4, <1>6, <1>7, <1>8, <1>9 DEF DeliveryNext

\* The invariant holds in every reachable state.
THEOREM DeliveryInvariant == DeliverySpec => []DeliveryInv
<1> QED BY DeliveryInitInv, DeliveryNextKeepsInv, PTL DEF DeliverySpec

\* However many drivers, replays, cancellations, time-outs and restarts deliver
\* the response of a run, the provider is called with it once: the ledger admits
\* one attempt, and an attempt has one done chunk, whose work begins once.
THEOREM ProviderCalledOnce == DeliverySpec => []OneFinalPerRun
<1>1. DeliveryInv => OneFinalPerRun
  BY DEF DeliveryInv, AttemptInv
<1> QED BY <1>1, DeliveryInvariant, PTL

\* A staged response is closed only for a reported run, and a run is reported
\* only if its final text reached the user: every row written on the way rests on
\* the provider's receipt, and a crash loses the receipt but no row.
THEOREM ReportsAreTrue == DeliverySpec => []ClosedMeansArrived
<1>1. DeliveryInv => ClosedMeansArrived
  BY DEF DeliveryInv, AttemptInv
<1> QED BY <1>1, DeliveryInvariant, PTL

\* The delivery queue counts its slots exactly, stays within its budget and lets
\* a chunk wait only while every slot is taken.
THEOREM SlotsCounted == DeliverySpec => []SlotsAreExact
<1>1. DeliveryInv => SlotsAreExact
  BY DEF DeliveryInv, SlotInv
<1> QED BY <1>1, DeliveryInvariant, PTL

\* The send queue of a session keeps its order while its tasks wait for slots,
\* time out and are lost in a crash.
THEOREM ChunksRunInOrder == DeliverySpec => []SerialInOrder
<1>1. DeliveryInv => SerialInOrder
  BY DEF DeliveryInv, QueueInv
<1> QED BY <1>1, DeliveryInvariant, PTL

\* Its map has an entry for a session exactly while the session has chunks.
THEOREM SendMapIsExact == DeliverySpec => []EntryWhileBusy
<1>1. DeliveryInv => EntryWhileBusy
  BY EntriesFollow DEF DeliveryInv
<1> QED BY <1>1, DeliveryInvariant, PTL

-----------------------------------------------------------------------------
\* Delivery implements AnswerOnce.

Unstaged == {"working", "stage", "idle", "lost"}

\* A response is staged once: before the driver stages it there is none, and an
\* attempt that is further works on one that was.
StagedOnce ==
  /\ \A r \in Runs : pc[r] \in {"working", "stage"} => db[r].staged = "none"
  /\ \A a \in Attempts : pc[a] \notin Unstaged => db[RunOf(a)].staged # "none"

\* A chunk is on the wire for a run whose answer the provider was called with.
CallsAreCounted == \A t \in calling : calls[RunOf(t[1])] > 0

TraceInv == StagedOnce /\ CallsAreCounted

\* It stays so if no response is staged and no attempt gets past that.
LEMMA StagedFollows ==
  ASSUME DeliveryInv, TraceInv, UNCHANGED <<of, calling, calls>>,
         \A r \in Runs : db'[r].staged = "none" <=> db[r].staged = "none",
         \A r \in Runs : pc'[r] \in {"working", "stage"} => pc[r] \in {"working", "stage"},
         \A a \in Attempts : pc'[a] \notin Unstaged => pc[a] \notin Unstaged
  PROVE  TraceInv'
<1>1. \A a \in Attempts : RunOf(a)' = RunOf(a)
  BY DEF RunOf
<1>2. \A a \in Attempts : pc[a] \notin Unstaged => RunOf(a) \in Runs
  BY DEF DeliveryInv, DeliveryTypes, Unstaged
<1>3. \A t \in calling : t[1] \in Attempts
  BY DEF DeliveryInv, DeliveryTypes
<1>4. CallsAreCounted'
  BY <1>1, <1>3 DEF TraceInv, CallsAreCounted
<1>5. StagedOnce'
  BY <1>1, <1>2, ChunksAreTasks DEF TraceInv, StagedOnce
<1> QED BY <1>4, <1>5 DEF TraceInv

\* What AnswerOnce sees of a row: whether it was reported, and whether closed.
LEMMA NothingTold ==
  ASSUME UNCHANGED worldVars,
         \A r \in Runs : db'[r].aggregate = "reported" <=> db[r].aggregate = "reported",
         \A r \in Runs : db'[r].staged = "consumed" <=> db[r].staged = "consumed"
  PROVE  UNCHANGED Answer!vars
BY DEF worldVars, ReportedRuns, ClosedRuns, Answer!vars

\* Nothing is reported that did not arrive, and no report is withdrawn.
LEMMA ReportsOnly ==
  ASSUME ClosedMeansArrived', UNCHANGED worldVars,
         \A r \in Runs : db[r].aggregate = "reported" => db'[r].aggregate = "reported",
         \A r \in Runs : db'[r].staged = db[r].staged
  PROVE  Answer!Next
<1>1. ReportedRuns' \subseteq arrived /\ ReportedRuns' = ReportedRuns \union ReportedRuns'
  BY DEF ClosedMeansArrived, ReportedRuns, worldVars
<1>2. ClosedRuns' = ClosedRuns
  BY DEF ClosedRuns
<1>3. ReportedRuns' \in SUBSET Runs
  BY DEF ReportedRuns
<1>4. Answer!Report(ReportedRuns')
  BY <1>1, <1>2 DEF Answer!Report, worldVars
<1> QED BY <1>3, <1>4 DEF Answer!Next

\* The steps that write a row before it is staged.
LEMMA OutcomeTells ==
  ASSUME DeliveryInv, TraceInv, NEW r \in Runs, Decide(r) \/ Cancel(r) \/ Abandon(r) \/ Stage(r)
  PROVE  TraceInv' /\ UNCHANGED Answer!vars
<1>1. /\ db \in [Runs -> Rows] /\ pc \in [Attempts -> Places] /\ r \in Attempts
      /\ UNCHANGED <<of, calling, calls, worldVars>>
  BY ChunksAreTasks DEF DeliveryInv, DeliveryTypes, Decide, Cancel, Abandon, Stage, handlerVars, worldVars
<1>2. PICK place \in Places : /\ pc' = [pc EXCEPT ![r] = place]
                              /\ place \in {"working", "stage"} => pc[r] \in {"working", "stage"}
  <2>1. CASE Decide(r) \/ Abandon(r)
    BY <2>1 DEF Decide, Abandon, Goto, Places
  <2>2. CASE Cancel(r)
    BY <1>1, <2>2 DEF Cancel
  <2>3. CASE Stage(r)
    BY <2>3 DEF Stage, Goto, Places
  <2> QED BY <2>1, <2>2, <2>3
<1>3. /\ \A q \in Runs : pc'[q] \in {"working", "stage"} => pc[q] \in {"working", "stage"}
      /\ \A a \in Attempts : a # r /\ pc'[a] \notin Unstaged => pc[a] \notin Unstaged
  BY <1>1, <1>2, ChunksAreTasks
<1>4. CASE Decide(r) \/ Cancel(r) \/ Abandon(r)
  <2>1. PICK row : /\ db' = [db EXCEPT ![r] = row] /\ row.staged = db[r].staged
                   /\ row.aggregate = "reported" <=> db[r].aggregate = "reported"
    <3>1. CASE Decide(r)
      <4>1. db[r].aggregate = "open" /\ db[r] \in Rows
        BY <1>1, <3>1 DEF Decide, DeliveryInv, AttemptInv, ReportedForGood
      <4> DEFINE row == [db[r] EXCEPT !.aggregate = "outcome", !.status = "running"]
      <4>2. db' = [db EXCEPT ![r] = row]
        BY <1>1, <3>1 DEF Decide
      <4>3. row.staged = db[r].staged /\ row.aggregate # "reported"
        BY <4>1 DEF Rows
      <4> HIDE DEF row
      <4> QED BY <4>1, <4>2, <4>3
    <3>2. CASE Abandon(r)
      <4>1. db[r].aggregate = "open" /\ db[r] \in Rows
        BY <1>1, <3>2 DEF Abandon, DeliveryInv, AttemptInv, ReportedForGood
      <4> DEFINE row == [db[r] EXCEPT !.aggregate = "cancelled", !.status = "cancelled"]
      <4>2. db' = [db EXCEPT ![r] = row]
        BY <1>1, <3>2 DEF Abandon
      <4>3. row.staged = db[r].staged /\ row.aggregate # "reported"
        BY <4>1 DEF Rows
      <4> HIDE DEF row
      <4> QED BY <4>1, <4>2, <4>3
    <3>3. CASE Cancel(r)
      <4> DEFINE row == [db[r] EXCEPT !.status = UpdatedStatus(db[r], "cancelled")]
      <4>1. db' = [db EXCEPT ![r] = row]
        BY <1>1, <3>3 DEF Cancel
      <4>2. row.staged = db[r].staged /\ row.aggregate = db[r].aggregate
        BY <1>1 DEF Rows
      <4> HIDE DEF row
      <4> QED BY <4>1, <4>2
    <3> QED BY <1>4, <3>1, <3>2, <3>3
  <2>2. \A q \in Runs : /\ db'[q].staged = db[q].staged
                        /\ db'[q].aggregate = "reported" <=> db[q].aggregate = "reported"
    BY <1>1, <2>1
  <2>3. pc'[r] \notin Unstaged => pc[r] \notin Unstaged
    <3>1. CASE Decide(r) \/ Abandon(r)
      BY <1>1, <3>1 DEF Decide, Abandon, Goto, Unstaged
    <3>2. CASE Cancel(r)
      BY <3>2 DEF Cancel
    <3> QED BY <1>4, <3>1, <3>2
  <2> QED BY <1>1, <1>3, <2>2, <2>3, StagedFollows, NothingTold
<1>5. CASE Stage(r)
  <2>1. pc[r] = "stage" /\ db[r].staged = "none" /\ pc'[r] = "commit" /\ db[r] \in Rows
    BY <1>1, <1>5 DEF Stage, Goto, TraceInv, StagedOnce
  <2>2. db' = [db EXCEPT ![r] = [db[r] EXCEPT !.staged = "pending"]]
    BY <1>1, <1>5 DEF Stage
  <2>3. /\ db'[r].staged = "pending" /\ db'[r].aggregate = db[r].aggregate
        /\ \A q \in Runs \ {r} : db'[q] = db[q]
    BY <1>1, <2>1, <2>2 DEF Rows
  <2>4. UNCHANGED Answer!vars
    BY <1>1, <2>1, <2>3, NothingTold
  <2>5. \A q \in Runs : db[q].staged # "none" => db'[q].staged # "none"
    BY <2>3
  <2>6. \A a \in Attempts : RunOf(a)' = RunOf(a)
    BY <1>1 DEF RunOf
  <2>7. \A q \in Runs : pc'[q] \in {"working", "stage"} => db'[q].staged = "none"
    BY <1>3, <2>1, <2>3 DEF TraceInv, StagedOnce
  <2>8. ASSUME NEW a \in Attempts, pc'[a] \notin Unstaged PROVE db'[RunOf(a)].staged # "none"
    <3>1. CASE a = r
      BY <2>3, <3>1 DEF RunOf
    <3>2. CASE a # r
      <4>1. pc[a] \notin Unstaged
        BY <1>3, <2>8, <3>2
      <4>2. RunOf(a) \in Runs /\ db[RunOf(a)].staged # "none"
        BY <4>1 DEF TraceInv, StagedOnce, DeliveryInv, DeliveryTypes, Unstaged
      <4> QED BY <2>5, <4>2
    <3> QED BY <3>1, <3>2
  <2>9. StagedOnce'
    BY <2>6, <2>7, <2>8, ChunksAreTasks DEF StagedOnce
  <2>10. \A t \in calling : t[1] \in Attempts
    BY DEF DeliveryInv, DeliveryTypes
  <2>11. CallsAreCounted'
    BY <1>1, <2>6, <2>10 DEF TraceInv, CallsAreCounted
  <2> QED BY <2>4, <2>9, <2>11 DEF TraceInv
<1> QED BY <1>4, <1>5

\* An attempt that goes on writes its row and nothing that AnswerOnce sees, unless
\* it reports.
LEMMA AttemptTells ==
  ASSUME DeliveryInv, TraceInv, NEW a \in Attempts, RunOf(a) \in Runs,
         NEW place \in Places \ {"working", "stage"}, pc[a] \notin Unstaged, Goto(a, place),
         UNCHANGED <<of, handlerVars, worldVars>>,
         NEW row \in Rows, db' = [db EXCEPT ![RunOf(a)] = row], row.staged = db[RunOf(a)].staged,
         db[RunOf(a)].aggregate = "reported" => row.aggregate = "reported",
         row.aggregate = "reported" => RunOf(a) \in arrived
  PROVE  TraceInv' /\ [Answer!Next]_(Answer!vars)
<1> DEFINE r == RunOf(a)
<1>1. db \in [Runs -> Rows] /\ pc \in [Attempts -> Places]
  BY DEF DeliveryInv, DeliveryTypes
<1>2. /\ pc' = [pc EXCEPT ![a] = place] /\ UNCHANGED <<calling, calls, worldVars>>
  BY DEF Goto, handlerVars, worldVars
<1>3. /\ \A q \in Runs : pc'[q] \in {"working", "stage"} => pc[q] \in {"working", "stage"}
      /\ \A b \in Attempts : pc'[b] \notin Unstaged => pc[b] \notin Unstaged
  BY <1>1, <1>2, ChunksAreTasks
<1>4. /\ \A q \in Runs : db'[q].staged = db[q].staged
      /\ \A q \in Runs : db[q].aggregate = "reported" => db'[q].aggregate = "reported"
      /\ db'[r] = row /\ \A q \in Runs \ {r} : db'[q] = db[q]
  BY <1>1
<1>5. TraceInv'
  BY <1>2, <1>3, <1>4, StagedFollows
<1>6. CASE row.aggregate = "reported" /\ ~(db[r].aggregate = "reported")
  <2>1. \A q \in Runs : /\ db[q].staged = "consumed" => db[q].aggregate = "reported"
                        /\ db[q].aggregate = "reported" => q \in arrived
    BY DEF DeliveryInv, AttemptInv, ClosedMeansArrived
  <2>2. ClosedMeansArrived'
    BY <1>2, <1>4, <2>1 DEF ClosedMeansArrived, worldVars
  <2> QED BY <1>2, <1>4, <1>5, <2>2, ReportsOnly
<1>7. CASE row.aggregate = "reported" <=> db[r].aggregate = "reported"
  <2>1. \A q \in Runs : db'[q].aggregate = "reported" <=> db[q].aggregate = "reported"
    BY <1>4, <1>7
  <2> QED BY <1>2, <1>4, <1>5, <2>1, NothingTold
<1> QED BY <1>6, <1>7

\* Admission, the result of the delivery and the record tell nothing; the report
\* tells that the answer arrived.
LEMMA ProgressTells ==
  ASSUME DeliveryInv, TraceInv, NEW a \in Attempts,
         \/ pc[a] \in {"commit", "listed"} /\ Admit(a)
         \/ Complete(a) \/ Record(a) \/ Report(a)
  PROVE  TraceInv' /\ [Answer!Next]_(Answer!vars)
<1> DEFINE r == RunOf(a)
<1>1. /\ pc[a] \notin Unstaged /\ pc[a] # "idle"
      /\ UNCHANGED <<of, handlerVars, worldVars>>
  BY DEF Complete, Record, Report, Admit, Unstaged
<1>2. r \in Runs /\ db \in [Runs -> Rows] /\ db[r] \in Rows /\ RowIsTrue(r, db[r])
  BY <1>1, RowFacts DEF DeliveryInv, DeliveryTypes
<1>3. db[r].aggregate = "reported" => r \in arrived
  BY <1>2 DEF RowIsTrue
<1>4. CASE pc[a] \in {"commit", "listed"} /\ Admit(a)
  <2>1. PICK row \in Rows : /\ db' = [db EXCEPT ![r] = row]
                            /\ row.staged = db[r].staged /\ row.aggregate = db[r].aggregate
    <3>1. CASE UNCHANGED db
      BY <1>2, <3>1
    <3>2. CASE db' = [db EXCEPT ![r].ledger = "started"]
      <4> DEFINE row == [db[r] EXCEPT !.ledger = "started"]
      <4>1. row \in Rows /\ row.staged = db[r].staged /\ row.aggregate = db[r].aggregate
        BY <1>2 DEF Rows
      <4>2. db' = [db EXCEPT ![r] = row]
        BY <1>2, <3>2
      <4> HIDE DEF row
      <4> QED BY <4>1, <4>2
    <3> QED BY <1>4, <3>1, <3>2 DEF Admit
  <2>2. PICK place \in {"repeat", "text", "record", "finished"} : Goto(a, place)
    BY <1>4 DEF Admit
  <2>3. place \in Places \ {"working", "stage"}
    BY DEF Places
  <2> QED BY <1>1, <1>2, <1>3, <2>1, <2>2, <2>3, AttemptTells
<1>5. CASE Complete(a)
  <2>1. PICK status \in {"suppressed", "delivered", "failed"} :
          /\ db' = [db EXCEPT ![r].ledger = status]
          /\ Goto(a, IF status = "delivered" THEN "record" ELSE "finished")
    BY <1>5 DEF Complete
  <2> DEFINE row == [db[r] EXCEPT !.ledger = status]
             place == IF status = "delivered" THEN "record" ELSE "finished"
  <2>2. row \in Rows /\ row.staged = db[r].staged /\ row.aggregate = db[r].aggregate
    BY <1>2 DEF Rows
  <2>3. db' = [db EXCEPT ![r] = row] /\ place \in Places \ {"working", "stage"}
    BY <1>2, <2>1 DEF Places
  <2> HIDE DEF row
  <2> QED BY <1>1, <1>2, <1>3, <2>1, <2>2, <2>3, AttemptTells
<1>6. CASE Record(a)
  <2> DEFINE row == [db[r] EXCEPT !.committed = TRUE]
  <2>1. row \in Rows /\ row.staged = db[r].staged /\ row.aggregate = db[r].aggregate
    BY <1>2 DEF Rows
  <2>2. db' = [db EXCEPT ![r] = row] /\ Goto(a, "report") /\ "report" \in Places \ {"working", "stage"}
    BY <1>2, <1>6 DEF Record, Places
  <2> HIDE DEF row
  <2> QED BY <1>1, <1>2, <1>3, <2>1, <2>2, AttemptTells
<1>7. CASE Report(a)
  <2> DEFINE receipt == IF pc[a] = "repeat" THEN "duplicate" ELSE "delivered"
             fresh == db[r].aggregate \in Undelivered
             row == IF fresh THEN Reported(db[r], receipt) ELSE db[r]
             place == IF fresh \/ db[r].receipt = receipt THEN "consume" ELSE "finished"
  <2>1. r \in arrived
    BY <1>7 DEF Report, DeliveryInv, AttemptInv, EvidenceArrived
  <2>2. receipt \in {"delivered", "duplicate", "startup"}
    OBVIOUS
  <2>3. Reported(db[r], receipt).staged = db[r].staged
    BY <1>2 DEF Reported, Rows
  <2>4. row \in Rows /\ row.staged = db[r].staged /\ (db[r].aggregate = "reported" => row.aggregate = "reported")
    BY <1>2, <2>1, <2>2, <2>3, ReportedFacts
  <2>5. db' = [db EXCEPT ![r] = row] /\ Goto(a, place)
    BY <1>2, <1>7 DEF Report
  <2>6. place \in Places \ {"working", "stage"}
    BY DEF Places
  <2> HIDE DEF row, place
  <2> QED BY <1>1, <1>2, <2>1, <2>4, <2>5, <2>6, AttemptTells
<1> QED BY <1>4, <1>5, <1>6, <1>7

\* A response is consumed for a run that was reported.
LEMMA ConsumedTells ==
  ASSUME DeliveryInv, TraceInv, NEW a \in Attempts, pc[a] \notin Unstaged,
         db[RunOf(a)].aggregate = "reported",
         db' = [db EXCEPT ![RunOf(a)].staged = "consumed"], Goto(a, "finished"),
         UNCHANGED <<of, handlerVars, worldVars>>
  PROVE  TraceInv' /\ [Answer!Next]_(Answer!vars)
<1> DEFINE r == RunOf(a)
<1>1. /\ db \in [Runs -> Rows] /\ pc \in [Attempts -> Places] /\ r \in Runs /\ db[r] \in Rows
      /\ UNCHANGED <<calling, calls, worldVars>>
  BY DEF DeliveryInv, DeliveryTypes, handlerVars, worldVars, Unstaged
<1>2. /\ db'[r].staged = "consumed" /\ db'[r].aggregate = db[r].aggregate
      /\ \A q \in Runs \ {r} : db'[q] = db[q]
  <2> DEFINE row == [db[r] EXCEPT !.staged = "consumed"]
  <2>1. row.staged = "consumed" /\ row.aggregate = db[r].aggregate
    BY <1>1 DEF Rows
  <2>2. db' = [db EXCEPT ![r] = row]
    BY <1>1
  <2> HIDE DEF row
  <2> QED BY <1>1, <2>1, <2>2
<1>3. /\ \A q \in Runs : pc'[q] \in {"working", "stage"} => pc[q] \in {"working", "stage"}
      /\ \A b \in Attempts : pc'[b] \notin Unstaged => pc[b] \notin Unstaged
  BY <1>1, ChunksAreTasks DEF Goto
<1>4. r \in ReportedRuns /\ ReportedRuns' = ReportedRuns /\ ClosedRuns' = ClosedRuns \union {r}
  BY <1>1, <1>2 DEF ReportedRuns, ClosedRuns
<1>5. Answer!Next
  BY <1>1, <1>4 DEF Answer!Next, Answer!Close, worldVars
<1>6. db[r].staged # "none"
  BY DEF TraceInv, StagedOnce
<1>7. TraceInv'
  BY <1>1, <1>2, <1>3, <1>6, StagedFollows DEF handlerVars
<1> QED BY <1>5, <1>7

\* A replay lists a response that is staged.
LEMMA ListPendingTells ==
  ASSUME DeliveryInv, TraceInv, NEW p \in Replays, ListPending(p)
  PROVE  TraceInv' /\ UNCHANGED Answer!vars
<1>1. PICK r \in Runs : db[r].staged = "pending" /\ of' = [of EXCEPT ![p] = r]
  BY DEF ListPending
<1>2. /\ pc[p] = "idle" /\ Goto(p, "listed") /\ p \in Attempts /\ p \notin Runs
      /\ UNCHANGED <<db, calling, calls, worldVars>>
  BY DeliveryAssumption DEF ListPending, Attempts, handlerVars, worldVars
<1>3. pc \in [Attempts -> Places] /\ DOMAIN of = Replays
  BY DEF DeliveryInv, DeliveryTypes
<1>4. RunOf(p)' = r /\ \A b \in Attempts \ {p} : RunOf(b)' = RunOf(b) /\ pc'[b] = pc[b]
  BY <1>1, <1>2, <1>3 DEF RunOf, Attempts, Goto
<1>5. \A q \in Runs : pc'[q] = pc[q]
  BY <1>2, <1>4, ChunksAreTasks
<1>6. \A a \in Attempts : pc'[a] \notin Unstaged => db[RunOf(a)'].staged # "none"
  BY <1>1, <1>4 DEF TraceInv, StagedOnce
<1>7. StagedOnce'
  BY <1>2, <1>5, <1>6 DEF TraceInv, StagedOnce
<1>8. \A t \in calling : t[1] \in Attempts \ {p}
  <2> SUFFICES ASSUME NEW t \in calling PROVE t[1] \in Attempts \ {p}
    OBVIOUS
  <2>1. t \in Attempts \X Chunks /\ t \in Tasks
    BY ChunksAreTasks DEF DeliveryInv, DeliveryTypes
  <2>2. Sent(t[1], "text") /\ t[1] \in Attempts
    BY <2>1, WorkFacts DEF DeliveryInv, AttemptInv, ChunksInOrder
  <2> QED BY <1>2, <2>2 DEF DeliveryInv, AttemptInv, ChunksInOrder, Unadmitted
<1>9. CallsAreCounted'
  BY <1>2, <1>4, <1>8 DEF TraceInv, CallsAreCounted
<1>10. UNCHANGED Answer!vars
  BY <1>2, NothingTold
<1> QED BY <1>7, <1>9, <1>10 DEF TraceInv

\* The provider is called with the answer of a run for the first time.
LEMMA ChunkStartsTells ==
  ASSUME DeliveryInv, TraceInv, NEW t \in Attempts \X Chunks, ChunkStarts(t)
  PROVE  TraceInv' /\ [Answer!Next]_(Answer!vars)
<1> DEFINE a == t[1]
           r == RunOf(a)
<1>1. job[t] = "running"
  BY DEF ChunkStarts, Slot!TaskStarts, Slot!TaskReturnsAtOnce
<1>2. r \in Runs /\ calls \in [Runs -> Nat]
  BY <1>1, WorkFacts DEF DeliveryInv, DeliveryTypes
<1>3. UNCHANGED <<db, pc, of, arrived>> /\ \A b \in Attempts : RunOf(b)' = RunOf(b)
  BY DEF ChunkStarts, RunOf
<1>4. StagedOnce'
  BY <1>3 DEF TraceInv, StagedOnce
<1>5. UNCHANGED <<ReportedRuns, ClosedRuns>>
  BY <1>3 DEF ReportedRuns, ClosedRuns
<1>6. \A u \in calling : u[1] \in Attempts /\ RunOf(u[1]) \in Runs
  <2> SUFFICES ASSUME NEW u \in calling PROVE u[1] \in Attempts /\ RunOf(u[1]) \in Runs
    OBVIOUS
  <2>1. u \in Attempts \X Chunks /\ u \in Tasks
    BY ChunksAreTasks DEF DeliveryInv, DeliveryTypes
  <2> QED BY <2>1, WorkFacts DEF DeliveryInv, AttemptInv, ChunksInOrder
<1>7. CASE calling' = calling /\ calls' = calls
  <2>1. CallsAreCounted'
    BY <1>3, <1>6, <1>7 DEF TraceInv, CallsAreCounted
  <2>2. UNCHANGED Answer!vars
    BY <1>3, <1>5, <1>7 DEF Answer!vars
  <2> QED BY <1>4, <2>1, <2>2 DEF TraceInv
<1>8. CASE calling' = calling \union {t} /\ calls' = [calls EXCEPT ![r] = @ + 1]
  <2>1. calls'[r] <= 1
    BY <1>2, ChunkStartsKeepsInv DEF DeliveryInv, AttemptInv, OneFinalPerRun
  <2>2. calls'[r] = calls[r] + 1 /\ calls[r] \in Nat /\ \A q \in Runs \ {r} : calls'[q] = calls[q]
    BY <1>2, <1>8
  <2>3. calls[r] = 0
    BY <2>1, <2>2
  <2>4. calls' = [calls EXCEPT ![r] = 1]
    BY <1>2, <1>8, <2>3
  <2>5. Answer!Next
    BY <1>2, <1>3, <1>5, <2>3, <2>4 DEF Answer!Next, Answer!Call
  <2>6. \A q \in Runs : calls[q] > 0 => calls'[q] > 0
    BY <2>2
  <2>7. CallsAreCounted'
    BY <1>3, <1>6, <1>8, <2>2, <2>6 DEF TraceInv, CallsAreCounted
  <2> QED BY <1>4, <2>5, <2>7 DEF TraceInv
<1> QED BY <1>7, <1>8 DEF ChunkStarts

\* What arrives, after a call or in a crash, is what the provider was called with.
LEMMA ArrivalTells ==
  ASSUME DeliveryInv, TraceInv, (\E t \in Attempts \X Chunks : CallReturns(t)) \/ Crash
  PROVE  TraceInv' /\ [Answer!Next]_(Answer!vars)
<1>1. /\ UNCHANGED <<db, of, calls>> /\ calling' \subseteq calling
      /\ \E landed \in SUBSET {RunOf(t[1]) : t \in calling} : arrived' = arrived \union landed
  <2>1. ASSUME NEW t \in Attempts \X Chunks, CallReturns(t)
        PROVE  /\ UNCHANGED <<db, of, calls>> /\ calling' \subseteq calling
               /\ \E landed \in SUBSET {RunOf(u[1]) : u \in calling} : arrived' = arrived \union landed
    <3>1. t \in calling /\ arrived' \in {arrived \union {}, arrived \union {RunOf(t[1])}}
      BY <2>1 DEF CallReturns
    <3>2. {} \in SUBSET {RunOf(u[1]) : u \in calling} /\ {RunOf(t[1])} \in SUBSET {RunOf(u[1]) : u \in calling}
      BY <3>1
    <3> QED BY <2>1, <3>1, <3>2 DEF CallReturns
  <2>2. CASE Crash
    BY <2>2 DEF Crash
  <2> QED BY <2>1, <2>2
<1>2. \A a \in Attempts : pc'[a] = pc[a] \/ pc'[a] = "lost"
  <2>1. CASE \E t \in Attempts \X Chunks : CallReturns(t)
    BY <2>1 DEF CallReturns
  <2>2. CASE Crash
    BY <2>2 DEF Crash
  <2> QED BY <2>1, <2>2
<1>3. \A a \in Attempts : RunOf(a)' = RunOf(a)
  BY <1>1 DEF RunOf
<1>4. ASSUME NEW t \in calling
      PROVE  t[1] \in Attempts /\ RunOf(t[1]) \in Runs /\ calls[RunOf(t[1])] = 1
  <2>1. t \in Attempts \X Chunks /\ t \in Tasks
    BY ChunksAreTasks DEF DeliveryInv, DeliveryTypes
  <2>2. t[1] \in Attempts /\ RunOf(t[1]) \in Runs
    BY <2>1, WorkFacts DEF DeliveryInv, AttemptInv, ChunksInOrder
  <2>3. calls[RunOf(t[1])] \in Nat /\ calls[RunOf(t[1])] > 0 /\ calls[RunOf(t[1])] <= 1
    BY <2>2 DEF TraceInv, CallsAreCounted, DeliveryInv, DeliveryTypes, AttemptInv, OneFinalPerRun
  <2> QED BY <2>2, <2>3
<1>5. StagedOnce'
  BY <1>1, <1>2, <1>3, ChunksAreTasks DEF TraceInv, StagedOnce, Unstaged
<1>6. CallsAreCounted'
  BY <1>1, <1>3, <1>4 DEF TraceInv, CallsAreCounted
<1>7. PICK landed \in SUBSET {RunOf(t[1]) : t \in calling} : arrived' = arrived \union landed
  BY <1>1
<1>8. landed \in SUBSET Runs /\ \A r \in landed : calls[r] = 1
  BY <1>4, <1>7
<1>9. Answer!Arrive(landed)
  BY <1>1, <1>7, <1>8 DEF Answer!Arrive, ReportedRuns, ClosedRuns
<1> QED BY <1>5, <1>6, <1>8, <1>9 DEF TraceInv, Answer!Next

\* A restart reports what was recorded.
LEMMA RestartTells ==
  ASSUME DeliveryInv, TraceInv, Restart
  PROVE  TraceInv' /\ [Answer!Next]_(Answer!vars)
<1>1. db' = [r \in Runs |-> Recovered(db[r])] /\ UNCHANGED <<pc, of, calling, calls, worldVars>>
  BY DEF Restart, handlerVars, worldVars
<1>2. ASSUME NEW r \in Runs
      PROVE  /\ db'[r].staged = db[r].staged
             /\ db[r].aggregate = "reported" => db'[r].aggregate = "reported"
  <2>1. db[r] \in Rows /\ db'[r] = Recovered(db[r])
    BY <1>1 DEF DeliveryInv, DeliveryTypes
  <2>2. CASE db[r].aggregate \in Undelivered /\ db[r].committed
    BY <2>1, <2>2 DEF Recovered, Reported, Rows
  <2>3. CASE ~(db[r].aggregate \in Undelivered /\ db[r].committed)
    <3>1. PICK status : db'[r] = [db[r] EXCEPT !.status = status]
      BY <2>1, <2>3 DEF Recovered, ByStagedResponse
    <3> QED BY <2>1, <3>1 DEF Rows
  <2> QED BY <2>2, <2>3
<1>3. TraceInv'
  BY <1>1, <1>2, StagedFollows
<1>4. ClosedMeansArrived'
  BY RestartKeepsInv DEF DeliveryInv, AttemptInv
<1> QED BY <1>1, <1>2, <1>3, <1>4, ReportsOnly

\* A step of the queues tells nothing.
LEMMA QueuesTell ==
  ASSUME DeliveryInv, TraceInv, UNCHANGED <<db, of, handlerVars, worldVars>>,
         pc' = pc \/ \E a \in Attempts : TextSent(a)
  PROVE  TraceInv' /\ UNCHANGED Answer!vars
<1>1. \A a \in Attempts : pc'[a] = pc[a] \/ (pc[a] = "text" /\ pc'[a] = "done")
  BY DEF TextSent, Goto, DeliveryInv, DeliveryTypes
<1>2. /\ \A r \in Runs : pc'[r] \in {"working", "stage"} => pc[r] \in {"working", "stage"}
      /\ \A a \in Attempts : pc'[a] \notin Unstaged => pc[a] \notin Unstaged
  BY <1>1, ChunksAreTasks DEF Unstaged
<1>3. TraceInv'
  BY <1>2, StagedFollows DEF handlerVars, worldVars
<1> QED BY <1>3, NothingTold

\* Every step of the delivery is one of AnswerOnce, or none.
LEMMA StepRefines ==
  ASSUME DeliveryInv, TraceInv, [DeliveryNext]_deliveryVars
  PROVE  TraceInv' /\ [Answer!Next]_(Answer!vars)
<1>1. CASE UNCHANGED deliveryVars
  BY <1>1, QueuesTell DEF deliveryVars
<1>2. ASSUME NEW r \in Runs, Decide(r) \/ Cancel(r) \/ Abandon(r)
      PROVE  TraceInv' /\ [Answer!Next]_(Answer!vars)
  BY <1>2, OutcomeTells
<1>3. ASSUME NEW p \in Replays, ListPending(p) PROVE TraceInv' /\ [Answer!Next]_(Answer!vars)
  BY <1>3, ListPendingTells
<1>4. ASSUME NEW t \in Tasks \ Progress, CallReturns(t) \/ ChunkStarts(t)
      PROVE  TraceInv' /\ [Answer!Next]_(Answer!vars)
  BY <1>4, ChunksAreTasks, ArrivalTells, ChunkStartsTells
<1>5. ASSUME NEW a \in Attempts, AttemptStep(a) PROVE TraceInv' /\ [Answer!Next]_(Answer!vars)
  <2>1. CASE a \in Runs /\ Stage(a)
    BY <2>1, OutcomeTells
  <2>2. CASE a \in Runs /\ Commit(a)
    <3>1. RunOf(a) = a /\ pc[a] = "commit" /\ Admit(a)
      BY <2>2 DEF Commit, RunOf
    <3> QED BY <3>1, ProgressTells
  <2>3. CASE a \in Replays /\ Take(a)
    <3>1. RunOf(a) = of[a] /\ pc[a] = "listed" /\ pc[a] \notin Unstaged
      BY <2>3, DeliveryAssumption DEF Take, RunOf, Unstaged
    <3>2. CASE AlreadyReported(of[a])
      BY <2>3, <3>1, <3>2, ConsumedTells DEF Take, AlreadyReported
    <3>3. CASE ~AlreadyReported(of[a])
      BY <2>3, <3>1, <3>3, ProgressTells DEF Take
    <3> QED BY <3>2, <3>3
  <2>4. CASE Complete(a) \/ Record(a) \/ Report(a)
    BY <2>4, ProgressTells
  <2>5. CASE Consume(a)
    <3>1. pc[a] \notin Unstaged /\ db[RunOf(a)].aggregate = "reported"
      BY <2>5 DEF Consume, Unstaged, DeliveryInv, AttemptInv, ReportedForGood
    <3> QED BY <2>5, <3>1, ConsumedTells DEF Consume
  <2>6. CASE TextSent(a)
    BY <2>6, QueuesTell DEF TextSent
  <2> QED BY <1>5, <2>1, <2>2, <2>3, <2>4, <2>5, <2>6 DEF AttemptStep
<1>6. ASSUME \/ \E g \in Progress : ProgressSent(g)
             \/ \E o \in Others : OtherOffers(o)
             \/ \E t \in Tasks : SendStep(t)
             \/ \E t \in Tasks \ Progress : JobAnswered(t)
             \/ \E t \in Unrelated : OtherAnswered(t)
      PROVE  TraceInv' /\ [Answer!Next]_(Answer!vars)
  <2>1. UNCHANGED <<db, pc, of, handlerVars, worldVars>>
    BY <1>6 DEF ProgressSent, OtherOffers, SendStep, TurnComes, Offer, SendEnds, SendReleased,
         JobAnswered, OtherAnswered
  <2> QED BY <2>1, QueuesTell
<1>7. CASE Crash \/ Restart
  BY <1>7, ArrivalTells, RestartTells
<1>8. ASSUME EventLoop PROVE TraceInv' /\ [Answer!Next]_(Answer!vars)
  BY <1>4, <1>5, <1>6, <1>8 DEF EventLoop, JobStep
<1> QED BY <1>1, <1>2, <1>3, <1>4, <1>6, <1>7, <1>8 DEF DeliveryNext

\* Behind the queues, time-outs, replays and crashes the life of an answer is that
\* of AnswerOnce: called once, arrived if called with, reported if arrived, closed
\* if reported, and nothing of it withdrawn.
THEOREM DeliveryImplementsAnswerOnce == DeliverySpec => ImplementsAnswerOnce
<1>1. DeliveryInit => TraceInv /\ Answer!Init
  <2> SUFFICES ASSUME DeliveryInit PROVE TraceInv /\ Answer!Init
    OBVIOUS
  <2>1. /\ db = [r \in Runs |-> NewRun] /\ pc = [a \in Attempts |-> IF a \in Runs THEN "working" ELSE "idle"]
        /\ calling = {} /\ calls = [r \in Runs |-> 0] /\ arrived = {}
    BY DEF DeliveryInit
  <2>2. TraceInv
    BY <2>1, ChunksAreTasks DEF TraceInv, StagedOnce, CallsAreCounted, NewRun, Unstaged
  <2>3. Answer!Init
    BY <2>1 DEF Answer!Init, ReportedRuns, ClosedRuns, NewRun
  <2> QED BY <2>2, <2>3
<1>2. DeliveryInv /\ TraceInv /\ [DeliveryNext]_deliveryVars => TraceInv' /\ [Answer!Next]_(Answer!vars)
  BY StepRefines
<1> QED BY <1>1, <1>2, DeliveryInvariant, PTL DEF DeliverySpec, ImplementsAnswerOnce, Answer!Spec
=============================================================================
