-------------------------- MODULE SchedulerProofs --------------------------
(***************************************************************************)
(* Proofs about one schedule, for every cron expression, number of retries, *)
(* manual triggers and crashes: an occurrence is fired and delivered at     *)
(* most once, a success has a message, and an open row has an owner.        *)
(***************************************************************************)
EXTENDS Scheduler, FiniteSetTheorems, WellFoundedInduction, TLAPS

-----------------------------------------------------------------------------
\* The operators of the model.

\* A nonempty set of numbers up to a bound has a largest one.
LEMMA BoundedMax ==
  ASSUME NEW B \in Nat, NEW S \in SUBSET (0 .. B), S # {}
  PROVE  Max(S) \in S /\ \A y \in S : y <= Max(S)
<1> DEFINE T == {B - x : x \in S}
<1>1. T \subseteq Nat /\ T # {}
  <2>1. \A x \in S : x \in 0 .. B /\ B - x \in Nat
    OBVIOUS
  <2> QED BY <2>1
<1>2. \E t \in T : \A u \in T : ~(<<u, t>> \in OpToRel(<, Nat))
  BY <1>1, NatLessThanWellFounded, WFMin
<1>3. PICK t \in T : \A u \in T : ~(u < t)
  BY <1>1, <1>2 DEF OpToRel
<1>4. \E x \in S : \A y \in S : x >= y
  <2>1. PICK x \in S : t = B - x
    BY <1>3
  <2>2. \A y \in S : ~(B - y < B - x)
    BY <1>3, <2>1
  <2>3. \A y \in 0 .. B : y \in Int
    OBVIOUS
  <2>4. \A y \in S : y \in 0 .. B
    OBVIOUS
  <2>5. B \in Int /\ x \in Int /\ \A y \in S : y \in Int
    BY <2>3, <2>4
  <2> QED BY <2>2, <2>5
<1> QED BY <1>4 DEF Max

-----------------------------------------------------------------------------
\* The inductive invariant.

Phases == {"unused", "queued", "refused", "ready", "working", "sending", "threw", "done", "dead"}

TypeOK ==
  /\ now \in 0 .. MaxTime /\ kind \in Payloads /\ target \in Targets
  /\ exists \in BOOLEAN /\ enabled \in BOOLEAN /\ up \in BOOLEAN
  /\ crashes \in Nat /\ fired \in Nat
  /\ queue \in Seq(Runs) /\ outbox \in Seq(Runs)
  /\ phase \in [Runs -> Phases]
  /\ due \in [Runs -> CronTimes \union {Manual}]
  /\ startedAt \in [Runs -> 0 .. MaxTime]
  /\ attempt \in [Runs -> Nat]
  /\ row \in [Runs -> {"none", "open", "success", "failed", "interrupted"}]
  /\ receipt \in [Keys -> {"none", "delivered", "failed"}]
  /\ sent \in [Runs -> Nat]

\* The code of the run has been started: executeQueuedRun inserted its row.
Began(r) == Live(r) \/ phase[r] \in {"done", "threw"} \/ sent[r] > 0 \/ row[r] # "none"

\* What has not begun is still to be fired, waits in the queue, or never will.
FiredInOrder ==
  /\ \A r \in Runs : phase[r] = "unused" <=> r > fired
  /\ \A r \in Runs : phase[r] \in {"unused", "queued", "refused"} => ~Began(r)

\* The queue holds distinct queued runs, and an occurrence only at its head:
\* a tick fires nothing while anything waits.
QueueInOrder ==
  /\ \A i \in 1 .. Len(queue) : phase[queue[i]] = "queued"
  /\ \A i, j \in 1 .. Len(queue) : queue[i] = queue[j] => i = j
  /\ \A i \in 2 .. Len(queue) : due[queue[i]] = Manual

\* Likewise the runs whose message waits for the session.
OutboxInOrder ==
  /\ \A i \in 1 .. Len(outbox) : phase[outbox[i]] = "sending"
  /\ \A i, j \in 1 .. Len(outbox) : outbox[i] = outbox[j] => i = j

\* A run that began has a row until the schedule is deleted, and began neither
\* in the future nor before it was due.
BegunIsRecorded ==
  /\ \A r \in Runs : Began(r) => startedAt[r] <= now /\ due[r] <= startedAt[r]
  /\ \A r \in Runs : exists /\ Began(r) => row[r] # "none"
  /\ \A i \in 1 .. Len(queue) : due[queue[i]] <= now

\* The occurrence at the head of the queue is later than every recorded start.
HeadIsNew ==
  \A i \in 1 .. Len(queue) : \A s \in Runs :
    exists /\ due[queue[i]] # Manual /\ due[s] # Manual /\ row[s] # "none" => startedAt[s] < due[queue[i]]

\* No two runs begin for one occurrence.
OccurrenceBeginsOnce ==
  \A r, s \in Runs : Began(r) /\ Began(s) /\ due[r] = due[s] /\ r # s => due[r] = Manual

\* A message is sent by the one attempt that ends with it.
SentOnce == \A r \in Runs : sent[r] <= 1 /\ (Live(r) => sent[r] = 0)

\* What the receipts and the rows claim of the session.
ReceiptsAreTrue ==
  Delivers => \A k \in Keys : receipt[k] = "delivered" => \E s \in Runs : Key(s) = k /\ sent[s] > 0

\* No code outlives its process.
DownIsDead == ~up => \A r \in Runs : ~Live(r)

SchedulerInv ==
  /\ TypeOK /\ FiredInOrder /\ QueueInOrder /\ OutboxInOrder /\ BegunIsRecorded
  /\ HeadIsNew /\ OccurrenceBeginsOnce /\ OccurrencesMoveOn /\ SentOnce /\ ReceiptsAreTrue
  /\ SuccessMeansSent /\ DownIsDead /\ OpenRowIsOwned

-----------------------------------------------------------------------------
\* Constants and keys.

\* The runs are numbered from 1, and no occurrence is the manual one.
LEMMA ConstantFacts ==
  /\ Runs \subseteq Nat \ {0} /\ Manual \notin CronTimes
  /\ CronTimes \subseteq 1 .. MaxTime /\ MaxTime \in Nat /\ MaxRetries \in Nat
<1>1. Cardinality(CronTimes) \in Nat
  BY SchedulerAssumption, FS_CardinalityType
<1> QED BY <1>1, SchedulerAssumption DEF Runs, Manual

\* Every run has a key, and two runs share one only for a common occurrence.
LEMMA KeyFacts ==
  ASSUME TypeOK
  PROVE  /\ \A r \in Runs : Key(r) \in Keys
         /\ \A r, s \in Runs : Key(r) = Key(s) => r = s \/ (due[r] = due[s] /\ due[r] # Manual)
<1>1. ASSUME NEW r \in Runs PROVE Key(r) \in Keys
  BY DEF Key, Keys, TypeOK
<1>2. ASSUME NEW r \in Runs, NEW s \in Runs, Key(r) = Key(s)
      PROVE  r = s \/ (due[r] = due[s] /\ due[r] # Manual)
  BY <1>2 DEF Key
<1> QED BY <1>1, <1>2

\* The schedules of which a success is a promise are those that send something.
LEMMA PromisedDelivers ==
  ASSUME TypeOK
  PROVE  Delivers <=> target = "telegram" \/ (target = "slack" /\ kind # "canonical")
BY DEF TypeOK, Delivers, Contract, Payloads

\* A larger set of closed rows is no smaller in number.
LEMMA ClosedCounts ==
  ASSUME NEW S \in SUBSET Runs, NEW T \in SUBSET Runs, S \subseteq T, Cardinality(S) >= StartLimit
  PROVE  Cardinality(T) >= StartLimit
<1>1. Cardinality(CronTimes) \in Nat
  BY SchedulerAssumption, FS_CardinalityType
<1>2. IsFiniteSet(Runs)
  BY <1>1, SchedulerAssumption, FS_Interval DEF Runs
<1>3. IsFiniteSet(T)
  BY <1>2, FS_Subset
<1>4. IsFiniteSet(S) /\ Cardinality(S) <= Cardinality(T)
  BY <1>3, FS_Subset
<1>5. Cardinality(S) \in Nat /\ Cardinality(T) \in Nat
  BY <1>3, <1>4, FS_CardinalityType
<1> QED BY <1>4, <1>5, SchedulerAssumption

\* An open row keeps its owner while no code loses its row and no closed row
\* is opened again.
LEMMA OwnedStaysOwned ==
  ASSUME OpenRowIsOwned, up' => up,
         \A x \in Runs : row'[x] = "open" =>
           \/ phase'[x] \in {"ready", "working", "sending", "threw"}
           \/ row[x] = "open" /\ startedAt'[x] = startedAt[x] /\ phase'[x] = phase[x],
         \A x \in Runs : row[x] = "interrupted" /\ ~Live(x) =>
           row'[x] = "interrupted" /\ phase'[x] \notin {"ready", "working", "sending"}
           /\ startedAt'[x] = startedAt[x]
  PROVE  OpenRowIsOwned'
<1> SUFFICES ASSUME NEW r \in Runs, up', row'[r] = "open",
                    phase'[r] \notin {"ready", "working", "sending", "threw"}
             PROVE  Cardinality(ClosedBefore(r)') >= StartLimit
  BY DEF OpenRowIsOwned, Live
<1>1. row[r] = "open" /\ startedAt'[r] = startedAt[r] /\ phase'[r] = phase[r]
  OBVIOUS
<1>2. Cardinality(ClosedBefore(r)) >= StartLimit
  BY <1>1 DEF OpenRowIsOwned, Live
<1>3. ClosedBefore(r) \subseteq ClosedBefore(r)'
  BY <1>1 DEF ClosedBefore, Live
<1>4. ClosedBefore(r) \in SUBSET Runs /\ ClosedBefore(r)' \in SUBSET Runs
  BY DEF ClosedBefore
<1> QED BY <1>2, <1>3, <1>4, ClosedCounts

-----------------------------------------------------------------------------
\* What the code of a run does.

EndedWell(r, result) ==
  /\ \A x \in Runs \ {r} : phase'[x] = phase[x] /\ row'[x] = row[x]
  /\ phase'[r] \in {"ready", "done"}
  /\ phase'[r] = "ready" => result = "failed" /\ row'[r] = row[r]
  /\ row[r] = "none" => row'[r] = "none"
  /\ row[r] # "none" /\ phase'[r] = "done" => row'[r] = RowOutcome(result)
  /\ phase' \in [Runs -> Phases] /\ attempt' \in [Runs -> Nat]
  /\ row' \in [Runs -> {"none", "open", "success", "failed", "interrupted"}]

\* The end of an attempt retries a failure or closes the row.
LEMMA EndAttemptFacts ==
  ASSUME TypeOK, NEW r \in Runs, NEW result, EndAttempt(r, result)
  PROVE  EndedWell(r, result)
<1>1. RowOutcome(result) \in {"success", "failed"}
  BY DEF RowOutcome
<1>2. NextAttempt(r) \in Nat
  BY DEF NextAttempt, TypeOK
<1>3. phase' \in [Runs -> Phases] /\ attempt' \in [Runs -> Nat]
      /\ row' \in [Runs -> {"none", "open", "success", "failed", "interrupted"}]
  BY <1>1, <1>2 DEF EndAttempt, TypeOK, Phases
<1>4. \A x \in Runs \ {r} : phase'[x] = phase[x] /\ row'[x] = row[x]
  BY DEF EndAttempt, TypeOK
<1>5. CASE Retried(result) /\ AttemptsLeft(r)
  <2>1. phase'[r] = "ready" /\ row'[r] = row[r] /\ result = "failed"
    BY <1>5 DEF EndAttempt, TypeOK, Retried
  <2> QED BY <1>3, <1>4, <2>1 DEF EndedWell
<1>6. CASE ~(Retried(result) /\ AttemptsLeft(r))
  <2>1. phase'[r] = "done" /\ row'[r] = IF row[r] = "none" THEN row[r] ELSE RowOutcome(result)
    BY <1>6 DEF EndAttempt, TypeOK
  <2> QED BY <1>3, <1>4, <2>1 DEF EndedWell
<1> QED BY <1>5, <1>6

\* What a step of a run may do to the run, to the session and to the receipts.
RunMoves(r) ==
  /\ UNCHANGED <<now, schedule, daemon, firings, queue, startedAt>>
  /\ up /\ Live(r)
  /\ \A x \in Runs \ {r} : phase'[x] = phase[x] /\ row'[x] = row[x] /\ sent'[x] = sent[x]
  /\ phase'[r] \in {"ready", "working", "sending", "done", "threw"}
  /\ row[r] = "none" <=> row'[r] = "none"
  /\ row'[r] = "open" => phase'[r] # "done"
  /\ row'[r] = "success" /\ Delivers => row[r] = "success" \/ ExistingDelivered(r) \/ sent'[r] > 0
  /\ sent'[r] \in {sent[r], sent[r] + 1}
  /\ sent'[r] # sent[r] => phase'[r] \in {"done", "threw"}

OutboxMoves(r) ==
  \/ outbox' = outbox /\ phase[r] # "sending"
  \/ phase[r] # "sending" /\ phase'[r] = "sending" /\ outbox' = Append(outbox, r)
  \/ outbox # <<>> /\ Head(outbox) = r /\ outbox' = Tail(outbox)

ReceiptMoves(r) ==
  \A k \in Keys : \/ receipt'[k] = receipt[k]
                  \/ k = Key(r) /\ (receipt'[k] = "delivered" /\ Delivers => sent'[r] > 0)

\* A delivery ends with an answer, or with a schedule that is gone.
LEMMA EndDeliveryFacts ==
  ASSUME TypeOK, NEW r \in Runs, NEW delivered \in BOOLEAN, EndDelivery(r, delivered),
         up, Live(r), UNCHANGED <<now, schedule, daemon, firings, queue, startedAt>>,
         outbox' \in Seq(Runs), sent' \in [Runs -> Nat],
         sent'[r] \in {sent[r], sent[r] + 1}, \A x \in Runs \ {r} : sent'[x] = sent[x],
         delivered /\ Delivers => sent'[r] > 0
  PROVE  RunMoves(r) /\ ReceiptMoves(r) /\ TypeOK'
<1>1. Key(r) \in Keys
  BY KeyFacts
<1>2. CASE /\ Contract /\ ~exists
           /\ phase' = [phase EXCEPT ![r] = "threw"]
           /\ UNCHANGED <<attempt, row, receipt>>
  <2>1. phase' \in [Runs -> Phases] /\ phase'[r] = "threw" /\ \A x \in Runs \ {r} : phase'[x] = phase[x]
    BY <1>2 DEF TypeOK, Phases
  <2>2. RunMoves(r)
    BY <1>2, <2>1 DEF RunMoves, TypeOK
  <2>3. TypeOK'
    BY <1>2, <2>1 DEF TypeOK, schedule, daemon, firings
  <2> QED BY <1>2, <2>2, <2>3 DEF ReceiptMoves
<1>3. ASSUME NEW result \in {"success", "undelivered"}, EndAttempt(r, result),
             result = "success" => delivered,
             \/ UNCHANGED receipt
             \/ receipt' = [receipt EXCEPT ![Key(r)] = IF delivered THEN "delivered" ELSE "failed"]
      PROVE  RunMoves(r) /\ ReceiptMoves(r) /\ TypeOK'
  <2>1. EndedWell(r, result)
    BY <1>3, EndAttemptFacts
  <2>2. ReceiptMoves(r)
    BY <1>1, <1>3 DEF ReceiptMoves, TypeOK
  <2>3. receipt' \in [Keys -> {"none", "delivered", "failed"}]
    BY <1>3 DEF TypeOK
  <2>4. RunMoves(r)
    BY <1>3, <2>1 DEF RunMoves, EndedWell, RowOutcome, TypeOK
  <2>5. TypeOK'
    BY <1>3, <2>1, <2>3 DEF TypeOK, EndedWell, schedule, daemon, firings
  <2> QED BY <2>2, <2>4, <2>5
<1> DEFINE result == IF delivered THEN "success" ELSE "undelivered"
<1>4. result \in {"success", "undelivered"} /\ (result = "success" => delivered)
  OBVIOUS
<1>5. \/ /\ Contract /\ ~exists
         /\ phase' = [phase EXCEPT ![r] = "threw"]
         /\ UNCHANGED <<attempt, row, receipt>>
      \/ /\ receipt' = [receipt EXCEPT ![Key(r)] = IF delivered THEN "delivered" ELSE "failed"]
         /\ EndAttempt(r, result)
      \/ EndAttempt(r, result) /\ UNCHANGED receipt
  BY DEF EndDelivery
<1> HIDE DEF result
<1> QED BY <1>2, <1>3, <1>4, <1>5

\* A send ends with the message, with an answer, with both or with neither.
LEMMA SendEndsFacts ==
  ASSUME TypeOK, NEW r \in Runs, SendEnds(r)
  PROVE  RunMoves(r) /\ OutboxMoves(r) /\ ReceiptMoves(r) /\ TypeOK'
<1>1. /\ up /\ phase[r] = "sending" /\ outbox # <<>> /\ Head(outbox) = r /\ outbox' = Tail(outbox)
      /\ UNCHANGED <<now, schedule, daemon, firings, queue, startedAt>>
  BY DEF SendEnds
<1>2. PICK arrived \in BOOLEAN, returned \in BOOLEAN :
        /\ returned => arrived
        /\ sent' = [sent EXCEPT ![r] = IF arrived THEN @ + 1 ELSE @]
        /\ EndDelivery(r, returned)
  BY DEF SendEnds
<1>3. /\ sent' \in [Runs -> Nat] /\ sent'[r] = (IF arrived THEN sent[r] + 1 ELSE sent[r])
      /\ \A x \in Runs \ {r} : sent'[x] = sent[x]
  BY <1>2 DEF TypeOK
<1>4. returned => sent'[r] > 0
  BY <1>2, <1>3 DEF TypeOK
<1>5. outbox' \in Seq(Runs) /\ Live(r)
  BY <1>1 DEF TypeOK, Live
<1> QED BY <1>1, <1>2, <1>3, <1>4, <1>5, EndDeliveryFacts DEF OutboxMoves

\* A delivery begins, or there is nobody to deliver to.
LEMMA DeliverFacts ==
  ASSUME TypeOK, NEW r \in Runs, Deliver(r), up, phase[r] \in {"ready", "working"},
         UNCHANGED <<now, schedule, daemon, firings, queue, startedAt, sent>>
  PROVE  RunMoves(r) /\ OutboxMoves(r) /\ ReceiptMoves(r) /\ TypeOK'
<1>1. CASE Delivers
  <2>1. /\ phase' = [phase EXCEPT ![r] = "sending"] /\ outbox' = Append(outbox, r)
        /\ UNCHANGED <<attempt, row, receipt>>
    BY <1>1 DEF Deliver
  <2>2. phase' \in [Runs -> Phases] /\ phase'[r] = "sending" /\ \A x \in Runs \ {r} : phase'[x] = phase[x]
    BY <2>1 DEF TypeOK, Phases
  <2>3. RunMoves(r)
    BY <2>1, <2>2 DEF RunMoves, Live, TypeOK
  <2>4. outbox' \in Seq(Runs)
    BY <2>1 DEF TypeOK
  <2>5. TypeOK'
    BY <2>1, <2>2, <2>4 DEF TypeOK, schedule, daemon, firings
  <2> QED BY <2>1, <2>2, <2>3, <2>5 DEF OutboxMoves, ReceiptMoves
<1>2. CASE ~Delivers
  <2>1. EndDelivery(r, TRUE) /\ outbox' = outbox
    BY <1>2 DEF Deliver
  <2>2. outbox' \in Seq(Runs) /\ sent' \in [Runs -> Nat] /\ Live(r)
    BY <2>1 DEF TypeOK, Live
  <2> QED BY <1>2, <2>1, <2>2, EndDeliveryFacts DEF OutboxMoves
<1> QED BY <1>1, <1>2

\* The same of every step of a run.
LEMMA StepFacts ==
  ASSUME TypeOK, NEW r \in Runs, Step(r)
  PROVE  RunMoves(r) /\ OutboxMoves(r) /\ ReceiptMoves(r) /\ TypeOK'
<1>1. ASSUME NEW result \in {"success", "failed", "unretryable"}, EndAttempt(r, result),
             result = "success" => ExistingDelivered(r),
             up, phase[r] \in {"ready", "working"},
             UNCHANGED <<now, schedule, daemon, firings, queue, outbox, startedAt, receipt, sent>>
      PROVE  RunMoves(r) /\ OutboxMoves(r) /\ ReceiptMoves(r) /\ TypeOK'
  <2>1. EndedWell(r, result)
    BY <1>1, EndAttemptFacts
  <2>2. RunMoves(r)
    BY <1>1, <2>1 DEF RunMoves, EndedWell, Live, RowOutcome, TypeOK
  <2>3. TypeOK'
    BY <1>1, <2>1 DEF TypeOK, EndedWell, schedule, daemon, firings
  <2> QED BY <1>1, <2>2, <2>3 DEF OutboxMoves, ReceiptMoves
<1>2. ASSUME NEW to \in {"working", "threw"}, phase' = [phase EXCEPT ![r] = to],
             up, phase[r] \in {"ready", "working"},
             UNCHANGED <<now, schedule, daemon, firings, queue, outbox, startedAt, attempt, row, receipt, sent>>
      PROVE  RunMoves(r) /\ OutboxMoves(r) /\ ReceiptMoves(r) /\ TypeOK'
  <2>1. phase' \in [Runs -> Phases] /\ phase'[r] = to /\ \A x \in Runs \ {r} : phase'[x] = phase[x]
    BY <1>2 DEF TypeOK, Phases
  <2>2. RunMoves(r)
    BY <1>2, <2>1 DEF RunMoves, Live, TypeOK
  <2>3. TypeOK'
    BY <1>2, <2>1 DEF TypeOK, schedule, daemon, firings
  <2>4. OutboxMoves(r)
    BY <1>2, <2>1 DEF OutboxMoves
  <2> QED BY <1>2, <2>2, <2>3, <2>4 DEF ReceiptMoves
<1>3. CASE AttemptRefused(r)
  BY <1>1, <1>3 DEF AttemptRefused, Failing
<1>4. CASE AttemptThrows(r)
  BY <1>2, <1>4 DEF AttemptThrows
<1>5. CASE AttemptSends(r)
  BY <1>1, <1>5, DeliverFacts DEF AttemptSends
<1>6. CASE AttemptWorks(r)
  BY <1>1, <1>2, <1>6 DEF AttemptWorks
<1>7. CASE WorkFails(r)
  BY <1>1, <1>7 DEF WorkFails, Failing
<1>8. CASE WorkSucceeds(r)
  BY <1>8, DeliverFacts DEF WorkSucceeds
<1>9. CASE SendEnds(r)
  BY <1>9, SendEndsFacts
<1> QED BY <1>3, <1>4, <1>5, <1>6, <1>7, <1>8, <1>9 DEF Step

-----------------------------------------------------------------------------
\* Every step keeps the invariant.

\* A step of a run begins nothing and fires nothing.
LEMMA RunKeepsInv ==
  ASSUME SchedulerInv, NEW r \in Runs, Step(r)
  PROVE  SchedulerInv'
<1>0. TypeOK /\ RunMoves(r) /\ OutboxMoves(r) /\ ReceiptMoves(r) /\ TypeOK'
  BY StepFacts DEF SchedulerInv
<1>1. UNCHANGED <<now, kind, target, exists, enabled, up, crashes, fired, due, queue, startedAt>>
  BY <1>0 DEF RunMoves, schedule, daemon, firings
<1>2. \A x \in Runs : Began(x)' <=> Began(x)
  <2>1. Began(r) /\ Began(r)'
    BY <1>0 DEF RunMoves, Began, Live
  <2> QED BY <1>0, <2>1 DEF RunMoves, Began, Live
<1>3. \A x \in Runs : Key(x)' = Key(x)
  BY <1>1 DEF Key
<1>4. \A x \in Runs : row[x] = "none" <=> row'[x] = "none"
  BY <1>0 DEF RunMoves
<1>5. FiredInOrder'
  <2>1. phase[r] \notin {"unused", "queued", "refused"} /\ phase'[r] \notin {"unused", "queued", "refused"}
    BY <1>0 DEF RunMoves, Live
  <2> QED BY <1>0, <1>1, <1>2, <2>1 DEF SchedulerInv, FiredInOrder, RunMoves
<1>6. QueueInOrder'
  <2>1. \A i \in 1 .. Len(queue) : queue[i] \in Runs /\ queue[i] # r
    <3>1. queue \in Seq(Runs)
      BY <1>0 DEF TypeOK
    <3>2. phase[r] # "queued"
      BY <1>0 DEF RunMoves, Live
    <3> QED BY <3>1, <3>2 DEF SchedulerInv, QueueInOrder
  <2> QED BY <1>0, <1>1, <2>1 DEF SchedulerInv, QueueInOrder, RunMoves
<1>7. OutboxInOrder'
  <2>0. outbox \in Seq(Runs)
    BY <1>0 DEF TypeOK
  <2>1. CASE outbox' = outbox /\ phase[r] # "sending"
    BY <1>0, <2>0, <2>1 DEF SchedulerInv, OutboxInOrder, RunMoves
  <2>2. CASE phase[r] # "sending" /\ phase'[r] = "sending" /\ outbox' = Append(outbox, r)
    <3>1. Len(outbox') = Len(outbox) + 1 /\ outbox'[Len(outbox) + 1] = r
          /\ \A i \in 1 .. Len(outbox) : outbox'[i] = outbox[i] /\ outbox[i] \in Runs
      BY <2>0, <2>2
    <3>2. \A i \in 1 .. Len(outbox) : outbox[i] # r /\ phase'[outbox[i]] = "sending"
      BY <1>0, <2>2, <3>1 DEF SchedulerInv, OutboxInOrder, RunMoves
    <3> QED BY <2>0, <2>2, <3>1, <3>2 DEF SchedulerInv, OutboxInOrder
  <2>3. CASE outbox # <<>> /\ Head(outbox) = r /\ outbox' = Tail(outbox)
    <3>1. Len(outbox') = Len(outbox) - 1 /\ outbox[1] = r /\ 1 \in 1 .. Len(outbox)
          /\ \A i \in 1 .. Len(outbox) - 1 : outbox'[i] = outbox[i + 1] /\ i + 1 \in 1 .. Len(outbox)
      BY <2>0, <2>3
    <3>2. \A i \in 1 .. Len(outbox) - 1 : outbox'[i] # r /\ outbox'[i] \in Runs
      BY <2>0, <3>1 DEF SchedulerInv, OutboxInOrder
    <3>3. \A i \in 1 .. Len(outbox') : phase'[outbox'[i]] = "sending"
      BY <1>0, <3>1, <3>2 DEF SchedulerInv, OutboxInOrder, RunMoves
    <3>4. ASSUME NEW i \in 1 .. Len(outbox'), NEW j \in 1 .. Len(outbox'), outbox'[i] = outbox'[j]
          PROVE  i = j
      <4>1. outbox[i + 1] = outbox[j + 1] /\ i + 1 \in 1 .. Len(outbox) /\ j + 1 \in 1 .. Len(outbox)
        BY <3>1, <3>4
      <4> QED BY <4>1 DEF SchedulerInv, OutboxInOrder
    <3> QED BY <3>3, <3>4 DEF OutboxInOrder
  <2> QED BY <1>0, <2>1, <2>2, <2>3 DEF OutboxMoves
<1>8. BegunIsRecorded'
  BY <1>1, <1>2, <1>4 DEF SchedulerInv, BegunIsRecorded
<1>9. HeadIsNew'
  BY <1>1, <1>4 DEF SchedulerInv, HeadIsNew
<1>10. OccurrenceBeginsOnce'
  BY <1>1, <1>2 DEF SchedulerInv, OccurrenceBeginsOnce
<1>11. OccurrencesMoveOn'
  <2>1. FiredByTick' = FiredByTick
    BY <1>1, <1>4 DEF FiredByTick, Recorded
  <2> QED BY <1>1, <2>1 DEF SchedulerInv, OccurrencesMoveOn
<1>12. SentOnce'
  <2>1. sent[r] = 0
    BY <1>0 DEF SchedulerInv, SentOnce, RunMoves
  <2>2. sent'[r] <= 1 /\ (Live(r)' => sent'[r] = 0)
    BY <1>0, <1>1, <2>1 DEF RunMoves, Live
  <2> QED BY <1>0, <1>1, <2>2 DEF SchedulerInv, SentOnce, RunMoves, Live
<1>13. \A x \in Runs : sent[x] > 0 => sent'[x] > 0
  <2>1. sent[r] \in Nat /\ sent'[r] \in {sent[r], sent[r] + 1}
    BY <1>0 DEF RunMoves, TypeOK
  <2>2. \A x \in Runs \ {r} : sent'[x] = sent[x]
    BY <1>0 DEF RunMoves
  <2> QED BY <2>1, <2>2
<1>d. /\ Delivers <=> Delivers'
      /\ Delivers <=> target = "telegram" \/ (target = "slack" /\ kind # "canonical")
  BY <1>0, <1>1, PromisedDelivers DEF Delivers, Contract
<1>14. ReceiptsAreTrue'
  BY <1>0, <1>3, <1>13, <1>d DEF SchedulerInv, ReceiptsAreTrue, ReceiptMoves
<1>15. SuccessMeansSent'
  <2> SUFFICES ASSUME Delivers
               PROVE  \A x \in Runs : row'[x] = "success" => \E s \in Runs : Key(s)' = Key(x)' /\ sent'[s] > 0
    BY <1>1, <1>d DEF SuccessMeansSent
  <2>0. \A x \in Runs : row[x] = "success" => \E s \in Runs : Key(s) = Key(x) /\ sent[s] > 0
    BY <1>d DEF SchedulerInv, SuccessMeansSent
  <2>1. Key(r) \in Keys
    BY <1>0, KeyFacts
  <2>2. ExistingDelivered(r) => \E s \in Runs : Key(s) = Key(r) /\ sent[s] > 0
    BY <2>1 DEF SchedulerInv, ReceiptsAreTrue, ExistingDelivered
  <2>3. row'[r] = "success" => \E s \in Runs : Key(s) = Key(r) /\ sent'[s] > 0
    <3>1. CASE row[r] = "success"
      BY <1>13, <2>0, <3>1
    <3>2. CASE ExistingDelivered(r)
      BY <1>13, <2>2, <3>2
    <3>3. CASE sent'[r] > 0
      BY <3>3
    <3> QED BY <1>0, <3>1, <3>2, <3>3 DEF RunMoves
  <2>4. ASSUME NEW x \in Runs \ {r}, row'[x] = "success"
        PROVE  \E s \in Runs : Key(s) = Key(x) /\ sent'[s] > 0
    BY <1>0, <1>13, <2>0, <2>4 DEF RunMoves
  <2> QED BY <1>3, <2>3, <2>4
<1>16. OpenRowIsOwned' /\ DownIsDead'
  <2>1. row'[r] = "open" => phase'[r] \in {"ready", "working", "sending", "threw"}
    BY <1>0 DEF RunMoves
  <2>2. Live(r) /\ up /\ up'
    BY <1>0, <1>1 DEF RunMoves
  <2>3. \A x \in Runs \ {r} : phase'[x] = phase[x] /\ row'[x] = row[x]
    BY <1>0 DEF RunMoves
  <2>4. OpenRowIsOwned'
    BY <1>1, <2>1, <2>2, <2>3, OwnedStaysOwned DEF SchedulerInv, Live
  <2> QED BY <2>2, <2>4 DEF DownIsDead
<1> QED BY <1>0, <1>5, <1>6, <1>7, <1>8, <1>9, <1>10, <1>11, <1>12, <1>14, <1>15, <1>16
        DEF SchedulerInv

\* The occurrence that a tick fires is later than every recorded start.
LEMMA NextRunIsLater ==
  ASSUME TypeOK, NEW d \in NextRun(LastRunAt)
  PROVE  d \in CronTimes /\ \A r \in Runs : row[r] # "none" => startedAt[r] < d
<1> DEFINE S == {0} \union {startedAt[r] : r \in Recorded}
<1>1. S \in SUBSET (0 .. MaxTime) /\ S # {} /\ MaxTime \in Nat
  BY ConstantFacts DEF TypeOK, Recorded
<1>2. \A y \in S : y <= Max(S)
  BY <1>1, BoundedMax
<1>3. Max(S) \in S
  BY <1>1, BoundedMax
<1>4. LastRunAt = Max(S)
  BY DEF LastRunAt
<1>5. d \in CronTimes /\ d > Max(S)
  BY <1>4 DEF NextRun
<1> HIDE DEF S
<1>6. ASSUME NEW r \in Runs, row[r] # "none" PROVE startedAt[r] < d
  <2>1. startedAt[r] \in S
    BY <1>6 DEF S, Recorded
  <2>2. startedAt[r] \in Int /\ d \in Int /\ Max(S) \in Int
    <3>1. 0 .. MaxTime \subseteq Int /\ CronTimes \subseteq Int
      BY ConstantFacts
    <3>2. startedAt[r] \in 0 .. MaxTime
      BY DEF TypeOK
    <3> QED BY <1>1, <1>3, <1>5, <3>1, <3>2
  <2> QED BY <1>2, <1>5, <2>1, <2>2
<1> QED BY <1>5, <1>6

\* A firing names a new run; an occurrence is fired only into an empty queue.
LEMMA FiringKeepsInv ==
  ASSUME SchedulerInv, Tick \/ RunNow
  PROVE  SchedulerInv'
<1> DEFINE f == fired + 1
<1>1. PICK d \in CronTimes \union {Manual} :
        /\ Enqueue(d) /\ d <= now
        /\ d # Manual => queue = <<>> /\ \A r \in Runs : row[r] # "none" => startedAt[r] < d
  <2>1. CASE Tick
    <3>1. PICK d \in NextRun(LastRunAt) : d <= now /\ Enqueue(d) /\ queue = <<>>
      BY <2>1 DEF Tick
    <3> QED BY <3>1, NextRunIsLater DEF SchedulerInv
  <2>2. CASE RunNow
    BY <2>2 DEF RunNow, Manual, SchedulerInv, TypeOK
  <2> QED BY <2>1, <2>2
<1>0. TypeOK /\ f \in Runs /\ fired \in Nat /\ queue \in Seq(Runs)
  BY <1>1 DEF Enqueue, SchedulerInv, TypeOK
<1>2. /\ fired' = f /\ queue' = Append(queue, f)
      /\ UNCHANGED <<now, kind, target, exists, enabled, up, crashes, outbox, startedAt, attempt, row, receipt, sent>>
      /\ phase'[f] = "queued" /\ due'[f] = d
      /\ \A x \in Runs \ {f} : phase'[x] = phase[x] /\ due'[x] = due[x]
  BY <1>0, <1>1 DEF Enqueue, TypeOK, schedule, daemon
<1>3. TypeOK'
  <2>1. phase' \in [Runs -> Phases] /\ due' \in [Runs -> CronTimes \union {Manual}] /\ queue' \in Seq(Runs)
    BY <1>0, <1>1 DEF Enqueue, TypeOK, Phases
  <2> QED BY <1>0, <1>2, <2>1 DEF TypeOK
<1>4. phase[f] = "unused" /\ ~Began(f)
  BY <1>0 DEF SchedulerInv, FiredInOrder
<1>5. \A x \in Runs : Began(x)' <=> Began(x)
  BY <1>2, <1>4 DEF Began, Live
<1>6. \A x \in Runs \ {f} : Key(x)' = Key(x)
  BY <1>2 DEF Key
<1>7. \A x \in Runs : row[x] # "none" \/ sent[x] > 0 => x # f
  BY <1>4 DEF Began
<1>8. FiredInOrder'
  <2>1. \A x \in Runs : x > f <=> x > fired /\ x # f
    BY <1>0, ConstantFacts
  <2>2. \A x \in Runs : phase'[x] = "unused" <=> x > f
    BY <1>2, <2>1 DEF SchedulerInv, FiredInOrder
  <2> QED BY <1>2, <1>4, <1>5, <2>2 DEF SchedulerInv, FiredInOrder
<1>9. /\ Len(queue') = Len(queue) + 1 /\ queue'[Len(queue) + 1] = f
      /\ \A i \in 1 .. Len(queue) : queue'[i] = queue[i] /\ queue[i] \in Runs
  BY <1>0, <1>2
<1>10. \A i \in 1 .. Len(queue) : queue[i] # f
  BY <1>4 DEF SchedulerInv, QueueInOrder
<1>11. QueueInOrder'
  <2>1. \A i \in 1 .. Len(queue') : phase'[queue'[i]] = "queued"
    BY <1>0, <1>2, <1>9, <1>10 DEF SchedulerInv, QueueInOrder
  <2>2. \A i, j \in 1 .. Len(queue') : queue'[i] = queue'[j] => i = j
    BY <1>0, <1>9, <1>10 DEF SchedulerInv, QueueInOrder
  <2>3. \A i \in 2 .. Len(queue') : due'[queue'[i]] = Manual
    <3> SUFFICES ASSUME NEW i \in 2 .. Len(queue') PROVE due'[queue'[i]] = Manual
      OBVIOUS
    <3>1. CASE i = Len(queue) + 1
      <4>1. queue # <<>>
        BY <1>0, <3>1
      <4> QED BY <1>1, <1>2, <1>9, <3>1, <4>1
    <3>2. CASE i # Len(queue) + 1
      <4>1. i \in 2 .. Len(queue) /\ i \in 1 .. Len(queue)
        BY <1>0, <1>9, <3>2
      <4> QED BY <1>2, <1>9, <1>10, <4>1 DEF SchedulerInv, QueueInOrder
    <3> QED BY <3>1, <3>2
  <2> QED BY <2>1, <2>2, <2>3 DEF QueueInOrder
<1>12. OutboxInOrder'
  <2>1. \A i \in 1 .. Len(outbox) : outbox[i] \in Runs
    BY <1>0 DEF TypeOK
  <2> QED BY <1>2, <1>4, <2>1 DEF SchedulerInv, OutboxInOrder
<1>13. BegunIsRecorded'
  <2>1. \A i \in 1 .. Len(queue') : due'[queue'[i]] <= now
    BY <1>0, <1>1, <1>2, <1>9, <1>10 DEF SchedulerInv, BegunIsRecorded
  <2> QED BY <1>2, <1>4, <1>5, <2>1 DEF SchedulerInv, BegunIsRecorded
<1>14. HeadIsNew'
  <2> SUFFICES ASSUME NEW i \in 1 .. Len(queue'), NEW s \in Runs,
                      exists, due'[queue'[i]] # Manual, due'[s] # Manual, row[s] # "none"
               PROVE  startedAt[s] < due'[queue'[i]]
    BY <1>2 DEF HeadIsNew
  <2>1. s # f
    BY <1>7
  <2>2. CASE i = Len(queue) + 1
    BY <1>1, <1>2, <1>9, <2>2
  <2>3. CASE i # Len(queue) + 1
    <3>1. i \in 1 .. Len(queue)
      BY <1>0, <1>9, <2>3
    <3> QED BY <1>2, <1>9, <1>10, <2>1, <3>1 DEF SchedulerInv, HeadIsNew
  <2> QED BY <2>2, <2>3
<1>15. OccurrenceBeginsOnce'
  BY <1>2, <1>4, <1>5 DEF SchedulerInv, OccurrenceBeginsOnce
<1>16. OccurrencesMoveOn'
  <2>1. \A x \in FiredByTick' : x \in FiredByTick /\ due'[x] = due[x]
    BY <1>2, <1>7 DEF FiredByTick, Recorded
  <2> QED BY <1>2, <2>1 DEF SchedulerInv, OccurrencesMoveOn
<1>17. SentOnce'
  BY <1>2, <1>4 DEF SchedulerInv, SentOnce, Live
<1>18. ReceiptsAreTrue'
  BY <1>2, <1>6, <1>7 DEF SchedulerInv, ReceiptsAreTrue, Delivers, Contract
<1>19. SuccessMeansSent'
  <2> SUFFICES ASSUME NEW x \in Runs, row[x] = "success",
                      target = "telegram" \/ (target = "slack" /\ kind # "canonical")
               PROVE  \E s \in Runs : Key(s)' = Key(x)' /\ sent[s] > 0
    BY <1>2 DEF SuccessMeansSent
  <2>1. PICK s \in Runs : Key(s) = Key(x) /\ sent[s] > 0
    BY DEF SchedulerInv, SuccessMeansSent
  <2> QED BY <1>6, <1>7, <2>1
<1>20. OpenRowIsOwned' /\ DownIsDead'
  <2>1. \A x \in Runs : row[x] # "none" => phase'[x] = phase[x] /\ row'[x] = row[x] /\ startedAt'[x] = startedAt[x]
    BY <1>2, <1>7
  <2>2. OpenRowIsOwned'
    BY <1>2, <2>1, OwnedStaysOwned DEF SchedulerInv, Live
  <2> QED BY <1>2, <2>2 DEF SchedulerInv, DownIsDead, Live
<1> QED BY <1>3, <1>8, <1>11, <1>12, <1>13, <1>14, <1>15, <1>16, <1>17, <1>18, <1>19, <1>20
        DEF SchedulerInv

\* The head of the queue begins, if there still is a schedule.
LEMMA StartKeepsInv ==
  ASSUME SchedulerInv, ExecuteQueuedRun
  PROVE  SchedulerInv'
<1>0. /\ TypeOK /\ up /\ queue # <<>> /\ queue \in Seq(Runs) /\ queue' = Tail(queue)
      /\ UNCHANGED <<now, kind, target, exists, enabled, up, crashes, fired, due, outbox, attempt, receipt, sent>>
  BY DEF ExecuteQueuedRun, SchedulerInv, TypeOK, schedule, daemon, firings
<1>h. PICK h \in Runs : h = Head(queue)
  BY <1>0
<1>1. /\ h \in Runs /\ h = queue[1] /\ 1 \in 1 .. Len(queue)
      /\ Len(queue') = Len(queue) - 1 /\ queue' \in Seq(Runs)
      /\ \A i \in 1 .. Len(queue') : /\ queue'[i] = queue[i + 1] /\ i + 1 \in 2 .. Len(queue)
                                     /\ i + 1 \in 1 .. Len(queue) /\ queue[i + 1] \in Runs
  BY <1>0, <1>h
<1>2. \/ exists /\ phase' = [phase EXCEPT ![h] = "ready"]
           /\ startedAt' = [startedAt EXCEPT ![h] = now] /\ row' = [row EXCEPT ![h] = "open"]
      \/ ~exists /\ phase' = [phase EXCEPT ![h] = "refused"] /\ UNCHANGED <<startedAt, row>>
  BY <1>h DEF ExecuteQueuedRun
<1>3. phase[h] = "queued" /\ ~Began(h) /\ sent[h] = 0 /\ row[h] = "none" /\ h <= fired
  <2>1. phase[h] = "queued" /\ ~Began(h)
    BY <1>1 DEF SchedulerInv, QueueInOrder, FiredInOrder
  <2>2. h \in Nat /\ fired \in Nat /\ sent[h] \in Nat
    BY <1>0, <1>1, ConstantFacts DEF TypeOK
  <2> QED BY <1>1, <2>1, <2>2 DEF SchedulerInv, FiredInOrder, Began
<1>4. \A i \in 1 .. Len(queue') : queue'[i] # h /\ due[queue'[i]] = Manual
  <2> SUFFICES ASSUME NEW i \in 1 .. Len(queue') PROVE queue'[i] # h /\ due[queue'[i]] = Manual
    OBVIOUS
  <2>1. queue[i + 1] = queue[1] => i + 1 = 1
    BY <1>1 DEF SchedulerInv, QueueInOrder
  <2> QED BY <1>1, <2>1 DEF SchedulerInv, QueueInOrder
<1>5. /\ \A x \in Runs \ {h} : phase'[x] = phase[x] /\ row'[x] = row[x] /\ startedAt'[x] = startedAt[x]
      /\ phase'[h] \in {"ready", "refused"}
      /\ exists => phase'[h] = "ready" /\ startedAt'[h] = now /\ row'[h] = "open"
      /\ ~exists => phase'[h] = "refused" /\ row'[h] = "none"
  BY <1>0, <1>1, <1>2, <1>3 DEF TypeOK
<1>6. TypeOK'
  <2>1. phase' \in [Runs -> Phases]
    BY <1>0, <1>2 DEF TypeOK, Phases
  <2>2. startedAt' \in [Runs -> 0 .. MaxTime]
    BY <1>0, <1>2 DEF TypeOK
  <2>3. row' \in [Runs -> {"none", "open", "success", "failed", "interrupted"}]
    BY <1>0, <1>2 DEF TypeOK
  <2> QED BY <1>0, <1>1, <2>1, <2>2, <2>3 DEF TypeOK
<1>7. \A x \in Runs \ {h} : Began(x)' <=> Began(x)
  BY <1>0, <1>5 DEF Began, Live
<1>8. ~exists => ~Began(h)'
  BY <1>0, <1>3, <1>5 DEF Began, Live
<1>9. \A x \in Runs : Key(x)' = Key(x)
  BY <1>0 DEF Key
<1>10. FiredInOrder'
  <2>1. h \in Nat /\ fired \in Nat
    BY <1>0, <1>1, ConstantFacts DEF TypeOK
  <2>2. phase'[h] # "unused" /\ ~(h > fired)
    BY <1>3, <1>5, <2>1
  <2> QED BY <1>0, <1>5, <1>7, <1>8, <2>2 DEF SchedulerInv, FiredInOrder
<1>11. QueueInOrder'
  <2>1. \A i \in 1 .. Len(queue') : phase'[queue'[i]] = "queued"
    BY <1>1, <1>4, <1>5 DEF SchedulerInv, QueueInOrder
  <2>2. ASSUME NEW i \in 1 .. Len(queue'), NEW j \in 1 .. Len(queue'), queue'[i] = queue'[j] PROVE i = j
    <3>1. queue[i + 1] = queue[j + 1]
      BY <1>1, <2>2
    <3> QED BY <1>1, <3>1 DEF SchedulerInv, QueueInOrder
  <2>3. \A i \in 2 .. Len(queue') : due[queue'[i]] = Manual
    BY <1>4
  <2> QED BY <1>0, <2>1, <2>2, <2>3 DEF QueueInOrder
<1>12. OutboxInOrder'
  <2>1. \A i \in 1 .. Len(outbox) : outbox[i] \in Runs
    BY <1>0 DEF TypeOK
  <2> QED BY <1>0, <1>3, <1>5, <2>1 DEF SchedulerInv, OutboxInOrder
<1>13. now \in Nat /\ due[h] <= now
  BY <1>0, <1>1, ConstantFacts DEF SchedulerInv, BegunIsRecorded, TypeOK
<1>14. BegunIsRecorded'
  <2>1. \A i \in 1 .. Len(queue') : due[queue'[i]] <= now
    BY <1>1 DEF SchedulerInv, BegunIsRecorded
  <2>2. ASSUME NEW x \in Runs, Began(x)'
        PROVE  startedAt'[x] <= now /\ due[x] <= startedAt'[x] /\ (exists => row'[x] # "none")
    <3>1. CASE x = h
      <4>1. exists
        BY <1>8, <2>2, <3>1
      <4> QED BY <1>5, <1>13, <3>1, <4>1
    <3>2. CASE x # h
      <4>1. Began(x) /\ startedAt'[x] = startedAt[x] /\ row'[x] = row[x]
        BY <1>5, <1>7, <2>2, <3>2
      <4> QED BY <4>1 DEF SchedulerInv, BegunIsRecorded
    <3> QED BY <3>1, <3>2
  <2> QED BY <1>0, <2>1, <2>2 DEF BegunIsRecorded
<1>15. HeadIsNew'
  BY <1>0, <1>4 DEF HeadIsNew
<1>16. ASSUME exists, NEW s \in Runs \ {h}, due[h] # Manual, due[s] # Manual, row[s] # "none"
       PROVE  startedAt[s] < due[h]
  BY <1>1, <1>16 DEF SchedulerInv, HeadIsNew
<1>17. \A x \in Runs : due[x] \in Int /\ startedAt[x] \in Int
  <2>1. 0 .. MaxTime \subseteq Int /\ CronTimes \union {Manual} \subseteq Int
    BY ConstantFacts DEF Manual
  <2> QED BY <1>0, <2>1 DEF TypeOK
<1>18. OccurrenceBeginsOnce'
  <2>1. ASSUME NEW s \in Runs \ {h}, exists, Began(s), due[h] = due[s] PROVE due[h] = Manual
    <3>1. row[s] # "none" /\ due[s] <= startedAt[s]
      BY <2>1 DEF SchedulerInv, BegunIsRecorded
    <3>2. due[h] # Manual => startedAt[s] < due[h]
      BY <1>16, <2>1, <3>1
    <3> QED BY <1>1, <1>17, <2>1, <3>1, <3>2
  <2> QED BY <1>0, <1>7, <1>8, <2>1 DEF SchedulerInv, OccurrenceBeginsOnce
<1>19. OccurrencesMoveOn'
  <2>1. \A x \in FiredByTick' \ {h} : x \in FiredByTick /\ x \in Runs /\ startedAt'[x] = startedAt[x]
    BY <1>0, <1>5 DEF FiredByTick, Recorded
  <2>2. h \in FiredByTick' => exists /\ due[h] # Manual
    BY <1>0, <1>5 DEF FiredByTick, Recorded
  <2>3. \A x \in FiredByTick : due[x] # Manual /\ row[x] # "none"
    BY DEF FiredByTick, Recorded
  <2> QED BY <1>0, <1>16, <2>1, <2>2, <2>3 DEF SchedulerInv, OccurrencesMoveOn
<1>20. SentOnce'
  BY <1>0, <1>3, <1>5 DEF SchedulerInv, SentOnce, Live
<1>21. ReceiptsAreTrue'
  BY <1>0, <1>9 DEF SchedulerInv, ReceiptsAreTrue, Delivers, Contract
<1>22. SuccessMeansSent'
  BY <1>0, <1>5, <1>9 DEF SchedulerInv, SuccessMeansSent
<1>23. OpenRowIsOwned' /\ DownIsDead'
  <2>1. row'[h] = "open" => phase'[h] = "ready"
    BY <1>5
  <2>2. row[h] # "interrupted"
    BY <1>3
  <2>3. OpenRowIsOwned'
    BY <1>0, <1>5, <2>1, <2>2, OwnedStaysOwned DEF SchedulerInv, Live
  <2> QED BY <1>0, <2>3 DEF DownIsDead
<1> QED BY <1>6, <1>10, <1>11, <1>12, <1>14, <1>15, <1>18, <1>19, <1>20, <1>21, <1>22, <1>23
        DEF SchedulerInv

\* Rows that are closed or lost, and the clock, break nothing.
LEMMA RowsKeepInv ==
  ASSUME SchedulerInv, ClockAdvances \/ Toggle \/ Restart \/ CrontabBoots \/ UNCHANGED vars
  PROVE  SchedulerInv'
<1>0. /\ TypeOK
      /\ UNCHANGED <<kind, target, exists, crashes, fired, due, queue, outbox, phase, startedAt, attempt, receipt, sent>>
      /\ now' \in 0 .. MaxTime /\ now <= now' /\ enabled' \in BOOLEAN /\ up' \in BOOLEAN
      /\ row' = row \/ InterruptRuns
      /\ up' = up \/ (~up /\ up' /\ InterruptRuns)
  <2> USE DEF SchedulerInv, TypeOK, schedule, daemon, firings
  <2>0. now \in 0 .. MaxTime /\ now \in Int /\ MaxTime \in Int
    BY ConstantFacts
  <2>1. CASE ClockAdvances
    BY <2>0, <2>1 DEF ClockAdvances
  <2>2. CASE Toggle
    BY <2>0, <2>2 DEF Toggle
  <2>3. CASE Restart
    <3>1. ~up /\ up' = TRUE /\ InterruptRuns
      BY <2>3 DEF Restart
    <3>2. up' = up \/ (~up /\ up' /\ InterruptRuns)
      BY <3>1
    <3>3. UNCHANGED <<now, kind, target, exists, enabled, crashes, fired, due, queue, outbox, phase,
                      startedAt, attempt, receipt, sent>>
      BY <2>3 DEF Restart
    <3>4. now <= now' /\ now' \in 0 .. MaxTime
      BY <2>0, <3>3
    <3>5. TypeOK /\ enabled' \in BOOLEAN /\ up' \in BOOLEAN
      BY <3>1, <3>3
    <3> HIDE DEF SchedulerInv, TypeOK, schedule, daemon, firings
    <3> QED BY <3>1, <3>2, <3>3, <3>4, <3>5
  <2>4. CASE CrontabBoots
    BY <2>0, <2>4 DEF CrontabBoots
  <2>5. CASE UNCHANGED vars
    BY <2>0, <2>5 DEF vars
  <2> QED BY <2>1, <2>2, <2>3, <2>4, <2>5
<1>1. \A x \in Runs : row'[x] = row[x] \/ (row[x] = "open" /\ row'[x] = "interrupted")
  <2>1. CASE InterruptRuns
    BY <2>1 DEF InterruptRuns, Interruptible
  <2> QED BY <1>0, <2>1
<1>2. row' \in [Runs -> {"none", "open", "success", "failed", "interrupted"}]
  <2>1. CASE InterruptRuns
    BY <1>0, <2>1 DEF InterruptRuns, TypeOK
  <2> QED BY <1>0, <2>1 DEF TypeOK
<1>3. TypeOK'
  BY <1>0, <1>2 DEF TypeOK
<1>4. \A x \in Runs : (Began(x)' <=> Began(x)) /\ Key(x)' = Key(x) /\ (row'[x] = "none" <=> row[x] = "none")
  BY <1>0, <1>1 DEF Began, Live, Key
<1>5. FiredInOrder' /\ QueueInOrder' /\ OutboxInOrder'
  BY <1>0, <1>4 DEF SchedulerInv, FiredInOrder, QueueInOrder, OutboxInOrder
<1>6. BegunIsRecorded'
  <2>1. \A x \in Runs : due[x] \in Int /\ startedAt[x] \in Int
    <3>1. 0 .. MaxTime \subseteq Int /\ CronTimes \union {Manual} \subseteq Int
      BY ConstantFacts DEF Manual
    <3> QED BY <1>0, <3>1 DEF TypeOK
  <2>2. now \in Int /\ now' \in Int
    BY <1>0, ConstantFacts DEF TypeOK
  <2>3. \A i \in 1 .. Len(queue) : queue[i] \in Runs
    BY <1>0 DEF TypeOK
  <2>4. \A x \in Runs : Began(x) => startedAt[x] <= now' /\ due[x] <= startedAt[x]
    BY <1>0, <2>1, <2>2 DEF SchedulerInv, BegunIsRecorded
  <2>5. \A i \in 1 .. Len(queue) : due[queue[i]] <= now'
    BY <1>0, <2>1, <2>2, <2>3 DEF SchedulerInv, BegunIsRecorded
  <2> QED BY <1>0, <1>4, <2>4, <2>5 DEF SchedulerInv, BegunIsRecorded
<1>7. HeadIsNew' /\ OccurrenceBeginsOnce'
  BY <1>0, <1>4 DEF SchedulerInv, HeadIsNew, OccurrenceBeginsOnce
<1>8. OccurrencesMoveOn'
  <2>1. FiredByTick' = FiredByTick
    BY <1>0, <1>4 DEF FiredByTick, Recorded
  <2> QED BY <1>0, <2>1 DEF SchedulerInv, OccurrencesMoveOn
<1>9. SentOnce' /\ ReceiptsAreTrue'
  BY <1>0, <1>4 DEF SchedulerInv, SentOnce, ReceiptsAreTrue, Live, Delivers, Contract
<1>10. SuccessMeansSent'
  BY <1>0, <1>1, <1>4 DEF SchedulerInv, SuccessMeansSent
<1>11. DownIsDead'
  BY <1>0 DEF SchedulerInv, DownIsDead, Live
<1>12. OpenRowIsOwned'
  <2>1. CASE up' = up
    <3>1. \A x \in Runs : phase'[x] = phase[x] /\ startedAt'[x] = startedAt[x]
      BY <1>0
    <3> QED BY <1>1, <2>1, <3>1, OwnedStaysOwned DEF SchedulerInv, Live
  <2>2. CASE ~up /\ InterruptRuns
    <3>1. PICK closed \in SUBSET Interruptible :
            /\ IF Cardinality(Interruptible) <= StartLimit
               THEN closed = Interruptible
               ELSE /\ Cardinality(closed) = StartLimit
                    /\ \A r \in closed, s \in Interruptible \ closed : startedAt[s] <= startedAt[r]
            /\ row' = [r \in Runs |-> IF r \in closed THEN "interrupted" ELSE row[r]]
      BY <2>2 DEF InterruptRuns
    <3> SUFFICES ASSUME NEW r \in Runs, row'[r] = "open"
                 PROVE  Cardinality(ClosedBefore(r)') >= StartLimit
      BY DEF OpenRowIsOwned
    <3>2. r \in Interruptible \ closed
      BY <3>1 DEF Interruptible
    <3>3. /\ Cardinality(closed) = StartLimit
          /\ \A x \in closed : startedAt[r] <= startedAt[x]
      BY <3>1, <3>2
    <3>4. \A x \in closed : x \in Runs /\ row'[x] = "interrupted" /\ phase'[x] \notin {"ready", "working", "sending"}
      BY <1>0, <2>2, <3>1 DEF SchedulerInv, DownIsDead, Live, Interruptible
    <3>5. \A x \in Runs : startedAt'[x] = startedAt[x] /\ startedAt[x] \in Int
      <4>1. 0 .. MaxTime \subseteq Int
        OBVIOUS
      <4> QED BY <1>0, <4>1 DEF TypeOK
    <3>6. closed \subseteq ClosedBefore(r)' /\ closed \subseteq Runs /\ ClosedBefore(r)' \subseteq Runs
      BY <3>3, <3>4, <3>5 DEF ClosedBefore, Live
    <3>7. Cardinality(closed) >= StartLimit
      BY <3>3, SchedulerAssumption
    <3> QED BY <3>6, <3>7, ClosedCounts
  <2> QED BY <1>0, <2>1, <2>2
<1> QED BY <1>3, <1>5, <1>6, <1>7, <1>8, <1>9, <1>10, <1>11, <1>12 DEF SchedulerInv

\* The deletion takes the rows and the receipts with it.
LEMMA DeleteKeepsInv ==
  ASSUME SchedulerInv, Delete
  PROVE  SchedulerInv'
<1>0. /\ TypeOK /\ exists' = FALSE
      /\ UNCHANGED <<now, kind, enabled, up, crashes, fired, due, queue, outbox, phase, startedAt, attempt, sent>>
      /\ \A x \in Runs : row'[x] = "none"
      /\ \A k \in Keys : receipt'[k] = "none"
  BY DEF Delete, SchedulerInv, daemon, firings
<1>1. TypeOK'
  BY <1>0 DEF Delete, TypeOK
<1>2. \A x \in Runs : Began(x)' => Began(x)
  BY <1>0 DEF Began, Live
<1>3. FiredInOrder' /\ QueueInOrder' /\ OutboxInOrder'
  BY <1>0, <1>2 DEF SchedulerInv, FiredInOrder, QueueInOrder, OutboxInOrder
<1>4. BegunIsRecorded' /\ HeadIsNew' /\ OccurrenceBeginsOnce'
  BY <1>0, <1>2 DEF SchedulerInv, BegunIsRecorded, HeadIsNew, OccurrenceBeginsOnce
<1>5. OccurrencesMoveOn' /\ ReceiptsAreTrue' /\ SuccessMeansSent' /\ OpenRowIsOwned'
  BY <1>0 DEF OccurrencesMoveOn, FiredByTick, Recorded, ReceiptsAreTrue, SuccessMeansSent, OpenRowIsOwned
<1>6. SentOnce' /\ DownIsDead'
  BY <1>0 DEF SchedulerInv, SentOnce, DownIsDead, Live
<1> QED BY <1>1, <1>3, <1>4, <1>5, <1>6 DEF SchedulerInv

\* A crash ends every run; only the message that was under way may arrive.
LEMMA CrashKeepsInv ==
  ASSUME SchedulerInv, Crash
  PROVE  SchedulerInv'
<1>0. /\ TypeOK /\ up' = FALSE /\ crashes' = crashes + 1 /\ queue' = <<>> /\ outbox' = <<>>
      /\ UNCHANGED <<now, kind, target, exists, enabled, fired, due, startedAt, attempt, row, receipt>>
      /\ phase' = [r \in Runs |-> IF Live(r) \/ phase[r] = "queued" THEN "dead" ELSE phase[r]]
  BY DEF Crash, SchedulerInv, schedule, firings
<1>1. \A x \in Runs : phase'[x] = IF Live(x) \/ phase[x] = "queued" THEN "dead" ELSE phase[x]
  BY <1>0
<1>2. PICK arrived \in BOOLEAN :
        sent' = [r \in Runs |-> IF arrived /\ outbox # <<>> /\ r = Head(outbox) THEN sent[r] + 1 ELSE sent[r]]
  BY DEF Crash
<1>3. \A x \in Runs : /\ sent'[x] = sent[x] \/ (sent'[x] = sent[x] + 1 /\ Live(x))
                      /\ sent[x] \in Nat
  <2>1. outbox # <<>> => phase[Head(outbox)] = "sending"
    BY <1>0 DEF SchedulerInv, OutboxInOrder, TypeOK
  <2> QED BY <1>0, <1>2, <2>1 DEF Live, TypeOK
<1>4. TypeOK'
  <2>1. phase' \in [Runs -> Phases]
    BY <1>0 DEF TypeOK, Phases
  <2>2. sent' \in [Runs -> Nat]
    BY <1>0, <1>2 DEF TypeOK
  <2>3. queue' \in Seq(Runs) /\ outbox' \in Seq(Runs) /\ crashes' \in Nat
    BY <1>0 DEF TypeOK
  <2> QED BY <1>0, <2>1, <2>2, <2>3 DEF TypeOK
<1>5. \A x \in Runs : Began(x)' => Began(x)
  BY <1>0, <1>1, <1>3 DEF Began, Live
<1>6. \A x \in Runs : Key(x)' = Key(x) /\ (sent[x] > 0 => sent'[x] > 0)
  BY <1>0, <1>3 DEF Key
<1>7. FiredInOrder'
  <2>1. \A x \in Runs : phase'[x] = "unused" <=> phase[x] = "unused"
    BY <1>1 DEF Live
  <2>2. \A x \in Runs : phase'[x] \in {"unused", "queued", "refused"} => phase[x] \in {"unused", "refused"}
    BY <1>1 DEF Live
  <2> QED BY <1>0, <1>5, <2>1, <2>2 DEF SchedulerInv, FiredInOrder
<1>8. QueueInOrder' /\ OutboxInOrder' /\ HeadIsNew'
  BY <1>0 DEF QueueInOrder, OutboxInOrder, HeadIsNew
<1>9. BegunIsRecorded' /\ OccurrenceBeginsOnce'
  BY <1>0, <1>5 DEF SchedulerInv, BegunIsRecorded, OccurrenceBeginsOnce
<1>10. OccurrencesMoveOn'
  BY <1>0 DEF SchedulerInv, OccurrencesMoveOn, FiredByTick, Recorded
<1>11. SentOnce'
  BY <1>0, <1>1, <1>3 DEF SchedulerInv, SentOnce, Live
<1>12. ReceiptsAreTrue' /\ SuccessMeansSent'
  BY <1>0, <1>6 DEF SchedulerInv, ReceiptsAreTrue, SuccessMeansSent, Delivers, Contract
<1>13. OpenRowIsOwned' /\ DownIsDead'
  BY <1>0, <1>1 DEF OpenRowIsOwned, DownIsDead, Live
<1> QED BY <1>4, <1>7, <1>8, <1>9, <1>10, <1>11, <1>12, <1>13 DEF SchedulerInv

-----------------------------------------------------------------------------
\* The theorems.

\* The invariant holds of a schedule that never ran.
LEMMA InitInv == Init => SchedulerInv
<1> SUFFICES ASSUME Init PROVE SchedulerInv
  OBVIOUS
<1>1. TypeOK
  <2>1. kind \in Payloads /\ target \in Targets /\ now \in 0 .. MaxTime
    BY SchedulerAssumption DEF Init
  <2>2. startedAt \in [Runs -> 0 .. MaxTime]
    BY SchedulerAssumption DEF Init
  <2>3. queue \in Seq(Runs) /\ outbox \in Seq(Runs)
    BY DEF Init
  <2> QED BY <2>1, <2>2, <2>3 DEF Init, TypeOK, Phases
<1>2. \A r \in Runs : r > 0
  BY ConstantFacts
<1>3. \A r \in Runs : ~Began(r)
  BY DEF Init, Began, Live
<1>4. FiredInOrder /\ QueueInOrder /\ OutboxInOrder /\ BegunIsRecorded /\ HeadIsNew /\ OccurrenceBeginsOnce
  BY <1>2, <1>3 DEF Init, FiredInOrder, QueueInOrder, OutboxInOrder, BegunIsRecorded, HeadIsNew,
     OccurrenceBeginsOnce
<1>5. OccurrencesMoveOn /\ SentOnce /\ ReceiptsAreTrue /\ SuccessMeansSent /\ DownIsDead /\ OpenRowIsOwned
  BY DEF Init, OccurrencesMoveOn, FiredByTick, Recorded, SentOnce, Live, ReceiptsAreTrue,
     SuccessMeansSent, DownIsDead, OpenRowIsOwned
<1> QED BY <1>1, <1>4, <1>5 DEF SchedulerInv

\* The invariant holds throughout.
LEMMA Invariance == Spec => []SchedulerInv
<1>1. SchedulerInv /\ [Next]_vars => SchedulerInv'
  BY RunKeepsInv, FiringKeepsInv, StartKeepsInv, RowsKeepInv, DeleteKeepsInv, CrashKeepsInv DEF Next
<1> QED BY <1>1, InitInv, PTL DEF Spec

\* Of two recorded runs that ticks fired, one was due after the other had started:
\* no occurrence is fired twice, for any cron expression, retries and crashes.
THEOREM OccurrencesFireOnce == Spec => []OccurrencesMoveOn
BY Invariance, PTL DEF SchedulerInv

\* Whatever the payload and the target, an occurrence and a manual run reach the
\* session at most once.
THEOREM OneMessagePerOccurrence == Spec => []DeliveredOnce
<1>1. SchedulerInv => DeliveredOnce
  <2> SUFFICES ASSUME SchedulerInv,
                      NEW r \in Runs, sent[r] > 0, NEW s \in Runs, sent[s] > 0
               PROVE  sent[r] = 1 /\ (Key(r) = Key(s) => r = s)
    BY DEF DeliveredOnce
  <2>1. sent[r] \in Nat /\ sent[r] <= 1
    BY DEF SchedulerInv, TypeOK, SentOnce
  <2>2. Key(r) = Key(s) => r = s
    BY KeyFacts DEF SchedulerInv, OccurrenceBeginsOnce, Began
  <2> QED BY <2>1, <2>2
<1> QED BY <1>1, Invariance, PTL

\* A run is recorded as a success only if its message reached the session, but
\* for the schedules that have nothing sent: a target that is the gateway itself,
\* and a legacy prompt whose target is Slack.
THEOREM SuccessIsTrue == Spec => []SuccessMeansSent
BY Invariance, PTL DEF SchedulerInv

\* While the daemon runs, an open row has code to close it, or code that threw,
\* or was passed over by a start for as many newer rows as it closes: for any
\* number of rows and any limit.
THEOREM OpenRowsAreOwned == Spec => []OpenRowIsOwned
BY Invariance, PTL DEF SchedulerInv
=============================================================================
