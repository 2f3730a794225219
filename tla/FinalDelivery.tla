--------------------------- MODULE FinalDelivery ---------------------------
(***************************************************************************)
(* The final delivery of a run: the outcome is recorded on the canonical    *)
(* work aggregate, the response is staged, the message ledger admits its    *)
(* delivery once, a text and a done chunk go to the channel, and the        *)
(* delivery is recorded, reported and the staged response consumed.  The    *)
(* driver of a run does this once; a replay of the staged responses, at     *)
(* startup or whenever a channel is started again, may do it beside the     *)
(* driver; the user may cancel the run and the process may die at any step. *)
(*                                                                         *)
(* A chunk passes two queues.  The provider send queue keeps the chunks of  *)
(* a session in order (SerialQueue: one task per chunk); its task hands     *)
(* the chunk to the "delivery" backpressure queue (BackpressureQueue: one   *)
(* job per chunk), shared by all sessions, whose timer gives up on the      *)
(* channel while the channel's call goes on.                                *)
(*                                                                         *)
(* A run has one response text, the answer or the report of its             *)
(* cancellation, so one admission row.  The channel is an external one: it  *)
(* buffers the text chunk, sends at the done chunk and returns a receipt.   *)
(***************************************************************************)
EXTENDS SerialQueue, Sequences

CONSTANTS
  Runs,
  Replays,      \* passes over the staged responses
  Progress,     \* progress chunks of the runs' sessions
  Others,       \* chunks of other sessions, behind send queues of their own
  Concurrency,  \* budget of the "delivery" queue
  MaxPending,
  MaxCrashes

Attempts == Runs \union Replays
Chunks == {"text", "done"}
Unrelated == Progress \union Others

ASSUME DeliveryAssumption ==
  /\ Tasks = (Attempts \X Chunks) \union Progress
  /\ Runs \intersect Replays = {}
  /\ Progress \intersect (Attempts \X Chunks) = {}
  /\ Others \intersect Tasks = {}
  /\ Concurrency \in Nat \ {0}
  /\ MaxPending \in Nat
  /\ MaxCrashes \in Nat

VARIABLES
  job, task, running, pending,  \* the "delivery" queue
  db,           \* what survives the process, per run
  pc,           \* where an attempt is
  of,           \* the run a replay works on
  buffered,     \* attempts whose channel handler holds the text
  calling,      \* chunks in a call of the channel's provider
  refused,      \* chunks stopped by the cancellation check
  receipts,     \* attempts whose done chunk returned the provider's receipt
  calls,        \* calls of the provider with the final text of a run
  arrived,      \* runs whose final text has reached the user
  aborted,      \* runs whose controller was aborted
  up, crashes

slotVars == <<job, task, running, pending>>
handlerVars == <<buffered, calling, refused, receipts>>
worldVars == <<calls, arrived>>
processVars == <<aborted, up, crashes>>
deliveryVars == <<queueVars, slotVars, db, pc, of, handlerVars, worldVars, processVars>>

Slot == INSTANCE BackpressureQueue WITH Jobs <- Tasks \union Others

ActiveStatuses == {"running", "awaiting_user"}
StoppedStatuses == {"cancelled", "interrupted"}
Undelivered == {"outcome", "cancelled"}

NewRun == [status |-> "running", aggregate |-> "open", staged |-> "none",
           ledger |-> "none", committed |-> FALSE, receipt |-> "none"]

DeliveryInit ==
  /\ Init
  /\ Slot!Init
  /\ db = [r \in Runs |-> NewRun]
  /\ pc = [a \in Attempts |-> IF a \in Runs THEN "working" ELSE "idle"]
  /\ of = [p \in Replays |-> CHOOSE r \in Runs : TRUE]
  /\ buffered = {} /\ calling = {} /\ refused = {} /\ receipts = {}
  /\ calls = [r \in Runs |-> 0]
  /\ arrived = {}
  /\ aborted = {}
  /\ up = TRUE
  /\ crashes = 0

RunOf(a) == IF a \in Runs THEN a ELSE of[a]
Goto(a, place) == pc' = [pc EXCEPT ![a] = place]

-----------------------------------------------------------------------------
(* The run's status. *)

\* updateRunStatus: a delivered answer turns a cancellation or an interruption
\* into completion, and a terminal status is locked.
UpdatedStatus(row, status) ==
  IF row.status \notin ActiveStatuses THEN row.status
  ELSE IF status \in StoppedStatuses /\ row.ledger = "delivered" THEN "completed"
  ELSE status

\* The completion review has returned and its outcome is recorded.  The
\* transition writes the projected status over whatever status the run has.
Decide(r) ==
  /\ up /\ pc[r] = "working"
  /\ db' = [db EXCEPT ![r].aggregate = "outcome", ![r].status = "running"]
  /\ Goto(r, "stage")
  /\ UNCHANGED <<queueVars, slotVars, of, handlerVars, worldVars, processVars>>

Cancel(r) ==
  /\ up /\ db[r].status \in ActiveStatuses
  /\ db' = [db EXCEPT ![r].status = UpdatedStatus(db[r], "cancelled")]
  /\ aborted' = aborted \union {r}
  /\ UNCHANGED <<queueVars, slotVars, pc, of, handlerVars, worldVars, up, crashes>>

\* The driver notices the abort, records the cancellation and reports it.
Abandon(r) ==
  /\ up /\ pc[r] = "working"
  /\ r \in aborted
  /\ db' = [db EXCEPT ![r].aggregate = "cancelled", ![r].status = "cancelled"]
  /\ Goto(r, "stage")
  /\ UNCHANGED <<queueVars, slotVars, of, handlerVars, worldVars, processVars>>

-----------------------------------------------------------------------------
(* Staging, replay and admission. *)

Stage(r) ==
  /\ up /\ pc[r] = "stage"
  /\ db' = [db EXCEPT ![r].staged = "pending"]
  /\ Goto(r, "commit")
  /\ UNCHANGED <<queueVars, slotVars, of, handlerVars, worldVars, processVars>>

\* A pass lists the pending responses once; it takes them up one by one.
ListPending(p) ==
  /\ up /\ pc[p] = "idle"
  /\ \E r \in Runs : db[r].staged = "pending" /\ of' = [of EXCEPT ![p] = r]
  /\ Goto(p, "listed")
  /\ UNCHANGED <<queueVars, slotVars, db, handlerVars, worldVars, processVars>>

\* The report of a cancellation is authorised by the cancellation receipt.
CancellationBlocks(r) == db[r].status \in StoppedStatuses /\ db[r].aggregate # "cancelled"

MayRetry(r) == db[r].ledger \in {"none", "failed"}

\* reserveMessageDeliveryAdmission: the row of a text can be inserted once.
MayReserve(r) == db[r].ledger = "none"

\* commitFinalDelivery and the admission of emitAssistantTextDelivery.
Admit(a) ==
  LET r == RunOf(a) IN
  /\ \/ /\ db[r].committed
        /\ Goto(a, "repeat")
        /\ UNCHANGED <<db, queueVars>>
     \/ /\ ~db[r].committed
        /\ ~CancellationBlocks(r)
        /\ MayReserve(r)
        /\ db' = [db EXCEPT ![r].ledger = "started"]
        /\ Enqueue(<<a, "text">>)
        /\ Goto(a, "text")
     \/ /\ ~db[r].committed
        /\ ~CancellationBlocks(r)
        /\ db[r].ledger = "delivered"
        /\ Goto(a, "record")
        /\ UNCHANGED <<db, queueVars>>
     \/ /\ ~db[r].committed
        /\ CancellationBlocks(r) \/ ~(MayReserve(r) \/ db[r].ledger = "delivered")
        /\ Goto(a, "finished")
        /\ UNCHANGED <<db, queueVars>>
  /\ UNCHANGED <<slotVars, of, handlerVars, worldVars, processVars>>

Commit(r) == up /\ pc[r] = "commit" /\ Admit(r)

AlreadyReported(r) == db[r].aggregate = "reported"

\* A response that was reported in the meantime is only consumed.
Take(p) ==
  LET r == of[p] IN
  /\ up /\ pc[p] = "listed"
  /\ IF AlreadyReported(r)
     THEN /\ db' = [db EXCEPT ![r].staged = "consumed"]
          /\ Goto(p, "finished")
          /\ UNCHANGED <<queueVars, slotVars, of, handlerVars, worldVars, processVars>>
     ELSE Admit(p)

-----------------------------------------------------------------------------
(* A chunk in the queues and at the channel. *)

\* Progress needs no admission.
ProgressSent(g) ==
  /\ up /\ crashes = 0
  /\ Enqueue(g)
  /\ UNCHANGED <<slotVars, db, pc, of, handlerVars, worldVars, processVars>>

\* Which of the others is next makes no difference, nor does one that is
\* refused.
OtherOffers(o) ==
  /\ up /\ crashes = 0
  /\ job[o] = "new" /\ o = CHOOSE x \in Others : job[x] = "new"
  /\ Slot!Enqueue(o)
  /\ UNCHANGED <<queueVars, db, pc, of, handlerVars, worldVars, processVars>>

\* The task's turn has come.  It waits out the provider's backoff, if any,
\* before it offers the chunk.
TurnComes(t) ==
  /\ Start(t)
  /\ UNCHANGED <<slotVars, db, pc, of, handlerVars, worldVars, processVars>>

Offer(t) ==
  /\ phase[t] = "running" /\ job[t] = "new"
  /\ Slot!Enqueue(t) \/ Slot!Reject(t)
  /\ UNCHANGED <<queueVars, db, pc, of, handlerVars, worldVars, processVars>>

\* The handler is called: the cancellation check, then the channel.  Without a
\* buffered text the done chunk sends nothing.  Without a call the handler
\* returns at once, or throws if it was stopped.
ChunkStarts(t) ==
  LET a == t[1]
      r == RunOf(a)
      stop == CancellationBlocks(r)
      sends == ~stop /\ t[2] = "done" /\ a \in buffered
  IN
  /\ IF sends
     THEN /\ Slot!TaskStarts(t)
          /\ calling' = calling \union {t}
          /\ calls' = [calls EXCEPT ![r] = @ + 1]
     ELSE /\ Slot!TaskReturnsAtOnce(t, IF stop THEN "rejected" ELSE "resolved")
          /\ UNCHANGED <<calling, calls>>
  /\ refused' = IF stop THEN refused \union {t} ELSE refused
  /\ buffered' = IF ~stop /\ t[2] = "text" THEN buffered \union {a} ELSE buffered
  /\ UNCHANGED <<queueVars, db, pc, of, receipts, arrived, processVars>>

\* The provider's call ends.  It returns a receipt only for a text that
\* arrived; a call that failed may have arrived all the same.
CallReturns(t) ==
  /\ t \in calling
  /\ Slot!TaskSettles(t)
  /\ calling' = calling \ {t}
  /\ \/ /\ task'[t] = "resolved"
        /\ receipts' = receipts \union {t[1]}
        /\ arrived' = arrived \union {RunOf(t[1])}
     \/ /\ UNCHANGED receipts
        /\ arrived' \in {arrived, arrived \union {RunOf(t[1])}}
  /\ UNCHANGED <<queueVars, db, pc, of, buffered, refused, calls, processVars>>

\* The race of the task with the job's timer is decided.
JobAnswered(t) ==
  /\ Slot!TaskWins(t) \/ Slot!TimerWins(t)
  /\ UNCHANGED <<queueVars, db, pc, of, handlerVars, worldVars, processVars>>

\* The other chunks only take a slot, until their task or their timer ends.
OtherAnswered(t) ==
  /\ job[t] = "running"
  /\ Slot!Answer(t, "resolved")
  /\ UNCHANGED <<queueVars, db, pc, of, handlerVars, worldVars, processVars>>

SendEnds(t) ==
  /\ job[t] \in Slot!Outcomes \union {"refused"}
  /\ Settle(t)
  /\ t \in threw' <=> job[t] # "resolved"
  /\ UNCHANGED <<slotVars, db, pc, of, handlerVars, worldVars, processVars>>

SendReleased(t) ==
  /\ Release(t)
  /\ UNCHANGED <<slotVars, db, pc, of, handlerVars, worldVars, processVars>>

-----------------------------------------------------------------------------
(* What the attempt makes of it. *)

Answered(t) == phase[t] \in {"settled", "released"}

\* The done chunk is sent even if the text chunk failed.
TextSent(a) ==
  /\ pc[a] = "text"
  /\ Answered(<<a, "text">>)
  /\ Enqueue(<<a, "done">>)
  /\ Goto(a, "done")
  /\ UNCHANGED <<slotVars, db, of, handlerVars, worldVars, processVars>>

ChunksOf(a) == {a} \X Chunks

WithoutEvidence(a) == ChunksOf(a) \intersect (threw \union refused) = {}

\* Both chunks went through and the provider's receipt is among the results.
Delivered(a) == ChunksOf(a) \intersect (threw \union refused) = {} /\ a \in receipts

Complete(a) ==
  LET status == IF ChunksOf(a) \intersect refused # {} THEN "suppressed"
                ELSE IF Delivered(a) THEN "delivered"
                ELSE "failed"
  IN
  /\ pc[a] = "done"
  /\ Answered(<<a, "done">>)
  /\ db' = [db EXCEPT ![RunOf(a)].ledger = status]
  /\ Goto(a, IF status = "delivered" THEN "record" ELSE "finished")
  /\ UNCHANGED <<queueVars, slotVars, of, handlerVars, worldVars, processVars>>

\* commitFinalDelivery records that the run's final answer was delivered.
Record(a) ==
  /\ pc[a] = "record"
  /\ db' = [db EXCEPT ![RunOf(a)].committed = TRUE]
  /\ Goto(a, "report")
  /\ UNCHANGED <<queueVars, slotVars, of, handlerVars, worldVars, processVars>>

\* REPORT_DELIVERED consumes the receipt and projects the status.
Reported(row, receipt) ==
  [row EXCEPT !.aggregate = "reported", !.receipt = receipt,
              !.status = IF row.aggregate = "cancelled" THEN "cancelled" ELSE "completed"]

\* The receipt's id is drawn from its evidence: only an attempt that saw the
\* same kind of delivery finds its own receipt consumed.
Report(a) ==
  LET r == RunOf(a)
      receipt == IF pc[a] = "repeat" THEN "duplicate" ELSE "delivered"
      fresh == db[r].aggregate \in Undelivered
  IN
  /\ pc[a] \in {"report", "repeat"}
  /\ db' = IF fresh THEN [db EXCEPT ![r] = Reported(db[r], receipt)] ELSE db
  /\ Goto(a, IF fresh \/ db[r].receipt = receipt THEN "consume" ELSE "finished")
  /\ UNCHANGED <<queueVars, slotVars, of, handlerVars, worldVars, processVars>>

Consume(a) ==
  /\ pc[a] = "consume"
  /\ db' = [db EXCEPT ![RunOf(a)].staged = "consumed"]
  /\ Goto(a, "finished")
  /\ UNCHANGED <<queueVars, slotVars, of, handlerVars, worldVars, processVars>>

-----------------------------------------------------------------------------
(* The process. *)

\* What was on the wire may arrive; the queues and their tasks are gone.
Crash ==
  /\ up /\ crashes < MaxCrashes
  /\ up' = FALSE
  /\ crashes' = crashes + 1
  /\ phase' = [t \in Tasks |-> "new"]
  /\ after' = [t \in Tasks |-> NoTask]
  /\ tail' = [k \in Keys |-> NoTask]
  /\ ticket' = [t \in Tasks |-> 0]
  /\ arrivals' = 0 /\ threw' = {}
  /\ job' = [t \in Tasks \union Others |-> "new"]
  /\ task' = [t \in Tasks \union Others |-> "idle"]
  /\ running' = 0 /\ pending' = <<>>
  /\ buffered' = {} /\ calling' = {} /\ refused' = {} /\ receipts' = {}
  /\ \E landed \in SUBSET {RunOf(t[1]) : t \in calling} :
       arrived' = arrived \union landed
  /\ pc' = [a \in Attempts |-> IF pc[a] \in {"idle", "finished"} THEN pc[a] ELSE "lost"]
  /\ UNCHANGED <<db, of, calls, aborted>>

ByStagedResponse(row) ==
  IF row.aggregate \in Undelivered /\ row.staged = "pending"
  THEN [row EXCEPT !.status = UpdatedStatus(row, "awaiting_user")]
  ELSE [row EXCEPT !.status = UpdatedStatus(row, "interrupted")]

ByStagedResponseAlone(row) ==
  IF row.staged = "pending"
  THEN [row EXCEPT !.aggregate = "outcome", !.status = UpdatedStatus(row, "awaiting_user")]
  ELSE ByStagedResponse(row)

\* recoverActiveRunsOnStartup, for a run that is active or not yet reported.
Recovered(row) ==
  IF row.aggregate \in Undelivered /\ row.committed
  THEN Reported(row, "startup")
  ELSE ByStagedResponse(row)

Restart ==
  /\ ~up
  /\ up' = TRUE
  /\ db' = [r \in Runs |-> Recovered(db[r])]
  /\ UNCHANGED <<queueVars, slotVars, pc, of, handlerVars, worldVars, aborted, crashes>>

-----------------------------------------------------------------------------

AttemptStep(a) ==
  \/ a \in Runs /\ (Stage(a) \/ Commit(a))
  \/ a \in Replays /\ Take(a)
  \/ TextSent(a) \/ Complete(a) \/ Record(a) \/ Report(a) \/ Consume(a)

JobStep(t) == ChunkStarts(t) \/ JobAnswered(t)

SendStep(t) == TurnComes(t) \/ Offer(t) \/ SendEnds(t) \/ SendReleased(t)

\* What the event loop owes: continuations and timers.
EventLoop ==
  \/ \E a \in Attempts : AttemptStep(a)
  \/ \E t \in Tasks : SendStep(t)
  \/ \E t \in Tasks \ Progress : JobStep(t)
  \/ \E t \in Unrelated : OtherAnswered(t)

DeliveryNext ==
  \/ \E r \in Runs : Decide(r) \/ Cancel(r) \/ Abandon(r)
  \/ \E p \in Replays : ListPending(p)
  \/ \E g \in Progress : ProgressSent(g)
  \/ \E o \in Others : OtherOffers(o)
  \/ \E t \in Tasks \ Progress : CallReturns(t)
  \/ EventLoop
  \/ Crash \/ Restart

DeliverySpec == DeliveryInit /\ [][DeliveryNext]_deliveryVars

\* The event loop never rests while something is due, and a dead process is
\* started again.  The review, the user, the channel manager and the provider
\* owe nothing.
DeliveryFairSpec == DeliverySpec /\ WF_deliveryVars(EventLoop) /\ WF_deliveryVars(Restart)

-----------------------------------------------------------------------------

\* The counter is the number of jobs that hold a slot, within the budget, and a
\* chunk waits only while every slot is taken, whether jobs end by their task,
\* by their timer or with the process.
SlotsAreExact ==
  /\ running = Cardinality({t \in DOMAIN job : job[t] = "running"})
  /\ running <= Concurrency
  /\ pending # <<>> => running = Concurrency
  /\ {pending[i] : i \in DOMAIN pending} = {t \in DOMAIN job : job[t] = "pending"}

\* However many drivers, replays and restarts deliver a run's response, and
\* whatever timed out, the provider is called with it once.
OneFinalPerRun == \A r \in Runs : calls[r] <= 1

\* A staged response is closed only for a run that was reported, and a run is
\* reported only if its final text reached the user.
ClosedMeansArrived ==
  \A r \in Runs :
    /\ db[r].staged = "consumed" => db[r].aggregate = "reported"
    /\ db[r].aggregate = "reported" => r \in arrived

ReportedRuns == {r \in Runs : db[r].aggregate = "reported"}
ClosedRuns == {r \in Runs : db[r].staged = "consumed"}

Answer == INSTANCE AnswerOnce WITH reported <- ReportedRuns, closed <- ClosedRuns

\* The whole of it, call, arrival, report and close, is a run of AnswerOnce: each
\* follows from the one before, for the same run, and none is repeated or taken
\* back by a replay, a late outcome or a restart.
ImplementsAnswerOnce == Answer!Spec

\* Every finalization that began has in the end come back to its caller or died
\* with the process, even if no call of the provider ever returns.
EveryFinalizationReturns ==
  <>[](\A a \in Attempts : pc[a] \in {"working", "idle", "finished", "lost"})

\* A delivery that was recorded is reported on the aggregate, across a crash
\* between the two.
CommittedIsReported ==
  \A r \in Runs : db[r].committed ~> db[r].aggregate = "reported"

\* No answer goes to the provider for a run that the user has cancelled; only
\* the report of the cancellation does.
CancelledIsSilent ==
  [][\A r \in Runs :
       calls'[r] > calls[r] /\ db[r].aggregate # "cancelled" => r \notin aborted]_deliveryVars
=============================================================================
