----------------------------- MODULE Scheduler -----------------------------
(***************************************************************************)
(* One schedule of the internal scheduler, the only one in its database:    *)
(* ticks and manual triggers fire it, the schedule queue starts its runs,   *)
(* attempts deliver through the delivery queue of the one target session    *)
(* and are retried, and a crash or another process may interrupt what is    *)
(* recorded.                                                                *)
(*                                                                         *)
(* Time is counted in minutes, the grain of cron and of getNextRun.  The    *)
(* schedule was created at 0 and never ran.  The handlers between the end   *)
(* of a queued task and the release of its entry are one step with it;      *)
(* SerialQueue has them apart.                                              *)
(***************************************************************************)
EXTENDS Integers, Sequences, FiniteSets, FiniteSetsExt

CONSTANTS
  CronTimes,    \* the minutes the cron expression names
  MaxRetries,   \* normalizeScheduleMaxRetries(schedule.max_retries)
  Schedules,    \* the schedules considered: pairs of a payload and a target
  StartLimit,   \* rows a start closes at most: 200
  MaxTime,      \* bound: the clock
  MaxManual,    \* bound: manual triggers
  MaxCrashes    \* bound: crashes of the daemon

\* "literal" and "task" have a contract; "canonical" is a legacy prompt.
Payloads == {"literal", "task", "canonical"}

\* "internal" is the agent, the local console, the web UI, or none.
Targets == {"telegram", "slack", "internal"}

ASSUME SchedulerAssumption ==
  /\ MaxTime \in Nat
  /\ IsFiniteSet(CronTimes) /\ CronTimes \subseteq 1 .. MaxTime
  /\ MaxRetries \in 0 .. 10
  /\ Schedules \subseteq Payloads \X Targets
  /\ StartLimit \in Nat \ {0}
  /\ MaxManual \in Nat /\ MaxCrashes \in Nat

\* Enough for every occurrence, for the manual triggers and for the firing a
\* crash may lose; and one too many, for a firing there should not be.
Runs == 1 .. (Cardinality(CronTimes) + MaxManual + MaxCrashes + 1)

Manual == 0     \* the due time of a run that a person triggered

VARIABLES
  now,          \* Date.now()
  kind,         \* the payload of the schedule
  target,       \* its target channel
  exists,       \* the schedule has a row
  enabled,      \* its enabled column
  up,           \* the daemon is running
  crashes,      \* how often it crashed
  fired,        \* how many firings there were; a run is named by its number
  queue,        \* scheduleExecutionQueues: the entry is there unless empty
  outbox,       \* scheduleDeliveryQueues: the runs whose send waits or is under way
  phase,        \* where the code of a run is
  due,          \* the occurrence in the trigger of a run, or Manual
  startedAt,    \* started_at
  attempt,      \* failed attempts of a run
  row,          \* finished_at and success of its row in schedule_runs
  receipt,      \* delivery_status of the receipt under a dedupe key
  sent          \* the messages of a run that reached the session

schedule == <<kind, target, exists, enabled>>
daemon == <<up, crashes>>
firings == <<fired, due>>
vars == <<now, kind, target, exists, enabled, up, crashes, fired, queue, outbox,
          phase, due, startedAt, attempt, row, receipt, sent>>

\* Manual triggers have a dedupe key of their own.
Key(r) == IF due[r] = Manual THEN <<"run", r>> ELSE <<"due", due[r]>>
Keys == ({"run"} \X Runs) \union ({"due"} \X CronTimes)

Contract == kind \in {"literal", "task"}

\* Something leaves the gateway: a legacy prompt is answered on Telegram only.
Delivers == target = "telegram" \/ (Contract /\ target = "slack")

\* The promise of the run is pending: executeQueuedRun has started it.
Live(r) == phase[r] \in {"ready", "working", "sending"}

Init ==
  /\ now = 0
  /\ \E s \in Schedules : kind = s[1] /\ target = s[2]
  /\ exists = TRUE
  /\ enabled = TRUE
  /\ up = TRUE
  /\ crashes = 0
  /\ fired = 0
  /\ queue = <<>>
  /\ outbox = <<>>
  /\ phase = [r \in Runs |-> "unused"]
  /\ due = [r \in Runs |-> Manual]
  /\ startedAt = [r \in Runs |-> 0]
  /\ attempt = [r \in Runs |-> 0]
  /\ row = [r \in Runs |-> "none"]
  /\ receipt = [k \in Keys |-> "none"]
  /\ sent = [r \in Runs |-> 0]

-----------------------------------------------------------------------------
(* Firing *)

Recorded == {r \in Runs : row[r] # "none"}

\* Runs under way do not count.
LastFinishedAt == Max({0} \union {startedAt[r] : r \in {s \in Recorded : row[s] # "open"}})

\* A schedule that never ran is due from now on.
LastRunOrNow == IF Recorded = {} THEN now ELSE Max({startedAt[r] : r \in Recorded})

\* last_run_at ?? created_at
LastRunAt == Max({0} \union {startedAt[r] : r \in Recorded})

\* getNextRun searches from the minute after its base.
NextRun(base) == {t \in CronTimes : t > base /\ \A u \in CronTimes : u > base => t <= u}

Enqueue(d) ==
  /\ fired + 1 \in Runs
  /\ fired' = fired + 1
  /\ queue' = Append(queue, fired + 1)
  /\ phase' = [phase EXCEPT ![fired + 1] = "queued"]
  /\ due' = [due EXCEPT ![fired + 1] = d]
  /\ UNCHANGED <<now, schedule, daemon, outbox, startedAt, attempt, row, receipt, sent>>

Tick ==
  /\ up /\ exists /\ enabled
  /\ queue = <<>>
  /\ \E d \in NextRun(LastRunAt) : d <= now /\ Enqueue(d)

\* POST /api/schedules/:id/run
RunNow ==
  /\ up /\ exists
  /\ Cardinality({r \in 1 .. fired : due[r] = Manual}) < MaxManual
  /\ Enqueue(Manual)

\* The queued task: it inserts the row, starts the run and returns without
\* awaiting it, which releases the entry of the queue.
ExecuteQueuedRun ==
  /\ up
  /\ queue # <<>>
  /\ queue' = Tail(queue)
  /\ LET r == Head(queue) IN
     IF exists
     THEN /\ phase' = [phase EXCEPT ![r] = "ready"]
          /\ startedAt' = [startedAt EXCEPT ![r] = now]
          /\ row' = [row EXCEPT ![r] = "open"]
     ELSE /\ phase' = [phase EXCEPT ![r] = "refused"]
          /\ UNCHANGED <<startedAt, row>>
  /\ UNCHANGED <<now, schedule, daemon, firings, outbox, attempt, receipt, sent>>

-----------------------------------------------------------------------------
(* Attempts.  The result of an attempt is "success", "undelivered" (executed *)
(* but not delivered), "unretryable" (retryable is false) or "failed".       *)

RetriedIfUndelivered(result) == result \in {"failed", "undelivered"}
Retried(result) == result = "failed"

NextAttempt(r) == attempt[r] + 1

AttemptsLeft(r) == NextAttempt(r) <= MaxRetries

SuccessIfExecuted(result) == IF result \in {"success", "undelivered"} THEN "success" ELSE "failed"
RowOutcome(result) == IF result = "success" THEN "success" ELSE "failed"

\* The rest of the loop body; updateScheduleRun ends the run, whatever its row
\* says by then, and is lost on a row that is gone.
EndAttempt(r, result) ==
  LET again == Retried(result) /\ AttemptsLeft(r) IN
  /\ phase' = [phase EXCEPT ![r] = IF again THEN "ready" ELSE "done"]
  /\ attempt' = [attempt EXCEPT ![r] = IF result = "success" THEN @ ELSE NextAttempt(r)]
  /\ row' = [row EXCEPT ![r] = IF again \/ @ = "none" THEN @ ELSE RowOutcome(result)]

Failing(r, result) ==
  /\ EndAttempt(r, result)
  /\ UNCHANGED <<now, schedule, daemon, firings, queue, outbox, startedAt, receipt, sent>>

\* An occurrence that has been delivered is not delivered again.
ExistingDelivered(r) == Contract /\ receipt[Key(r)] = "delivered"

\* The contract is invalid, its text empty or its payload unsupported.
AttemptRefused(r) ==
  /\ up /\ phase[r] = "ready"
  /\ Contract
  /\ Failing(r, "failed")

\* Building the plan or the brief throws, which is outside of every try: the
\* promise of the run is rejected and its row stays as it is.
AttemptThrows(r) ==
  /\ up /\ phase[r] = "ready"
  /\ Contract
  /\ phase' = [phase EXCEPT ![r] = "threw"]
  /\ UNCHANGED <<now, schedule, daemon, firings, queue, outbox, startedAt, attempt, row, receipt, sent>>

\* The end of deliverText.  The receipt of a schedule deleted meanwhile violates
\* its foreign key, in the catch block too: the promise of the run is rejected.
EndDelivery(r, delivered) ==
  LET result == IF delivered THEN "success" ELSE "undelivered" IN
  \/ /\ Contract /\ exists
     /\ receipt' = [receipt EXCEPT ![Key(r)] = IF delivered THEN "delivered" ELSE "failed"]
     /\ EndAttempt(r, result)
  \/ /\ Contract /\ ~exists
     /\ phase' = [phase EXCEPT ![r] = "threw"]
     /\ UNCHANGED <<attempt, row, receipt>>
  \/ ~Contract /\ EndAttempt(r, result) /\ UNCHANGED receipt

\* A target without a session to send to counts as delivered at once.
Deliver(r) ==
  IF Delivers
  THEN /\ phase' = [phase EXCEPT ![r] = "sending"]
       /\ outbox' = Append(outbox, r)
       /\ UNCHANGED <<attempt, row, receipt>>
  ELSE EndDelivery(r, TRUE) /\ UNCHANGED outbox

AttemptSends(r) ==
  /\ up /\ phase[r] = "ready"
  /\ kind = "literal"
  /\ IF ExistingDelivered(r)
     THEN EndAttempt(r, "success") /\ UNCHANGED <<outbox, receipt>>
     ELSE Deliver(r)
  /\ UNCHANGED <<now, schedule, daemon, firings, queue, startedAt, sent>>

\* startIngressRun
AttemptWorks(r) ==
  /\ up /\ phase[r] = "ready"
  /\ kind \in {"task", "canonical"}
  /\ IF ExistingDelivered(r)
     THEN EndAttempt(r, "success")
     ELSE phase' = [phase EXCEPT ![r] = "working"] /\ UNCHANGED <<attempt, row>>
  /\ UNCHANGED <<now, schedule, daemon, firings, queue, outbox, startedAt, receipt, sent>>

\* The agent's run did not complete, or completed without a text.
WorkFails(r) ==
  /\ up /\ phase[r] = "working"
  /\ Failing(r, "unretryable")

WorkSucceeds(r) ==
  /\ up /\ phase[r] = "working"
  /\ Deliver(r)
  /\ UNCHANGED <<now, schedule, daemon, firings, queue, startedAt, sent>>

\* The channel's call is over.  It may throw although the message arrived.
SendEnds(r) ==
  /\ up /\ phase[r] = "sending"
  /\ outbox # <<>> /\ Head(outbox) = r
  /\ outbox' = Tail(outbox)
  /\ \E arrived \in BOOLEAN : \E returned \in {arrived, FALSE} :
       /\ sent' = [sent EXCEPT ![r] = IF arrived THEN @ + 1 ELSE @]
       /\ EndDelivery(r, returned)
  /\ UNCHANGED <<now, schedule, daemon, firings, queue, startedAt>>

-----------------------------------------------------------------------------
(* The rest of the system *)

ClockAdvances ==
  /\ now < MaxTime
  /\ now' = now + 1
  /\ UNCHANGED <<schedule, daemon, firings, queue, outbox, phase, startedAt, attempt, row, receipt, sent>>

\* PATCH /api/schedules/:id/toggle, or cancelSchedules
Toggle ==
  /\ up /\ exists
  /\ enabled' = ~enabled
  /\ UNCHANGED <<now, kind, target, exists, daemon, firings, queue, outbox, phase, startedAt, attempt, row, receipt, sent>>

\* DELETE /api/schedules/:id; the rows of its runs and receipts go with it.
Delete ==
  /\ up /\ exists
  /\ exists' = FALSE
  /\ row' = [r \in Runs |-> "none"]
  /\ receipt' = [k \in Keys |-> "none"]
  /\ UNCHANGED <<now, kind, target, enabled, daemon, firings, queue, outbox, phase, startedAt, attempt, sent>>

\* A send under way may arrive all the same.
Crash ==
  /\ up /\ crashes < MaxCrashes
  /\ up' = FALSE
  /\ crashes' = crashes + 1
  /\ queue' = <<>>
  /\ outbox' = <<>>
  /\ phase' = [r \in Runs |-> IF Live(r) \/ phase[r] = "queued" THEN "dead" ELSE phase[r]]
  /\ \E arrived \in BOOLEAN :
       sent' = [r \in Runs |-> IF arrived /\ outbox # <<>> /\ r = Head(outbox) THEN sent[r] + 1 ELSE sent[r]]
  /\ UNCHANGED <<now, schedule, firings, startedAt, attempt, row, receipt>>

\* Rows that have an error already are left alone.
InterruptibleIfUntried == {r \in Runs : row[r] = "open" /\ attempt[r] = 0}

Interruptible == {r \in Runs : row[r] = "open"}

\* interruptUnfinishedScheduleRunsOnStartup closes the newest rows, up to its limit.
InterruptRuns ==
  \E closed \in SUBSET Interruptible :
    /\ IF Cardinality(Interruptible) <= StartLimit
       THEN closed = Interruptible
       ELSE /\ Cardinality(closed) = StartLimit
            /\ \A r \in closed, s \in Interruptible \ closed : startedAt[s] <= startedAt[r]
    /\ row' = [r \in Runs |-> IF r \in closed THEN "interrupted" ELSE row[r]]

Restart ==
  /\ ~up
  /\ up' = TRUE
  /\ InterruptRuns
  /\ UNCHANGED <<now, schedule, crashes, firings, queue, outbox, phase, startedAt, attempt, receipt, sent>>

\* The command the system's crontab runs for some other schedule boots a
\* runtime of its own on the same database.
CrontabBoots ==
  /\ \E r \in Runs : row[r] = "open"
  /\ InterruptRuns
  /\ UNCHANGED <<now, schedule, daemon, firings, queue, outbox, phase, startedAt, attempt, receipt, sent>>

\* What the code of a run does.
Step(r) ==
  \/ AttemptRefused(r) \/ AttemptThrows(r) \/ AttemptSends(r) \/ AttemptWorks(r)
  \/ WorkFails(r) \/ WorkSucceeds(r) \/ SendEnds(r)

Next ==
  \/ Tick \/ RunNow \/ ExecuteQueuedRun
  \/ \E r \in Runs : Step(r)
  \/ ClockAdvances \/ Toggle \/ Delete
  \/ Crash \/ Restart \/ CrontabBoots

Spec == Init /\ [][Next]_vars

\* The timer ticks, the queue is drained and a daemon that died is restarted.
\* Nothing is assumed of the runs.
TickingSpec == Spec /\ WF_vars(Tick) /\ WF_vars(ExecuteQueuedRun) /\ WF_vars(Restart)

-----------------------------------------------------------------------------

FiredByTick == {r \in Recorded : due[r] # Manual}

\* Of two recorded runs that ticks fired, one was due after the other had
\* started: an occurrence is never fired twice, not even by ticks during a
\* long run or after a restart, and a late start covers all it is late for.
OccurrencesMoveOn ==
  \A r, s \in FiredByTick : r # s => startedAt[r] < due[s] \/ startedAt[s] < due[r]

\* Whatever fails, crashes or is retried, an occurrence reaches the session at
\* most once, and so does a manual run.
DeliveredOnce ==
  \A r, s \in {q \in Runs : sent[q] > 0} : sent[r] = 1 /\ (Key(r) = Key(s) => r = s)

\* A run is recorded as a success only if its message reached the session.  Two
\* kinds of schedules have nothing sent and succeed: those whose target is the
\* gateway itself, and the legacy prompts whose target is Slack, of which nobody
\* hears.
SuccessMeansSent ==
  target = "telegram" \/ (target = "slack" /\ kind # "canonical") =>
    \A r \in Runs : row[r] = "success" => \E s \in Runs : Key(s) = Key(r) /\ sent[s] > 0

\* The rows a start closed that are no older than r.
ClosedBefore(r) ==
  {s \in Runs : row[s] = "interrupted" /\ ~Live(s) /\ startedAt[s] >= startedAt[r]}

\* While the daemon runs, an open row belongs to a run that still has code to
\* close it, or to one whose code threw, or to one that a start passed over for
\* as many newer rows as it closes: else what a crash left open was interrupted
\* before any other run began.
OpenRowIsOwned ==
  \A r \in Runs :
    up /\ row[r] = "open" =>
      Live(r) \/ phase[r] = "threw" \/ Cardinality(ClosedBefore(r)) >= StartLimit

\* An occurrence that passes while the schedule is enabled is followed by a run
\* started no earlier, however long other runs of the schedule take.
OccurrencesAreServed ==
  \A t \in CronTimes :
    now >= t /\ exists /\ enabled ~> ~exists \/ ~enabled \/ \E r \in Recorded : startedAt[r] >= t

\* At most one run of the schedule executes.
FiringsAreSerial == \A r, s \in Runs : Live(r) /\ Live(s) => r = s
=============================================================================
