# A formal model of Knowbee's execution core

Knowbee is a personal assistant that runs as a gateway process on a user's
machine: it takes requests from chat channels and a web UI, turns them into
*runs*, lets a language model drive tools on the user's behalf, asks for approval
where a tool can do harm, and repeats work on schedules. This project models the
parts of it that must be right whatever the language model does: that an
external effect happens at most once, that an approval is spent as it was given,
that work is serialised and bounded, that the answer of a run is delivered once
and recorded truly, and that schedules are served. It also models the runtime of
*Yeonjang*, the Rust agent that executes the gateway's commands on a computer.

Paths below are relative to `src/packages/core/src/` unless they start with
`src/`. The correspondence of every definition with the code, line by line, is
`"map"` in `PROJECT.json`; the hazards the properties are aimed at are listed
there too, each at its line.

- [1. The system](#1-the-system)
- [2. Modules](#2-modules)
- [3. Runs](#3-runs)
- [4. Proofs](#4-proofs)
- [5. Where code and documents disagree](#5-where-code-and-documents-disagree)
- [6. What is left out](#6-what-is-left-out)
- [7. Plan](#7-plan)
- [8. Checking](#8-checking)

## 1. The system

The gateway is one Node.js process over one SQLite database. JavaScript between
two `await`s is atomic, and so is one SQLite transaction, so the interesting
concurrency is: several asynchronous calls interleaved at their awaits, timers
that race with answers, promise handlers that run one microtask later than one
would like, rows that outlive the process, and a second process (the CLI, started
by the system's crontab) on the same database. A Yeonjang node is different: a
multi-threaded tokio process with locks, atomics, a semaphore and files of its own.

### Modelled

**Side-effect operation ledger.** `runs/side-effect-operation-executor.ts`,
`runs/side-effect-operation-use-case.ts`, `db/side-effect-operation-repository.ts`,
`contracts/side-effect-operation.ts`, `tools/side-effect-runtime.ts`.
*State:* one row per operation scope (run, step, adapter and target), with the
fingerprint of the parameters it was reserved with, a state of an eleven-state
machine and the list of transition receipts whose length is the revision.
*Operations:* reserve, transition under compare-and-set on the revision (a receipt
that is already in the list is a replay and is accepted), launch the effect, record
or reject it, verify the post-state, compensate, hand over to a person, and resume
verification of what an earlier call left behind.
*Hard:* several calls hold the same row; the executor awaits the effect, the
observation and the compensation in between; the process may die between any two
commits with the effect under way.
*Correct if:* an effect is launched at most once, answers and rows are true of the
world, an effect of unknown fate is never repeated nor declared, and calls return.

**Tool approval.** `tools/dispatcher.ts`, `runs/approval-registry.ts`,
`runs/approval-decision-command.ts`, and the routes that decide.
*State:* a registry row per request (status, decision, expiry) and two in-memory
maps from a run to its waiter and its callback.
*Operations:* reuse an earlier grant, ask, decide from any surface, time out, abort
the run, grant in advance.
*Hard:* the maps have one entry per run but a run may have two dispatches waiting, and
the end of the run clears them without a word to the waiter; decision, timer, abort and
supersession race; the decision is durable and the waiter
is not.
*Correct if:* only allowed calls run, one decision pays for one call, and whoever
waits is answered.

**Approved-operation continuations.**
`db/approved-operation-continuation-repository.ts`,
`runs/approved-operation-continuation-consumer.ts`,
`runtime/approved-operation-continuation-recovery.ts` and `-supervisor.ts`.
*State:* a row per approval of a prepared operation (pending, claimed under a lease,
completed, failed, cancelled), and the supervisor's wake flag and single runner.
*Operations:* enqueue in the transaction of the decision, claim by the live dispatch
or by the runner, settle, wake, stop, start.
*Hard:* live dispatch against recovery; lease expiry; wakes that arrive while the
runner is ending; passes that throw; crashes and shutdowns.
*Correct if:* exactly one party executes, outcomes are final, no wake is lost and
what was pending survives an outage.

**Keyed serial queues.** `runs/intake-queue.ts`, `runs/recovery-queue.ts`,
`runs/run-queueing.ts`, `scheduler/queueing.ts` (schedules and deliveries), and the
provider send queue of `runs/delivery.ts`.
*State:* a `Map` from a key to the promise of the last task. *Operations:* enqueue,
start, settle, release. *Hard:* a task that arrives between the settlement of the
last one and its `finally` handler; rejections. *Correct if:* one at a time, in
order, nothing lost, no entry left behind.

**Execution queue of request groups.** `runs/execution-queue.ts`. The same promise
chain with an entry that *counts* its outstanding runs and a budget of waiting runs.

**Backpressure queues.** `runs/queue-backpressure.ts`. Slots, a bounded backlog and a
timer per job; a task that lost against its timer goes on.

**Internal scheduler.** `scheduler/index.ts`, `scheduler/tick-policy.ts`,
`scheduler/contract-executor.ts`, `scheduler/queueing.ts`, the schedule routes, and
`src/packages/cli/src/commands/schedule.ts`.
*State:* the schedule, its run rows, the receipts of deliveries under dedupe keys, and
both queues. *Operations:* tick, manual trigger, execution with retries, delivery,
toggle, delete, interruption of open rows when a process starts.
*Hard:* a tick decides from rows while runs it cannot see execute; sends that throw
after they arrived; retries; crashes; another process recovering on the same database.
*Correct if:* no occurrence is fired or delivered twice, what is recorded is true, and
every occurrence is served.

**Final delivery of a run.** `runs/delivery.ts`, `runs/message-ledger.ts`,
`runs/channel-finalizer.ts`, `runs/finalization.ts`,
`runs/canonical-finalization-lifecycle.ts`, `runs/canonical-pending-response-*.ts`,
`runs/canonical-startup-recovery.ts`, and the parts of `runs/store.ts` that decide a
run's status.
*State:* the run's status, the canonical work aggregate, the staged response, the
admission row and the committed record of the message ledger, all durable; the provider
send queue, the delivery queue, the channel's buffer and the abort controller, all not.
*Operations:* record the outcome, stage, admit, send the text and the end of the message,
complete the admission, record, report, consume; replay of staged responses at startup
and whenever a channel is started; cancel; recover at startup.
*Hard:* five durable facts are written one after the other around a call that may time
out, fail after it arrived, or never return, by a driver and a replay at once.
*Correct if:* the provider is called once, what is closed or reported has arrived, what
was recorded is reported, a cancelled run is silent, and finalizations return.

**Yeonjang node: command runtime.** `src/Yeonjang/src/runtime.rs`, `cancellation.rs`,
`completed_idempotency.rs`, `durable_completed_store.rs`, `durable_cancellation.rs`,
`durable_retention.rs`, `request_lifecycle.rs`, `tokio_resource_admission.rs`.
*State:* replay guard, completed responses, registry of active commands and permits in
memory; durable records of effects and durable receipts of cancellations.
*Operations:* execute, cancel, shut down, start with retention.
*Hard:* requests and cancellations delivered again, also to the next process; a write
that is reported as failed and landed; cancellation, completion and shutdown at once;
guards that give back claims, permits, slots and entries on every early return.
*Correct if:* an effect starts at most once, responses are true, nothing is leaked,
an accepted cancellation is heard, and shutdown drains.

### How the parts interact

```
 channels / web UI ──> intake queue ──> execution queue ──> agent loop ──> dispatcher
        │                (SerialQueue)    (ExecutionQueue)   (external)      │
        │ decide                                                              │ needs approval?
        └───────────────> approval registry <─────────────────────────────────┤
                              │ allowed, bound: same transaction              │
                              v                                               v
                         continuations ──claim──> recovery runner ───> side-effect ledger
                           (ApprovalContinuation)                    (SideEffectOperation)

 run's outcome ──> staged response ──> admission ──> send queue ──> delivery queue ──> channel
   ^ cancel            ^ replay        (FinalDelivery, over SerialQueue and BackpressureQueue)

 timer tick / manual ──> schedule queue ──> attempt ──> delivery queue ──> channel
                           (Scheduler, over queues of the SerialQueue kind)

 dispatcher ──> Yeonjang tools ──> MQTT (lost, again, late) ──> node (YeonjangRuntime)
                (external)          (external)
```

The seams are: the dispatcher admits a call into the ledger (`Admit`, `Enter`); the
recovery runner enters it without admission (`Recovering`), and may do so while the
live call still executes, which is the reason the ledger is checked against
overlapping calls rather than against one call at a time; a decision consumes the
approval and enqueues the continuation in one transaction (`Allow`). `FinalDelivery`
composes two modules by their actions: a chunk is a task of `SerialQueue`, whose body
offers it as a job to an instance of `BackpressureQueue` and settles with the job.

### Not modelled

Named with the reason in `PROJECT.json` and in [section 6](#6-what-is-left-out): delayed
runs, cron expressions, system scheduler registration, sub-session orchestration,
topology runtime, MQTT broker and Yeonjang gateway, the node's transport and platform,
agent loop and AI providers, memory, channels, control plane, MCP clients, database and
migrations, security, API/web UI/CLI, release and installer. The root run store, the
startup recovery of runs and the canonical work aggregate are modelled as far as the
final delivery of a run goes.

## 2. Modules

| Module | Models | Configurations |
| --- | --- | --- |
| `EffectOnce` | what the ledger promises, abstractly | (through `SideEffectOperation`) |
| `SideEffectOperation` | the ledger and its callers | `MCSideEffectOperation.cfg` |
| `SideEffectOperationProofs` | theorems: one effect, the refinement of `EffectOnce` | |
| `SideEffectTruthProofs` | theorems, on top of those: rows and answers are true | |
| `ApprovalContinuation` | approvals, waiters, continuations, recovery | `MCApproval*.cfg` |
| `ApprovalContinuationProofs` | theorems about it | |
| `SerialQueue` | the promise-chain map of six queues | (through `FinalDelivery` and `ExecutionQueue`) |
| `SerialQueueProofs` | theorems about it | |
| `ExecutionQueue` | the counted, bounded queue of request groups | `MCExecutionQueue.cfg` |
| `ExecutionQueueProofs` | theorems about it, the refinement of `SerialQueue` | |
| `BackpressureQueue` | slots, places and timers | (through `FinalDelivery`) |
| `FinalDelivery` | the answer of a run, over both queues | `MCFinalDelivery.cfg`, `MCFinalDeliveryCancel.cfg` |
| `AnswerOnce` | what the final delivery promises, abstractly | (through `FinalDelivery`) |
| `FinalDeliveryProofs` | theorems about both queues and the answer, the refinement of `AnswerOnce` | |
| `Scheduler` | one schedule and its runs | `MCScheduler.cfg`, `MCSchedulerOverlap.cfg` |
| `SchedulerProofs` | theorems about it | |
| `YeonjangRuntime` | the command runtime of a node | `MCYeonjangRuntime.cfg`, `MCYeonjangLeak.cfg` |
| `YeonjangRuntimeProofs` | theorems about it | |

Each `MC...` module extends its specification and only gives values to constants. A
definition that stands right before another one and does the same wrongly
(`AnyRevision` before `RevisionMatches`, `TailAfterAnyRelease` before
`TailAfterRelease`) is not used by the specification: it is the mutation with which
the property named in `PROJECT.json` was seen to fail.

### SideEffectOperation

A *call* is one invocation of `executeSideEffectOperation`; `pc[c]` is the await or the
commit it is at. `opParams`, `state` and `log` are the row; `rev[c]` is the revision of
the aggregate the call holds. `Transition(c, r, next, res)` is one call of
`transitionSideEffectOperation`: `Outcomes(c, r)` is what the repository answers: a
replay if the receipt is in the log, a commit if the transition is legal and the
revision matches, a refusal otherwise. Receipts are identified as in the code, by
event and evidence: the evidence of START_EFFECT and of the adapter's records is
unique to a call, that of the others is not, and so they can be replayed by another
call. That asymmetry is what makes the module interesting.

`Admit`/`DenyApproval` are the dispatcher's preflight (`side-effect-runtime.ts`),
`Enter` the reservation and the decision between first execution, resume and an answer
from the row; `CancelReserved`...`CompleteCompensation` follow the executor's lines in
order, `ResumeVerification`...`ResumeManual` its resume path. `Abort` is the abort
signal, `Crash` the end of the process, `EffectLands` an effect whose caller is gone.
The world is a Boolean per scope: the effect is in place or not. `contract` is what the
tool offers (observation of the current state, reversibility, compensation), and is
chosen freely in `Init`, so that all tools are covered at once.

### ApprovalContinuation

A *dispatch* is a tool call that reaches the approval gate; its registry row and its
continuation carry its name. `kind[d]` says what the dispatcher tells apart: tool and
parameters, bound to a prepared operation, timed or a screen confirmation, artifact
delivery. `waiter` and `callback` are the two maps keyed by run. `Ask`, `Reuse`,
`AskRefused` and `GrantInAdvance` are the ways in; `Allow`, `Deny` and
`DecideInRegistry` the surfaces of a decision; `Timeout` and `Abort` the ways out, and
`RunEnds` takes a waiter's entries from the maps and leaves it waiting;
`Execute`, `ClaimRejected`, `PolicyDenies` and `Return` what the dispatcher does
after a grant; `AdapterBlocks`, `AdapterInvokes`, `AdapterReturns`, `HandOff`,
`PassThrows`, `PassEnds` and `RunnerExits` the recovery runner, `Drain` and `Wake` the
supervisor around it. Time is two sets: rows past their expiry and claims past their
lease.

`invocations`, `lapses`, `displaced` and `announced` are history: no guard but a bound
reads them.

### SerialQueue, ExecutionQueue, BackpressureQueue

`SerialQueue` names a promise after its task. `after[t]` is the promise a task is
chained behind, `tail[k]` the map. A task is *settled* when it returned or threw and
*released* when its `finally` handler compared and deleted the entry; the successor
starts only then. `ExecutionQueue` adds the entry object with its counter, deleted when
the counter reaches zero, and is checked to implement `SerialQueue`. In
`BackpressureQueue` a job and its task have separate lives, as in the code, where
`Promise.race` leaves the loser running.

### Scheduler

Time is counted in minutes, the grain of cron. There is one schedule, of any of the three
payloads the code distinguishes and for a target of any kind: Telegram, Slack, or the
gateway itself. `Delivers` says which of them get a message: of the legacy prompts only
those for Telegram. `Tick` decides from the
last recorded start and the state of the queue, `RunNow` is the manual trigger,
`ExecuteQueuedRun` inserts the row and starts the promise of the run, after which the
queue entry is gone. `AttemptRefused/Throws/Sends/Works`, `WorkFails/Succeeds` and
`SendEnds` are an attempt; a send may arrive although it throws. `Restart` and
`CrontabBoots` interrupt open rows, the newest first and at most `StartLimit`, the latter on
a live daemon. The model lets other
things happen between an enqueue and the start of the task although the queue drains
in microtasks: it allows more than the code does.

### FinalDelivery

An *attempt* is one finalization: the driver of a run is an attempt on its own run
(`pc[r]`), a replay pass an attempt on the run it found (`of[p]`). `db[r]` is what
survives the process: `status` of the run, `aggregate` (open, outcome, cancelled,
reported), `staged`, `ledger` (the admission row), `committed` (the record of the final
answer) and the `receipt` the report consumed. Each attempt sends two chunks, `text` and
`done`; each chunk is a task of the session's send queue and a job of the delivery queue.
`TurnComes`, `Offer`, `SendEnds` and `SendReleased` are the task, `ChunkStarts`,
`CallReturns` and `JobAnswered` the job: the handler looks at the run's status, the
channel buffers the text and sends it at the end of the message, and the provider's call
may outlive its job. `Complete`, `Record`, `Report` and `Consume` are the four durable
steps after it. `Recovered` is what a start does to a run.

Abstractions: a run has one response text, its answer or the report of its cancellation;
a replay pass handles one run (a pass over several is several passes); the backoff of a
provider is the time between `TurnComes` and `Offer`; chunks of progress and of other
sessions only take a slot until their task or their timer ends, and come before the first
crash.

### YeonjangRuntime

A *call* is one delivery of a request, a task that interleaves with the others at every
lock, wait or hand-over; `req[c]` is what it delivers, `pc[c]` where it is. What it holds
(claim, slot, permit) is read off `pc`, because these are guard objects that an early
return drops; `Fail` and `RefuseToRun` are those returns. `records` and `disk` are the
durable records in the process and in the file: a commit compares revisions, and a fault
leaves the process behind a file that may have been replaced (`CommitFails`). A
cancellation has its own program counter, `cpc[x]`, from the receipt it may find, over
probe, durable Prepared and signal, to its final receipt. The verifier looks at the clock
twice: `Submit` refuses what has expired, `Consume` asks the replay guard by a second
reading, which also decides what the guard forgets. `StopAccepting`,
`LatchShutdown` and `Drained` are the three steps of a shutdown; `Boot` reads the file
after retention has dropped any of the expired records. `effects`, `outcome`, `halted`,
`onTheEdge` and `reconsumed` are history.

Abstractions: read-only requests, which keep no state, are not there; dropping the guards
of a return is one step, and so are the lifecycle transition and the signal of a
cancellation; `begin_execution` looks at the state and moves it in one step, which ends as
it would have if a cancellation had come between (`Start`); the archive of responses is
part of the record it precedes; the order of waiters for a device is free; a write of the
receipts' store that is reported as failed leaves its file alone (in the code the file may
have been replaced, and every later write conflicts until the node restarts); a backend's
success and failure are both `completed`.

## 3. Runs

Every property of a passing run fails under at least one mutation of the definitions
it depends on, listed under `"mutants"`.

| Run | Instance | Shows |
| --- | --- | --- |
| `ledger` | a dispatched call, a recovery call, and one that reuses the scope with other parameters and without authorization; every contract; fairness | `AtMostOneEffect`, `LedgerMatchesWorld`, `CancelledMeansUntouched`, `AnswersMatchLedger`, `UnknownEffectStaysOpen`; the ledger implements `EffectOnce`; every call whose execution was entered returns; a recorded effect is settled unless a crash or a throwing adapter intervenes |
| `approval_safety` | 2 dispatches of a run, every pair of kinds, one outage, one lapse per continuation | only allowed calls run, one allow-once pays for one invocation, a grant is lost only by a waiter that lost its place to another dispatch or to the end of the run, who executes owns the claim, outcomes are final |
| `approval_progress` | two calls of the same tool, one outage, fairness | no wake is lost, timed waits end even when displaced, pending continuations survive an outage |
| `approval_delivery_settled` | one artifact delivery | *violated*, see section 5 |
| `approval_takeover` | a camera capture and an artifact delivery, one outage, one lapse | *violated*, see section 5 |
| `execution_queue` | 3 runs of a group, 1 of another, 1 may wait | counter exact, implements `SerialQueue`, admitted runs are released |
| `final_delivery` | a driver and a replay of one run, 1 chunk of progress, 2 of other sessions, 1 slot, 1 place, 1 crash, fairness | order and mutual exclusion of sends, exactness of the send map and of the slots, one call of the provider per answer, closed or reported means arrived; the delivery implements `AnswerOnce`; finalizations return, a recorded delivery is reported |
| `final_delivery_cancel` | the same | *violated*, see section 5 |
| `schedule_runs` | occurrences in minutes 1 and 2, 1 manual trigger, 1 retry, 1 crash, every payload, every kind of target, a start that closes 1 row | occurrences are not fired twice, delivered once, success means sent, open rows are owned, occurrences are served |
| `schedule_overlap` | the same | *violated*, see section 5 |
| `yeonjang_runtime` | 2 deliveries of 3 requests (two share a key, all a device), 1 cancellation, 1 permit, capacities of 1 or 2, 1 fault, 1 crash, 1 expiry, a request with a time limit, one without and one that heeds no signal either, fairness | effects start once, responses are true, claims have owners, nothing runs after a shutdown, accepted cancellations are heard, a refused request stays refused, deliveries are answered, shutdown drains |
| `yeonjang_leak` | the same without faults, crash and clock | *violated*, see section 5 |

### Bounds

The bounds matter for what is only model-checked, the liveness properties and the
violations. Every safety property of a passing run is also a theorem
([section 4](#4-proofs)), for every value of the constants that are bounds here.

- *Ledger.* All contention is on one row, and scopes do not share state, so one scope
  is enough. A first execution and a resume that overlaps it need two calls, and the
  third is refused in each of the ways a call can be refused before it commits. The
  question of several first executions is not one of bounds: `AtMostOneEffect` and the
  refinement are proved for every set of calls. The log is bounded by the state machine,
  and crashes by the calls they end.
- *Approvals.* The waiter maps hold one entry per run; two dispatches of a run are the
  fewest that displace each other. Runs share only the queue of continuations and its
  runner, which two dispatches of one run share as well. One lapse is what it takes to
  have two executors, and one outage to have a successor process. The end of a run under a waiting
  dispatch (`RunEnds`) counts as an outage. `MaxLapses` and
  `MaxOutages` are the only bounds in guards.
- *Queues.* A chain can be empty, busy with one, or have one waiting and one arriving
  at the moment the first is released: three runs. The fourth is of another group.
  The send queue of `final_delivery` has five tasks on one key. Keys share nothing, and
  the theorems on `SerialQueue` hold for any number.
- *Final delivery.* Two attempts are the fewest that race for the admission, and runs
  share only the delivery queue, where the chunks of other sessions stand for them. With
  one slot and one place those chunks make a chunk of the run start at once, wait or be
  refused. A second crash finds a run only in states that the first may have left.
  `MaxCrashes` is the only bound in a guard.
- *Yeonjang.* Two deliveries are the fewest that race for a claim, a device, a permit or a
  command id; the three requests make them identical, independent with a shared device, or
  in conflict over the idempotency key. One of them expires at 0 and the others at 1, so
  that the one tick may come before a delivery, between its two looks at the clock, or
  after. The permits alone are not exhausted: with one device the second delivery waits
  for its slot, and `Backpressure` needs requests that compete for nothing else.
  Capacities are small so that they are reached. One fault, one crash and one tick are the
  first of each; `MaxFaults`, `MaxCrashes` and `MaxNow` are the bounds.
- *Scheduler.* With two occurrences a run can be on time, late for one, or late for
  both; one retry, one crash, one manual trigger are each the first of their kind, a start
  limit of one (200 in the code) is exceeded by two open rows, and
  `Runs` has one number more than there should be firings. `MaxTime`, `MaxManual` and
  `MaxCrashes` are the bounds.

`CHECK_DEADLOCK FALSE` is set throughout because all these systems may come to rest:
calls return, queues run empty, the clock reaches its bound.

### Fairness

Weak fairness is assumed of what the runtime, and nobody else, makes happen.

- *Ledger:* a call whose execution was entered is carried on, and the promises of its
  adapter settle: tools with a contract read and write files, ask the local system, or wait
  at most 60 s for Yeonjang. Nothing is assumed of a call that waits for approval
  (`tools/dispatcher.ts:1408`: a screen confirmation has no time limit). Aborts, crashes and
  landing effects are never forced.
- *Approvals:* the event loop never rests while a timer or a continuation of a dispatch
  is due (one condition for all dispatches), an adapter returns or throws, the runner's
  pass is carried on, a shutdown that began ends, and the service manager restarts the
  gateway. No person has to decide anything.
- *Execution queue:* microtasks run, and a task returns or throws. That is an
  assumption on callers, and needed: this queue has no timer.
- *Final delivery:* the event loop never rests while a continuation or a timer is due
  (one condition for all of them, so no single attempt is favoured), and a dead process is
  started again. The review, the user, the channel manager and the provider owe nothing:
  a call may never return.
- *Yeonjang:* every ready task is polled, and a wait for a device ends after two seconds. A
  platform operation ends if it has a time limit (`Budgeted`), or once its signal is set if
  it looks at it (`Heeding`, as `system.exec` does, `platform/shared.rs:144`). Nothing is
  assumed of the others: `system.exec` without `timeout_sec` before its signal,
  `clipboard.write` at all (`features/clipboard.rs:126`). Nobody has to deliver, cancel,
  stop or restart, nor to carry a cancellation on. `CallsAnswered` and `ShutdownDrains` say
  that a hanging operation holds up its own delivery and the shutdown, and nobody else.
- *Scheduler:* the timer ticks, the queue is drained, the daemon is restarted. Nothing
  is assumed of runs, which may hang for ever; the clock is not forced either.

## 4. Proofs

TLAPS checks the following for every value of the constants.

| Theorem | States |
| --- | --- |
| `SideEffectOperationProofs!TypeCorrect` | `Spec => []TypeOK` |
| `SideEffectOperationProofs!NoSecondEffect` | `Spec => []AtMostOneEffect` |
| `SideEffectOperationProofs!UnknownEffectOpen` | `Spec => []UnknownEffectStaysOpen` |
| `SideEffectOperationProofs!LedgerImplementsEffectOnce` | `Spec => ImplementsEffectOnce` |
| `SideEffectTruthProofs!LedgerIsTrue` | `Spec => []LedgerMatchesWorld` |
| `SideEffectTruthProofs!CancellationIsTrue` | `Spec => []CancelledMeansUntouched` |
| `SideEffectTruthProofs!AnswersStay` | `Spec => []AnswersMatchLedger` |
| `ApprovalContinuationProofs!ApprovalPrecedesUse` | `Spec => []OnlyAllowedCallsRun` |
| `ApprovalContinuationProofs!AllowOncePaysOnce` | `Spec => []AllowOnceRunsOnce` |
| `ApprovalContinuationProofs!ClaimsAreExclusive` | `Spec => []ExecutorOwnsClaim` |
| `ApprovalContinuationProofs!LostGrantsWereDisplaced` | `Spec => []LostGrantMeansDisplaced` |
| `ApprovalContinuationProofs!OutcomesStay` | `Spec => OutcomesAreFinal`, an action property |
| `SerialQueueProofs!TasksRunInOrder` | `Spec => []SerialInOrder` |
| `SerialQueueProofs!MapIsExact` | `Spec => []EntryWhileBusy` |
| `ExecutionQueueProofs!CountersAreExact` | `Spec => []OutstandingIsExact` |
| `ExecutionQueueProofs!ImplementsPromiseQueue` | `Spec => ImplementsSerialQueue` |
| `ExecutionQueueProofs!GroupRunsInOrder` | `SerialInOrder`, through the refinement |
| `SchedulerProofs!OccurrencesFireOnce` | `Spec => []OccurrencesMoveOn` |
| `SchedulerProofs!OneMessagePerOccurrence` | `Spec => []DeliveredOnce` |
| `SchedulerProofs!SuccessIsTrue` | `Spec => []SuccessMeansSent` |
| `SchedulerProofs!OpenRowsAreOwned` | `Spec => []OpenRowIsOwned` |
| `YeonjangRuntimeProofs!EffectsStartOnce` | `Spec => []EffectOnce` |
| `YeonjangRuntimeProofs!ResponsesAreOutcomes` | `Spec => []ResponsesAreTrue` |
| `YeonjangRuntimeProofs!ClaimsHaveOwners` | `Spec => []ClaimHasOwner` |
| `YeonjangRuntimeProofs!ShutdownIsQuiet` | `Spec => []QuietAfterShutdown` |
| `YeonjangRuntimeProofs!AcceptedCancelsAreHeard` | `Spec => []AcceptedIsHeard` |
| `YeonjangRuntimeProofs!CancelledRequestsNeverStart` | `Spec => CancelledNeverStarts`, an action property |
| `FinalDeliveryProofs!ProviderCalledOnce` | `DeliverySpec => []OneFinalPerRun` |
| `FinalDeliveryProofs!ReportsAreTrue` | `DeliverySpec => []ClosedMeansArrived` |
| `FinalDeliveryProofs!SlotsCounted` | `DeliverySpec => []SlotsAreExact` |
| `FinalDeliveryProofs!ChunksRunInOrder` | `DeliverySpec => []SerialInOrder` |
| `FinalDeliveryProofs!SendMapIsExact` | `DeliverySpec => []EntryWhileBusy` |
| `FinalDeliveryProofs!DeliveryImplementsAnswerOnce` | `DeliverySpec => ImplementsAnswerOnce` |

Every inductive invariant was checked by TLC, on the instance of the component's run,
before it was proved. The proofs share a layout: the invariant as a conjunction of named
parts, lemmas about the operators, one lemma per action (or per shape, where many actions
do the same to the state), and the theorems at the end.

### Assumptions

They are the named assumptions of the specifications, and TLC evaluates them on every run.

- `SideEffectOperation`: calls have a scope and parameters, and the two null values are
  not calls or parameters. Calls, scopes and parameters need not be finite.
- `SerialQueue`: every task has a key, and no task is the null one.
- `ExecutionQueue` and `ApprovalContinuation`: a finite set of runs and of dispatches, for
  the counter that is a cardinality and for the order of claims; an artifact delivery is
  bound to a prepared operation.
- `Scheduler`: finitely many occurrences up to the last minute, the code's limit of ten
  retries, and a start that closes at least one row. What the code fixes at 200 is a
  parameter.
- `YeonjangRuntime`: requests have an expiry, cancellations a target; there is a permit;
  and `None`, the `None` of a Rust `Option`, is not one of the things it stands beside.
- `FinalDelivery`: a positive budget of slots, drivers are not replays, and chunks of
  answers, chunks of progress and chunks of other sessions are different chunks.

### Arguments

**Ledger: one effect.** The inductive invariant is
`TypeOK /\ ReservedIsEmpty /\ StartsHavePassed /\ CallsInStep /\ LaunchesInStep /\ LandingInStep`.
`AtMostOneEffect` alone is not inductive, because nothing in it says why a second call
cannot come to the launch. The argument is:

1. A row in RESERVED has an empty log (`ReservedIsEmpty`), so the transition to
   EFFECT_STARTED can only be committed from revision zero, once.
2. The other way to pass START_EFFECT is a replay, and a START_EFFECT receipt in the
   log names a call that is already past it (`StartsHavePassed`): nobody replays the
   receipt of somebody else, and nobody passes twice.
3. So at most one call is between the start and the record, and while it is, the row is
   EFFECT_STARTED at that call's revision (`CallsInStep`); the effect is unlaunched before
   and launched once after (`LaunchesInStep`).
4. An effect whose caller is gone leaves the row at EFFECT_STARTED without an owner
   (`LandingInStep`), which no resumable state includes.

The refinement maps the row to an outcome (`Outcome`): a terminal state is itself, a
cancelled row whose effect was never launched is CANCELLED, everything else is OPEN.
With the invariant every step is a `Launch`, `Cancel`, `Settle` or a stutter of
`EffectOnce`.

**Ledger: rows and answers are true.** A call observes the world at one await and commits
what it saw at another, while others verify or compensate the same row. `TruthInv` says
what it may rely on: a row is in the state its last receipt led to (`RowEndsWithLog`);
what is verified or compensated was recorded (`RecordedFirst`); nothing is in the world
before the launched effect returns (`AbsentBeforeReturn`); a row under compensation never
returns to verification (`CompensationIsFinal`), so an observation is still true or can no
longer be committed (`ObservedHolds`). The receipts replayed by another call are why the
last is needed.

**Approvals.** `ApprovalInv` ties the places of a call to each other: the registry row,
the two maps, the grant, the continuation and what the runner holds. `AllowOnceRunsOnce`
counts invocations; `Budget` adds to them what may still come: a claimable row, a claim in
the runner's hand, a grant that will not claim, an unspent row. The sum never exceeds one,
plus one per lapsed lease, plus one for an artifact delivery; every step moves a unit from
place to place. `MapsLeadToWaiters` says that the two maps agree and that a waiting call
that is in neither was taken out of them by another dispatch or by the end of its run, from
which `LostGrantMeansDisplaced` follows: no timer and no abort takes a grant from a waiter
the maps lead to.

**Serial queue.** The inductive invariant is
`TypeOK /\ Tickets /\ Chained /\ TailIsLatest /\ SerialInOrder`: tickets number the
arrivals without repetition; a task is chained behind its immediate predecessor on the
key, or behind nobody if all earlier tasks were released when it arrived; and the map
holds the latest arrival of a key as long as that one is unreleased. `SerialInOrder`
needs `Chained`, and `Chained` needs `TailIsLatest` at the moment of an arrival.

**Execution queue.** It deletes an entry when a counter reaches zero, where `SerialQueue`
compares promises. The two agree because the counter reaches zero exactly when the tail
of the group is released, which holds because runs are released in order. So the invariant
of `SerialQueue`, under the refinement mapping, is a part of `ExecutionInv`, and its
lemmas are used through an instance of its proofs.

**Scheduler.** A tick compares the due time with the last recorded start. `SchedulerInv`
says that what began has a row (`BegunIsRecorded`), that an occurrence is only ever at
the head of the queue and later than every recorded start (`QueueInOrder`, `HeadIsNew`),
hence that no two runs begin for one occurrence (`OccurrenceBeginsOnce`); an attempt that
is still live has sent nothing that is not retried by intent (`SentOnce`), and delivered
receipts have a message behind them (`ReceiptsAreTrue`).

**Yeonjang runtime.** Three things guard an effect, and each is lost in some way: the
replay guard and the claim with the process, the durable record to retention. The
invariant says when each holds: one call per authorization (`AuthorizedOnce`), one claim
per key and as long as its call (`ClaimIsHeld`), a record in the file around the effect
(`ReservationIsDurable`), and that what was started is in the file, or its authorization
has expired and no call that holds it is left, or it is on the edge where retention and
verifier disagree (`EffectIsRemembered`). A reservation is then the first
(`ReservedIsFirst`). `OutcomeIsAnswer` and `EvidenceIsTrue` carry the outcome through
memory, file and answer. `SignalIsKept` and `AcceptedAfterSignal` concern cancellations.
That a cancelled request does not start is the replay guard's doing, which keeps it at
least until it expires; the history variable `reconsumed` names the requests whose second
delivery was checked before that instant and consumed after it. The actions of a call fall
into eleven shapes, and the invariant is shown for those.

**Final delivery.** `DeliveryInv` has the invariant of `SerialQueue`, the exactness of the
slots (`SlotInv`; the loop of `runNext` is shown to start one job or none, because a slot
or a job is added one at a time), and `AttemptInv`:

1. A chunk is offered in its turn, called when it has a slot, and the done chunk follows
   the text (`ChunksInOrder`).
2. The ledger admits one attempt for a run (`AdmittedOnce`), and a call marks the done
   chunk of that attempt as begun and the ledger as taken (`CallIsMarked`). A crash takes
   the chunks and leaves the ledger: no second call.
3. Whoever holds a receipt, a row that says delivered, or the right to report has an
   answer that arrived (`EvidenceArrived`), and a report is for good (`ReportedForGood`).

For the refinement of `AnswerOnce`, `TraceInv` adds that a response is staged once and
that a chunk on the wire was counted as a call. Every step is then a `Call`, an `Arrive`
(of one run after a call, of any that were on the wire in a crash), a `Report` (of one
run, or of all recorded ones at a restart), a `Close` or a stutter. The run
`final_delivery` checks the same property on its instance.

### Only model-checked

Liveness, which is out of the prover's reach, as is `ENABLED`: `EveryCallReturns` and
`RecordedEffectIsSettled` of the ledger, `UnattendedIsTaken` and `TimedWaitEnds`
of the approvals, `AdmittedIsReleased` of the execution queue,
`OccurrencesAreServed` of the scheduler, `CallsAnswered` and `ShutdownDrains` of the node,
`EveryFinalizationReturns` and `CommittedIsReported` of the final delivery. The theorems
are about the specifications without fairness, and so hold with it. The five violations of
section 5 are counterexamples that TLC finds. No recursion over data is part of a proof.

## 5. Where code and documents disagree

Each is a run that TLC finds violated.

1. **Artifact deliveries are left unsettled** (`approval_delivery_settled`,
   `ReturnedCallIsSettled`). `tools/dispatcher.ts:1132` claims and completes the
   continuation of a bound call only if it is not an artifact delivery. After the live
   delivery returned the continuation is pending and the next recovery pass takes it.
   `runs/source.md:316` says that the dispatcher settles it.
2. **A lease is taken over while its owner executes** (`approval_takeover`,
   `OnlyOrphansAreRecovered`). `db/approved-operation-continuation-repository.ts:112`
   takes any claim whose 120 s have passed; leases are not renewed. `runs/source.md:319`
   says only claims left by a process crash are recovered. The ledger keeps a tool with
   a side-effect contract from a second effect; `AllowOnceRunsOnce` states exactly what
   a lapse costs.
3. **Firings of a schedule overlap** (`schedule_overlap`, `FiringsAreSerial`).
   `scheduler/index.ts:433` returns when the row is inserted and does not await the run,
   so that the queue entry is released while the run executes. `scheduler/source.md:29`
   and `:31` say that firings of the same schedule are serialised.
4. **A run cancelled during its completion review delivers its answer**
   (`final_delivery_cancel`, `CancelledIsSilent`). The review's model call does not see the
   run's abort signal (`agent/completion-review.ts:661`), its outcome is recorded without a
   look at the run (`runs/review-outcome-pass.ts:259`), and `runs/store.ts:1236` writes the
   projected status past the lock on terminal statuses: the run is `running` again and the
   checks before the channel let its answer through. `src/PROJECT.md:347` promises that a
   cancellation is reflected in the work in progress, and
   `src/tests/task052-final-delivery-cancellation.test.ts:38` that a cancelled run does not
   reach the channel's handler.
5. **A command cancelled while it registers stays in the node's registry** (`yeonjang_leak`,
   `EntryHasOwner`). `src/Yeonjang/src/runtime.rs:629` returns before the cleanup guard of
   line 636 exists; the command id is taken until the node restarts.
   `src/Yeonjang/src/source.md:452` says that the guard removes the entry on a normal end
   and on a panic; this early return is before the guard, and keeps the entry.

The other properties are stated so as to hold in spite of these, and say so: the
exceptions in `AllowOnceRunsOnce` and `EffectOnce` of the node are the known costs, no
wider. The second is an off-by-one: retention drops a record at
`expires_at <= now` (`src/Yeonjang/src/durable_retention.rs:78`) while the verifier accepts
the authorization until `now > expires_at` (`authorization.rs:230`). Two more are exceptions
of properties:

- *A delivery that straddles its expiry* (`CancelledNeverStarts`). `authorization.rs` compares
  the clock at line 230 and hands a second reading to the guard at line 246, which drops by
  it what has expired (line 130). A second delivery that is checked in time and consumes late
  is therefore not known as a repetition; if the first one was cancelled before execution,
  which leaves neither a claim nor a record, its effect starts after all.
- *Legacy prompts for Slack* (`SuccessMeansSent`). `scheduler/index.ts:533` sends the answer
  for a Telegram target only; with a Slack target, which the migration to contracts knows
  (`schedules/legacy-migration.ts:78`), the run is recorded as executed and delivered
  (line 582) and nobody hears of it.

Weaknesses the documents do not deny, and which no property covers (those that bite
hardest are also in the hazard list, with a note): a screen confirmation whose waiter was
displaced or whose run ended waits until its run is cancelled, which may be never; a claim
left by a crash and not lapsed at the restart waits for the next wake; a command without a
time limit keeps its permit, and `clipboard.write` may keep a shutdown waiting for ever;
an answer whose delivery failed or was in flight at a crash stays pending for ever, by
intent; a command the node cancelled before execution may run if it is delivered again
after a restart; the search for the next cron match skips short months when the cursor is
late in a long one (`scheduler/cron.ts:136`); a start closes the newest 200 unfinished
rows and leaves older ones open (`db/index.ts:6982`; `OpenRowIsOwned` says so); delayed
runs are forgotten by a restart.

## 6. What is left out

*Inside modelled components.* Texts, notices, logging and diagnostic snapshots;
fingerprints, which are their identity; expiry and lease as instants, which are members of
a set. Between START_EFFECT and the launch the event loop gives an abort signal no turn;
the model leaves it possible, for the check the executor makes there. The scheduler's
editing, legacy migration, artifacts and chat targets without a session, and its legacy
direct texts, which no prompt yields any more (`runs/scheduled.ts:61`); the
recovery-attempt counters of the backpressure queue; of final delivery, partial results,
conflicting stagings, blocked reviews and renderings, finals of sub-sessions, channels
without delivery evidence and ledger writes that fail; of the node, the saturation of
device slots. SQLite is taken to execute a statement or transaction as one step and to
lose nothing it committed.

*Components.*

| Component | Why |
| --- | --- |
| the rest of the root run store (steps, events, child runs, stale cleanup) and of startup recovery | planned, on top of `FinalDelivery` |
| delayed runs, cron expressions | planned, small |
| MQTT broker, Yeonjang gateway, the node's command pump and journal | planned: the protocol between machines, whose far end is `YeonjangRuntime` |
| the canonical work aggregate before its outcome, sub-sessions, topology runtime | planned after the run store they depend on |
| agent loop, AI providers, memory | decisions of a language model and relevance of texts: nondeterminism to the modules around them |
| channels, API, web UI, CLI, MCP clients | plumbing; their calls into modelled components are actions there |
| control plane, security | append-only diagnosis; predicates over texts and settings |
| database, migrations, system scheduler registration, release, installer | taken as given, or offline |

## 7. Plan

Modules, in order of importance:

1. `YeonjangCommands`: the gateway's side of a command over MQTT (lost, duplicated, late
   messages, timeouts, cancellation), composed with `YeonjangRuntime`: the answer the
   gateway gives is the node's, or says that it is unknown.
2. `RunStore`: cancellation of a run and its descendants against late completions, stale
   cleanup, and the second process that recovers on a live daemon's database.
3. `CronNextRun`: the search for the next match against a reference definition.
4. `DelayedRuns` over `SerialQueue`: timers that re-arm until due
   (`runs/run-queueing.ts`).
5. `SubSessions` over `ExecutionQueue`, and the canonical work aggregate as the abstract
   specification of a run's life.
6. A composition of `ApprovalContinuation` with `SideEffectOperation`: a lapse and an
   unsettled delivery, end to end, cost an invocation and never a second effect.

Theorems: with the modules above, the invariants of the new ones; the composition of
item 6 as a refinement of `EffectOnce` by both modules together; an abstract
specification of the scheduler (an occurrence is fired, sent and closed) and of the node
(a request is started, ends and is answered), as `AnswerOnce` is of the final delivery.

## 8. Checking

```
tlc -workers 2 -config MCSideEffectOperation.cfg MCSideEffectOperation
tlapm SideEffectOperationProofs.tla
```

`PROJECT.json` names the module and configuration of every run. `approval_progress`
takes two to three minutes on two cores, `final_delivery`, `yeonjang_runtime`,
`approval_safety` and `schedule_runs` one to three; the others take seconds to half a minute.
Of the proofs, those of `YeonjangRuntime` and `FinalDelivery` take about two minutes from
nothing, the others less.
