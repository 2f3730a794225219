-------------------------- MODULE YeonjangRuntime --------------------------
(***************************************************************************)
(* The runtime of a Yeonjang node: RuntimeSupervisor, which executes the    *)
(* side-effect requests the gateway sends to a computer.                    *)
(*                                                                         *)
(* Every delivery of a request is a task of a multi-threaded runtime and    *)
(* interleaves with the others wherever it takes a lock, waits or hands the *)
(* effect to a blocking worker.  Three stores keep an effect from being     *)
(* repeated: the replay guard and the completed responses, both in memory,  *)
(* and the durable records, which survive a crash.  Cancellations reach a   *)
(* command through the registry of active commands, and leave receipts in a *)
(* durable store of their own.  The gateway may deliver everything again.   *)
(*                                                                         *)
(* A permit or a slot is a guard object of the call, dropped when the call  *)
(* returns: who holds one is read off the program counters.                 *)
(***************************************************************************)
EXTENDS Naturals, FiniteSets, Sequences, SequencesExt

CONSTANTS
  Calls,              \* deliveries of a request
  Requests,           \* exact side-effect requests, one authorization each
  Cancels,            \* deliveries of a cancellation
  None,               \* no request, call, receipt or resource
  MayDeliver,         \* the requests a call may deliver
  KeyOf,              \* a request's idempotency key
  CommandOf,          \* a request's command id
  ResourceOf,         \* the device it needs for itself, or None
  ExpiresAt,          \* when its authorization expires
  Budgeted,           \* requests whose operation has a time limit
  Heeding,            \* requests whose operation looks at its cancellation signal
  IdOf,               \* a cancellation's request id
  TargetOf,           \* the request a cancellation is bound to
  Exact,              \* cancellations with the versioned exact binding
  MaxInFlight,        \* worker permits (8)
  CompletedCapacity,  \* completed responses kept in memory
  RecordCapacity,     \* durable records
  ReceiptCapacity,    \* durable cancellation receipts
  TombstoneCapacity,  \* terminal commands remembered in memory (512)
  MaxNow,             \* bound on the clock
  MaxCrashes,         \* bound on crashes
  MaxFaults           \* bound on failed writes and worker panics

Keys == {KeyOf[r] : r \in Requests}
Commands == {CommandOf[r] : r \in Requests}
CancelIds == {IdOf[x] : x \in Cancels}

\* A response: the backend completed (succeeded or failed), or gave up.
Responses == {"completed", "cancelled"}

\* What a call may return, and a cancellation.
Answers ==
  Responses \cup {"ShuttingDown", "Expired", "IdempotencyConflict", "IdempotencyInProgress",
                  "IdempotencyUnavailable", "EffectStateUnknown", "AlreadyActive",
                  "CancelledBeforeExecution", "ResourceBusy", "Backpressure",
                  "DurableRecoveryUnavailable", "WorkerFailed"}
Verdicts ==
  {"NotActive", "AlreadyTerminal", "BindingMismatch", "Duplicate", "Accepted", "Rejected",
   "DurableUnavailable"}

\* What the two stores of outcomes hold under an idempotency key.
CompletedEntries == [req : Requests, response : Responses \cup {None}]
DurableRecords == [req : Requests, terminal : Responses \cup {"EffectStateUnknown"}]

ASSUME RuntimeAssumption ==
  /\ MayDeliver \in [Calls -> SUBSET Requests]
  /\ TargetOf \in [Cancels -> Requests]
  /\ ExpiresAt \in [Requests -> Nat]
  /\ Exact \subseteq Cancels
  /\ Budgeted \subseteq Requests /\ Heeding \subseteq Requests
  /\ None \notin Calls \cup Requests \cup Answers \cup Verdicts
  /\ None \notin CompletedEntries \cup DurableRecords
  /\ MaxInFlight \in Nat \ {0}

VARIABLES
  now,          \* the clock
  accepting,    \* the runtime admits requests
  closing,      \* how far shutdown is
  consumed,     \* replay guard: the requests whose authorization was used that it keeps
  completed,    \* claims and responses in memory, by idempotency key
  records,      \* the durable records as the process holds them
  disk,         \* the durable records as the file holds them
  active,       \* the registry: the call that owns a command, or None
  latch,        \* the registry: shutdown was requested
  tombstones,   \* the registry: terminal commands, oldest first
  life,         \* lifecycle state of a call's command
  signal,       \* cancellation signal of a call's command
  req,          \* the request a call delivers
  pc,           \* where a call is
  answer,       \* what a call returns
  receipts,     \* durable cancellation receipts, by cancellation id
  terminalIndex,\* durable index of commands that reached their end
  cpc,          \* where a cancellation is
  verdict,      \* what a cancellation returns
  booted,       \* the process is up
  crashes,
  faults,
  effects,      \* history: how often the effect of a request was started
  outcome,      \* history: how the last effect of a request ended
  halted,       \* history: requests answered as cancelled before execution, since the start
  onTheEdge,    \* history: requests whose record was pruned as they expired
  reconsumed    \* history: requests a second delivery consumed once they had expired

memory == <<accepting, closing, consumed, completed, active, latch, tombstones>>
calls == <<req, pc, answer, life, signal>>
cancelling == <<receipts, terminalIndex, cpc, verdict>>
stores == <<records, disk>>
environment == <<now, booted, crashes, faults>>
history == <<effects, outcome, halted, onTheEdge, reconsumed>>
vars == <<memory, calls, cancelling, stores, environment, history>>

-----------------------------------------------------------------------------
\* The lifecycle of a command (the states that can be told apart).

Cancelled == {"CancellationRequested", "Cancelling"}

\* A panic, an error or an answer drops the guard: the outcome is unknown
\* where the lifecycle allows one, and a command that ended leaves a
\* tombstone.
Ends(l) == l \in {"Running", "Terminal"} \cup Cancelled

Tombstone(c) ==
  LET t == SelectSeq(tombstones, LAMBDA e : CommandOf[e] # CommandOf[req[c]])
      grown == Append(t, req[c])
  IN IF Len(grown) > TombstoneCapacity THEN Tail(grown) ELSE grown

\* ActiveCommandCleanup: leave the registry.
Unregister(c) ==
  /\ active' = [active EXCEPT ![CommandOf[req[c]]] = None]
  /\ tombstones' = IF Ends(life[c]) THEN Tombstone(c) ELSE tombstones
  /\ life' = [life EXCEPT ![c] = IF Ends(@) THEN "Terminal" ELSE @]

\* CompletedClaimCleanup: give up a claim that has no response.
Abandon(c) == completed' = [completed EXCEPT ![KeyOf[req[c]]] = None]

-----------------------------------------------------------------------------
\* Who holds what.

WithSlot == {"acquired", "permitted", "reserved", "running", "executed", "finalized",
             "ended", "recorded"}

\* Mutant: the permit is given back as soon as the effect is over.
PermitForEffect == {"permitted", "reserved", "running"}

\* The permit moves into the worker and is dropped with it.
WithPermit == WithSlot \ {"acquired"}

Claiming == WithSlot \cup {"claimed", "registered", "queued"}
InCall == Claiming \cup {"verifying", "replaying", "admitted", "looked"}

SlotFree(c) ==
  \/ ResourceOf[req[c]] = None
  \/ \A d \in Calls \ {c} :
        pc[d] \in WithSlot => ResourceOf[req[d]] # ResourceOf[req[c]]

\* A shutdown that drains has every returned permit queued for itself.
PermitFree ==
  /\ closing # "draining"
  /\ Cardinality({c \in Calls : pc[c] \in WithPermit}) < MaxInFlight

-----------------------------------------------------------------------------
\* The durable records.

\* A commit compares the file's revision with the one the process read.  A
\* fault leaves the process as it was, whether or not the file was replaced.
Commits(next) ==
  /\ disk = records
  /\ disk' = next /\ records' = next
  /\ UNCHANGED faults

\* Mutant: a conflict is tried again until it goes away.
RetriesConflict(next) ==
  /\ disk = records /\ faults < MaxFaults
  /\ faults' = faults + 1
  /\ disk' \in {disk, next}
  /\ UNCHANGED records

CommitFails(next) ==
  \/ /\ disk # records
     /\ UNCHANGED <<stores, faults>>
  \/ /\ disk = records /\ faults < MaxFaults
     /\ faults' = faults + 1
     /\ disk' \in {disk, next}
     /\ UNCHANGED records

\* Mutant: an unknown effect is tried again.
AnswerIfSettled(r) ==
  LET record == records[KeyOf[r]]
  IN IF record = None \/ record.terminal = "EffectStateUnknown" THEN None
     ELSE IF record.req # r THEN "IdempotencyConflict"
     ELSE record.terminal

\* recover_durable_if_present: the answer a record dictates, or None.
DurableAnswer(r) ==
  LET record == records[KeyOf[r]]
  IN IF record = None THEN None
     ELSE IF record.req # r THEN "IdempotencyConflict"
     ELSE IF record.terminal = "EffectStateUnknown" THEN "EffectStateUnknown"
     ELSE record.terminal

\* Mutant: the idempotency key alone decides.
AnswerByKey(r) ==
  LET entry == completed[KeyOf[r]]
  IN IF entry = None THEN None
     ELSE IF entry.response = None THEN "IdempotencyInProgress"
     ELSE entry.response

\* lookup and claim: the answer a completed entry dictates, or None.
CompletedAnswer(r) ==
  LET entry == completed[KeyOf[r]]
  IN IF entry = None THEN None
     ELSE IF entry.req # r THEN "IdempotencyConflict"
     ELSE IF entry.response = None THEN "IdempotencyInProgress"
     ELSE entry.response

Init ==
  /\ now = 0 /\ booted = TRUE /\ crashes = 0 /\ faults = 0
  /\ accepting = TRUE /\ closing = "no" /\ latch = FALSE
  /\ consumed = {}
  /\ completed = [k \in Keys |-> None]
  /\ records = [k \in Keys |-> None] /\ disk = records
  /\ active = [m \in Commands |-> None] /\ tombstones = <<>>
  /\ req = [c \in Calls |-> None]
  /\ pc = [c \in Calls |-> "new"] /\ answer = [c \in Calls |-> None]
  /\ life = [c \in Calls |-> "Received"] /\ signal = [c \in Calls |-> FALSE]
  /\ receipts = [i \in CancelIds |-> None]
  /\ terminalIndex = [m \in Commands |-> None]
  /\ cpc = [x \in Cancels |-> "new"] /\ verdict = [x \in Cancels |-> None]
  /\ effects = [r \in Requests |-> 0] /\ outcome = [r \in Requests |-> None]
  /\ halted = {} /\ onTheEdge = {} /\ reconsumed = {}

-----------------------------------------------------------------------------
\* A call, from its delivery to the worker.

Goto(c, to) == pc' = [pc EXCEPT ![c] = to] /\ UNCHANGED answer

Return(c, a) ==
  /\ pc' = [pc EXCEPT ![c] = "done"]
  /\ answer' = [answer EXCEPT ![c] = a]

\* Go on when there is nothing to answer yet.
ReturnOr(c, a, to) == IF a = None THEN Goto(c, to) ELSE Return(c, a)

unaffected == <<cancelling, req, now, booted, crashes>>

\* execute: closed runtimes and expired authorizations do not get past the
\* checks of the receipt.
Submit(c) ==
  \E r \in MayDeliver[c] :
     /\ booted /\ pc[c] = "new"
     /\ req' = [req EXCEPT ![c] = r]
     /\ \/ ~accepting /\ Return(c, "ShuttingDown")
        \/ accepting /\ now > ExpiresAt[r] /\ Return(c, "Expired")
        \/ accepting /\ now <= ExpiresAt[r] /\ Goto(c, "verifying")
     /\ UNCHANGED <<memory, life, signal, stores, faults, history, cancelling,
                    now, booted, crashes>>

\* What consume retains by its own reading of the clock.
Unexpired == {r \in consumed : ExpiresAt[r] >= now}

\* Another delivery of the request got as far before.
Preceded(c) ==
  \E d \in Calls \ {c} : req[d] = req[c] /\ pc[d] \notin {"new", "verifying"}

\* The replay guard, after the proof was verified.  A used authorization may
\* still be answered with what it achieved.
Consume(c) ==
  LET r == req[c]
  IN /\ pc[c] = "verifying"
     /\ \/ /\ r \in Unexpired
           /\ ReturnOr(c, CompletedAnswer(r), "replaying")
           /\ consumed' = Unexpired
           /\ UNCHANGED reconsumed
        \/ /\ r \notin Unexpired
           /\ Goto(c, "admitted")
           /\ consumed' = Unexpired \cup {r}
           /\ reconsumed' = reconsumed \cup
                {q \in {r} : now > ExpiresAt[q] /\ Preceded(c)}
     /\ UNCHANGED <<accepting, closing, completed, active, latch, tombstones, life, signal,
                    stores, faults, effects, outcome, halted, onTheEdge, unaffected>>

\* The archived response of a completed record is missing or unavailable.
ResolveFails(c) ==
  /\ DurableAnswer(req[c]) \in Responses
  /\ faults < MaxFaults /\ faults' = faults + 1
  /\ Return(c, "DurableRecoveryUnavailable")

\* recover_durable_replay: a replay never runs the effect.
Replay(c) ==
  /\ pc[c] = "replaying"
  /\ \/ LET a == DurableAnswer(req[c])
        IN Return(c, IF a = None THEN "EffectStateUnknown" ELSE a) /\ UNCHANGED faults
     \/ ResolveFails(c)
  /\ UNCHANGED <<memory, life, signal, stores, history, unaffected>>

LookUp(c) ==
  /\ pc[c] = "admitted"
  /\ \/ ReturnOr(c, DurableAnswer(req[c]), "looked") /\ UNCHANGED faults
     \/ ResolveFails(c)
  /\ UNCHANGED <<memory, life, signal, stores, history, unaffected>>

Claim(c) ==
  LET r == req[c]
      full == Cardinality({k \in Keys : completed[k] # None}) >= CompletedCapacity
      a == IF completed[KeyOf[r]] = None /\ full THEN "IdempotencyUnavailable"
           ELSE CompletedAnswer(r)
  IN /\ pc[c] = "looked"
     /\ ReturnOr(c, a, "claimed")
     /\ completed' = IF a = None
                     THEN [completed EXCEPT ![KeyOf[r]] = [req |-> r, response |-> None]]
                     ELSE completed
     /\ UNCHANGED <<accepting, closing, consumed, active, latch, tombstones,
                    life, signal, stores, faults, history, unaffected>>

\* register_bound: a command that registers after the shutdown latch is
\* cancelled on the spot.
Register(c) ==
  LET m == CommandOf[req[c]]
  IN /\ pc[c] = "claimed"
     /\ \/ /\ active[m] # None
           /\ Return(c, "AlreadyActive")
           /\ Abandon(c)
           /\ UNCHANGED <<active, tombstones, life, signal>>
        \/ /\ active[m] = None
           /\ Goto(c, "registered")
           /\ active' = [active EXCEPT ![m] = c]
           /\ tombstones' = SelectSeq(tombstones, LAMBDA e : CommandOf[e] # m)
           /\ life' = [life EXCEPT ![c] = IF latch THEN "CancellationRequested" ELSE @]
           /\ signal' = [signal EXCEPT ![c] = latch]
           /\ UNCHANGED completed
     /\ UNCHANGED <<accepting, closing, consumed, latch, stores, faults, history, unaffected>>

\* Validate, Authorize, Admit, Enqueue.  The cleanup guard does not exist yet:
\* a command cancelled since it registered is refused its transition, and
\* stays in the registry.
Enqueue(c) ==
  /\ pc[c] = "registered"
  /\ \/ /\ life[c] = "Received"
        /\ life' = [life EXCEPT ![c] = "Queued"]
        /\ Goto(c, "queued")
        /\ UNCHANGED <<completed, active, tombstones>>
     \/ /\ life[c] \in Cancelled
        /\ Return(c, "WorkerFailed")
        /\ Abandon(c)
        /\ UNCHANGED <<active, tombstones, life>>
  /\ UNCHANGED <<accepting, closing, consumed, latch, signal, stores, faults,
                 history, unaffected>>

\* Mutant: a refused request gets its authorization back.
RefuseAndRelease(c, a) ==
  /\ Return(c, a)
  /\ Abandon(c)
  /\ life' = [life EXCEPT ![c] = "Terminal"]
  /\ active' = [active EXCEPT ![CommandOf[req[c]]] = None]
  /\ tombstones' = Tombstone(c)
  /\ consumed' = consumed \ {req[c]}
  /\ halted' = IF a = "CancelledBeforeExecution" THEN halted \cup {req[c]} ELSE halted
  /\ UNCHANGED <<accepting, closing, latch, signal, stores, faults,
                 effects, outcome, onTheEdge, reconsumed, unaffected>>

\* complete_before_execution, the error, and the guards it drops.
RefuseToRun(c, a) ==
  /\ Return(c, a)
  /\ Abandon(c)
  /\ life' = [life EXCEPT ![c] = "Terminal"]
  /\ active' = [active EXCEPT ![CommandOf[req[c]]] = None]
  /\ tombstones' = Tombstone(c)
  /\ halted' = IF a = "CancelledBeforeExecution" THEN halted \cup {req[c]} ELSE halted
  /\ UNCHANGED <<accepting, closing, consumed, latch, signal, stores, faults,
                 effects, outcome, onTheEdge, reconsumed, unaffected>>

Proceed(c, to) ==
  /\ Goto(c, to)
  /\ UNCHANGED <<memory, life, signal, stores, faults, history, unaffected>>

\* TokioResourceAdmission.acquire: the signal is polled before the slot.
Acquire(c) ==
  /\ pc[c] = "queued"
  /\ \/ signal[c] /\ RefuseToRun(c, "CancelledBeforeExecution")
     \/ ~signal[c] /\ SlotFree(c) /\ Proceed(c, "acquired")

\* The slot stayed taken for two seconds.
ResourceBusy(c) ==
  /\ pc[c] = "queued" /\ ~signal[c] /\ ~SlotFree(c)
  /\ RefuseToRun(c, "ResourceBusy")

TakePermit(c) ==
  /\ pc[c] = "acquired"
  /\ \/ signal[c] /\ RefuseToRun(c, "CancelledBeforeExecution")
     \/ ~signal[c] /\ ~PermitFree /\ RefuseToRun(c, "Backpressure")
     \/ ~signal[c] /\ PermitFree /\ Proceed(c, "permitted")

-----------------------------------------------------------------------------
\* The worker.

\* Mutant: an error keeps the claim.
FailKeepingClaim(c, a) ==
  /\ Return(c, a)
  /\ Unregister(c)
  /\ UNCHANGED <<accepting, closing, consumed, completed, latch, signal, history, unaffected>>

\* An error after the guards exist: all of them are dropped.
Fail(c, a) ==
  /\ Return(c, a)
  /\ Abandon(c)
  /\ Unregister(c)
  /\ UNCHANGED <<accepting, closing, consumed, latch, signal, history, unaffected>>

ReserveAnswer(r) ==
  LET full == Cardinality({k \in Keys : records[k] # None}) >= RecordCapacity
  IN IF records[KeyOf[r]] = None /\ full THEN "DurableRecoveryUnavailable"
     ELSE DurableAnswer(r)

\* The second look at accepting, and the reservation: a durable record that
\* the effect's state is unknown, before the effect.
Reserve(c) ==
  LET r == req[c]
      reserved == [records EXCEPT ![KeyOf[r]] = [req |-> r, terminal |-> "EffectStateUnknown"]]
  IN /\ pc[c] = "permitted"
     /\ \/ ~accepting /\ RefuseToRun(c, "ShuttingDown")
        \/ /\ accepting /\ ReserveAnswer(r) # None
           /\ Fail(c, ReserveAnswer(r))
           /\ UNCHANGED <<stores, faults>>
        \/ /\ accepting /\ ReserveAnswer(r) = None
           /\ Commits(reserved)
           /\ Goto(c, "reserved")
           /\ UNCHANGED <<memory, life, signal, history, unaffected>>
        \/ /\ accepting /\ ReserveAnswer(r) = None
           /\ CommitFails(reserved)
           /\ Fail(c, "DurableRecoveryUnavailable")

\* From here the platform may have been touched.
RunEffect(c) ==
  /\ effects' = [effects EXCEPT ![req[c]] = @ + 1]
  /\ Goto(c, "running")
  /\ UNCHANGED <<memory, signal, stores, faults, outcome, halted, onTheEdge, reconsumed,
                 unaffected>>

\* begin_execution: a command it finds cancelled still runs, with its signal
\* set.  One cancelled between its look at the state and its transition is
\* refused that, and the record goes on saying that the effect's state is
\* unknown.
Start(c) ==
  /\ pc[c] = "reserved"
  /\ \/ /\ life[c] = "Queued"
        /\ RunEffect(c)
        /\ life' = [life EXCEPT ![c] = "Running"]
     \/ life[c] \in Cancelled /\ RunEffect(c) /\ UNCHANGED life
     \/ /\ life[c] \in Cancelled
        /\ Fail(c, "WorkerFailed")
        /\ UNCHANGED <<stores, faults>>

\* The operation neither ends by itself nor sees that it is cancelled.
Hanging(c) ==
  pc[c] = "running" /\ req[c] \notin Budgeted /\ ~(req[c] \in Heeding /\ signal[c])

\* The backend answers; it gives up only when it sees the signal.
Execute(c) ==
  /\ pc[c] = "running"
  /\ \E o \in Responses :
        /\ o = "cancelled" => signal[c] /\ req[c] \in Heeding
        /\ answer' = [answer EXCEPT ![c] = o]
        /\ outcome' = [outcome EXCEPT ![req[c]] = o]
  /\ pc' = [pc EXCEPT ![c] = "executed"]
  /\ UNCHANGED <<memory, life, signal, stores, faults, effects, halted, onTheEdge, reconsumed,
                 unaffected>>

WorkerPanic(c) ==
  /\ pc[c] = "running" /\ faults < MaxFaults
  /\ faults' = faults + 1
  /\ Fail(c, "WorkerFailed")
  /\ UNCHANGED stores

\* DurableReservation.finalize: the response is archived and the record gets
\* its outcome.
Finalize(c) ==
  LET r == req[c]
      final == [records EXCEPT ![KeyOf[r]] = [req |-> r, terminal |-> answer[c]]]
  IN /\ pc[c] = "executed"
     /\ \/ /\ Commits(final)
           /\ Goto(c, "finalized")
           /\ UNCHANGED <<memory, life, signal, history, unaffected>>
        \/ /\ CommitFails(final)
           /\ Fail(c, "DurableRecoveryUnavailable")

\* complete_lifecycle: only a command under cancellation ends as cancelled.
CompleteLifecycle(c) ==
  /\ pc[c] = "finalized"
  /\ IF answer[c] = "cancelled" /\ life[c] \notin Cancelled
     THEN Fail(c, "WorkerFailed")
     ELSE /\ life' = [life EXCEPT ![c] = "Terminal"]
          /\ Goto(c, "ended")
          /\ UNCHANGED <<memory, signal, history, unaffected>>
  /\ UNCHANGED <<stores, faults>>

\* Receipts and the index of terminal commands share one bounded store.
ReceiptsFull ==
  Cardinality({i \in CancelIds : receipts[i] # None})
    + Cardinality({m \in Commands : terminalIndex[m] # None}) >= ReceiptCapacity

\* store_terminal: at the limit the index gives up its oldest entry (any of
\* them here), and fails when it has none.
IndexedWith(r) ==
  LET m == CommandOf[r]
      stored == [terminalIndex EXCEPT ![m] = r]
      others == {n \in Commands \ {m} : terminalIndex[n] # None}
  IN IF terminalIndex[m] # None
     THEN IF terminalIndex[m] = r THEN {terminalIndex} ELSE {}
     ELSE IF ReceiptsFull THEN {[stored EXCEPT ![n] = None] : n \in others}
     ELSE {stored}

\* DurableTerminalCommandRecorder.store.
RecordTerminal(c) ==
  /\ pc[c] = "ended"
  /\ \/ /\ terminalIndex' \in IndexedWith(req[c])
        /\ Goto(c, "recorded")
        /\ UNCHANGED <<memory, life, signal, receipts, cpc, verdict, history, req, now, booted,
                       crashes, faults>>
     \/ /\ IndexedWith(req[c]) = {}
        /\ Fail(c, "DurableRecoveryUnavailable")
        /\ UNCHANGED faults
     \/ /\ IndexedWith(req[c]) # {} /\ faults < MaxFaults
        /\ faults' = faults + 1
        /\ Fail(c, "DurableRecoveryUnavailable")
  /\ UNCHANGED stores

\* CompletedClaimCleanup.complete, and the answer.
Finish(c) ==
  /\ pc[c] = "recorded"
  /\ Return(c, answer[c])
  /\ completed' = [completed EXCEPT ![KeyOf[req[c]]] =
                      [req |-> req[c], response |-> answer[c]]]
  /\ Unregister(c)
  /\ UNCHANGED <<accepting, closing, consumed, latch, signal, stores, faults,
                 history, unaffected>>

CallStep(c) ==
  \/ Consume(c) \/ Replay(c) \/ LookUp(c) \/ Claim(c) \/ Register(c) \/ Enqueue(c)
  \/ Acquire(c) \/ TakePermit(c) \/ Reserve(c) \/ Start(c) \/ Execute(c)
  \/ Finalize(c) \/ CompleteLifecycle(c) \/ RecordTerminal(c) \/ Finish(c)

-----------------------------------------------------------------------------
\* A cancellation: cancel_bound_with_request_id.

Owner(x) == active[CommandOf[TargetOf[x]]]
Bound(x) == Owner(x) # None /\ req[Owner(x)] = TargetOf[x]
TombstoneOf(x) == {e \in ToSet(tombstones) : CommandOf[e] = CommandOf[TargetOf[x]]}

\* A command that is not active: the exact binding reads the tombstones, the
\* older one does not.
Inactive(x) ==
  IF x \notin Exact \/ (Owner(x) = None /\ TombstoneOf(x) = {}) THEN "NotActive"
  ELSE IF Owner(x) = None /\ TombstoneOf(x) = {TargetOf[x]} THEN "AlreadyTerminal"
  ELSE "BindingMismatch"

Probe(x) ==
  IF ~Bound(x) THEN Inactive(x)
  ELSE IF life[Owner(x)] = "CancellationRequested" THEN "Duplicate"
  ELSE IF life[Owner(x)] = "Terminal" THEN "AlreadyTerminal"
  ELSE "Active"

\* Mutant: what was found active is taken to be so still.
AcceptsPrepared(x) ==
  IF Bound(x) /\ life[Owner(x)] \in Cancelled THEN "Duplicate" ELSE "Accepted"

\* The registry's answer to the cancellation itself.
Requested(x) ==
  IF ~Bound(x) THEN Inactive(x)
  ELSE IF life[Owner(x)] \in Cancelled THEN "Duplicate"
  ELSE IF life[Owner(x)] = "Terminal" THEN "AlreadyTerminal"
  ELSE "Accepted"

CGoto(x, to) == cpc' = [cpc EXCEPT ![x] = to] /\ UNCHANGED verdict

Reply(x, v) ==
  /\ cpc' = [cpc EXCEPT ![x] = "done"]
  /\ verdict' = [verdict EXCEPT ![x] = v]

Holding(x, to, v) ==
  /\ cpc' = [cpc EXCEPT ![x] = to]
  /\ verdict' = [verdict EXCEPT ![x] = v]

Put(x, o) ==
  receipts' = [receipts EXCEPT ![IdOf[x]] = [target |-> TargetOf[x], result |-> o]]

aside == <<memory, calls, stores, now, booted, crashes, history>>

\* A receipt of this id answers; so does the index of terminal commands, to an
\* exact cancellation.
LoadReceipt(x) ==
  LET receipt == receipts[IdOf[x]]
      indexed == terminalIndex[CommandOf[TargetOf[x]]]
  IN /\ booted /\ cpc[x] = "new"
     /\ IF receipt # None
        THEN IF receipt.target # TargetOf[x]
             THEN Reply(x, IF x \in Exact THEN "BindingMismatch" ELSE "Rejected")
             ELSE IF receipt.result = "Prepared" THEN CGoto(x, "recovering")
             ELSE Reply(x, receipt.result)
        ELSE IF x \in Exact /\ indexed # None
             THEN Reply(x, IF indexed = TargetOf[x] THEN "AlreadyTerminal"
                           ELSE "BindingMismatch")
             ELSE CGoto(x, "loaded")
     /\ UNCHANGED <<receipts, terminalIndex, faults, aside>>

\* The write that a cancellation needs fails.
ReceiptNotWritten(x, needed) ==
  /\ needed /\ faults < MaxFaults
  /\ faults' = faults + 1
  /\ Reply(x, "DurableUnavailable")
  /\ UNCHANGED receipts

\* recover_cancellation_receipt: a prepared receipt counts as accepted, by
\* whomever it was prepared and whatever became of that.
RecoverReceipt(x) ==
  /\ cpc[x] = "recovering"
  /\ \/ /\ IF receipts[IdOf[x]].result = "Prepared" THEN Put(x, "Accepted")
                                                     ELSE UNCHANGED receipts
        /\ Reply(x, "Accepted")
        /\ UNCHANGED faults
     \/ ReceiptNotWritten(x, receipts[IdOf[x]].result = "Prepared")
  /\ UNCHANGED <<terminalIndex, aside>>

ProbeTarget(x) ==
  /\ cpc[x] = "loaded"
  /\ \/ Probe(x) \in {"NotActive", "BindingMismatch"} /\ Reply(x, Probe(x))
     \/ Probe(x) \in {"Duplicate", "AlreadyTerminal"} /\ Holding(x, "storing", Probe(x))
     \/ Probe(x) = "Active" /\ CGoto(x, "probed")
  /\ UNCHANGED <<receipts, terminalIndex, faults, aside>>

\* begin: the durable Prepared comes before the signal.
Prepare(x) ==
  LET receipt == receipts[IdOf[x]]
  IN /\ cpc[x] = "probed"
     /\ \/ /\ receipt = None /\ ~ReceiptsFull
           /\ Put(x, "Prepared")
           /\ CGoto(x, "prepared")
           /\ UNCHANGED faults
        \/ ReceiptNotWritten(x, receipt = None /\ ~ReceiptsFull)
        \/ /\ receipt # None \/ ReceiptsFull
           /\ Reply(x, IF receipt = None THEN "DurableUnavailable"
                       ELSE IF receipt.target # TargetOf[x] THEN "Rejected"
                       ELSE IF receipt.result = "Prepared" THEN "Accepted"
                       ELSE receipt.result)
           /\ UNCHANGED <<receipts, faults>>
     /\ UNCHANGED <<terminalIndex, aside>>

\* request_active_cancellation: the lifecycle and the signal move together.
Cancel(x) ==
  LET v == Requested(x)
      own == CommandOf[TargetOf[x]]
  IN /\ cpc[x] = "prepared"
     /\ IF v \in {"NotActive", "BindingMismatch"}
        THEN Reply(x, IF v = "NotActive" THEN "Rejected" ELSE v)
        ELSE Holding(x, "finalizing", v)
     /\ IF v = "Accepted"
        THEN /\ life' = [life EXCEPT ![active[own]] = "CancellationRequested"]
             /\ signal' = [signal EXCEPT ![active[own]] = TRUE]
        ELSE UNCHANGED <<life, signal>>
     /\ UNCHANGED <<receipts, terminalIndex, memory, req, pc, answer, stores,
                    environment, history>>

\* finalize: an already final receipt keeps its result.
FinalizeReceipt(x) ==
  /\ cpc[x] = "finalizing"
  /\ \/ /\ IF receipts[IdOf[x]].result = "Prepared" THEN Put(x, verdict[x])
                                                     ELSE UNCHANGED receipts
        /\ Reply(x, verdict[x])
        /\ UNCHANGED faults
     \/ ReceiptNotWritten(x, receipts[IdOf[x]].result = "Prepared")
  /\ UNCHANGED <<terminalIndex, aside>>

\* store_terminal of a cancellation that found nothing to do.
StoreReceipt(x) ==
  LET receipt == receipts[IdOf[x]]
      free == receipt = None /\ ~ReceiptsFull
      same == receipt = [target |-> TargetOf[x], result |-> verdict[x]]
  IN /\ cpc[x] = "storing"
     /\ \/ /\ Reply(x, IF free \/ same THEN verdict[x] ELSE "DurableUnavailable")
           /\ IF free THEN Put(x, verdict[x]) ELSE UNCHANGED receipts
           /\ UNCHANGED faults
        \/ ReceiptNotWritten(x, free)
     /\ UNCHANGED <<terminalIndex, aside>>

CancelStep(x) ==
  \/ RecoverReceipt(x) \/ ProbeTarget(x) \/ Prepare(x) \/ Cancel(x)
  \/ FinalizeReceipt(x) \/ StoreReceipt(x)

-----------------------------------------------------------------------------
\* Shutdown, crash, restart and the clock.

StopAccepting ==
  /\ booted /\ closing = "no"
  /\ accepting' = FALSE /\ closing' = "closed"
  /\ UNCHANGED <<consumed, completed, active, latch, tombstones, calls, cancelling,
                 stores, environment, history>>

\* request_runtime_shutdown: the latch, and a signal to every active command.
LatchShutdown ==
  LET owners == {c \in Calls : /\ \E m \in Commands : active[m] = c
                               /\ life[c] \notin Cancelled \cup {"Terminal"}}
  IN /\ closing = "closed"
     /\ latch' = TRUE /\ closing' = "draining"
     /\ life' = [c \in Calls |-> IF c \in owners THEN "CancellationRequested" ELSE life[c]]
     /\ signal' = [c \in Calls |-> signal[c] \/ c \in owners]
     /\ UNCHANGED <<accepting, consumed, completed, active, tombstones, req, pc, answer,
                    cancelling, stores, environment, history>>

\* Mutant: shutdown waits for the registry to empty instead.
DrainedRegistry ==
  /\ closing = "draining"
  /\ \A m \in Commands : active[m] = None
  /\ closing' = "done"
  /\ UNCHANGED <<accepting, consumed, completed, active, latch, tombstones, calls,
                 cancelling, stores, environment, history>>

\* acquire_many_owned got every permit, and gives them back.
Drained ==
  /\ closing = "draining"
  /\ \A c \in Calls : pc[c] \notin WithPermit
  /\ closing' = "done"
  /\ UNCHANGED <<accepting, consumed, completed, active, latch, tombstones, calls,
                 cancelling, stores, environment, history>>

\* Everything in memory is gone, and so is whoever was being served.  A
\* cancellation under way is delivered again.
Crash ==
  /\ booted /\ crashes < MaxCrashes
  /\ booted' = FALSE /\ crashes' = crashes + 1
  /\ accepting' = TRUE /\ closing' = "no" /\ latch' = FALSE
  /\ consumed' = {} /\ completed' = [k \in Keys |-> None]
  /\ active' = [m \in Commands |-> None] /\ tombstones' = <<>>
  /\ pc' = [c \in Calls |-> IF pc[c] \in InCall THEN "lost" ELSE pc[c]]
  /\ answer' = [c \in Calls |-> IF pc[c] \in InCall THEN None ELSE answer[c]]
  /\ life' = [c \in Calls |-> "Received"] /\ signal' = [c \in Calls |-> FALSE]
  /\ cpc' = [x \in Cancels |-> IF cpc[x] = "done" THEN "done" ELSE "new"]
  /\ verdict' = [x \in Cancels |-> IF cpc[x] = "done" THEN verdict[x] ELSE None]
  /\ halted' = {} /\ reconsumed' = {}
  /\ UNCHANGED <<req, receipts, terminalIndex, stores, now, faults, effects, outcome, onTheEdge>>

\* What LinkedDurableRetention.prune may remove; the policy decides which.
Prunable ==
  {k \in Keys : /\ disk[k] # None
                /\ disk[k].terminal # "EffectStateUnknown"
                /\ ExpiresAt[disk[k].req] <= now}

\* bootstrap reads the file; retention runs before the runtime shares it.
Boot ==
  /\ ~booted
  /\ booted' = TRUE
  /\ \E gone \in SUBSET Prunable :
        /\ disk' = [k \in Keys |-> IF k \in gone THEN None ELSE disk[k]]
        /\ records' = disk'
        /\ onTheEdge' = onTheEdge \cup
             {disk[k].req : k \in {g \in gone : ExpiresAt[disk[g].req] = now}}
  /\ UNCHANGED <<memory, calls, cancelling, now, crashes, faults, effects, outcome, halted,
                 reconsumed>>

Tick ==
  /\ now < MaxNow
  /\ now' = now + 1
  /\ UNCHANGED <<memory, calls, cancelling, stores, booted, crashes, faults, history>>

Next ==
  \/ \E c \in Calls : Submit(c) \/ CallStep(c) \/ ResourceBusy(c) \/ WorkerPanic(c)
  \/ \E x \in Cancels : LoadReceipt(x) \/ CancelStep(x)
  \/ StopAccepting \/ LatchShutdown \/ Drained
  \/ Crash \/ Boot \/ Tick

Spec == Init /\ [][Next]_vars

\* The runtime polls every ready task, and a slot is waited for two seconds at
\* most.  An operation ends by itself if it has a time limit, and soon after its
\* signal if it heeds it; nothing is assumed of the others.  Nothing obliges
\* anyone to deliver, to cancel, to stop the node or to start it again.
Fairness ==
  /\ \A c \in Calls : WF_pc(/\ pc[c] \in InCall /\ ~Hanging(c)
                            /\ CallStep(c) \/ ResourceBusy(c))
  /\ WF_closing(LatchShutdown \/ Drained)

FairSpec == Spec /\ Fairness

-----------------------------------------------------------------------------
\* Properties.

\* However often a request is delivered, replayed or retried, before and after
\* crashes, failed writes and retention, its effect starts at most once.  The
\* exception is retention at the very instant of expiry: prune drops a record
\* at expires_at <= now while the verifier still accepts it until
\* now > expires_at.
EffectOnce == \A r \in Requests : effects[r] <= 1 \/ r \in onTheEdge

\* A response, whether fresh, cached in memory or recovered from the durable
\* record after a restart, is how the effect of that request ended.
ResponsesAreTrue ==
  \A c \in Calls :
    pc[c] = "done" /\ answer[c] \in Responses =>
      answer[c] = outcome[req[c]] \/ req[c] \in onTheEdge

\* A claim without a response belongs to a call that is still under way: no
\* early return, failed write or panic leaves a key in progress for ever.
ClaimHasOwner ==
  \A k \in Keys :
    completed[k] # None /\ completed[k].response = None =>
      \E c \in Calls : req[c] = completed[k].req /\ pc[c] \in Claiming

\* Once a call was answered as cancelled before execution, this process never
\* starts the effect of its request, whatever is delivered again.  The exception
\* is a second delivery that is checked before the authorization expires and
\* consumes it after: the guard drops what it knew of the request first.
CancelledNeverStarts ==
  [][\A r \in halted \ reconsumed : r \in halted' => effects'[r] = effects[r]]_vars

\* A cancellation answered as accepted has set the signal of a call that
\* delivers its target: the durable Prepared between the probe and the request
\* does not let one through that came too late.  A restart, or a second
\* delivery of the same id, answers from the receipt alone.
AcceptedIsHeard ==
  \A x \in Cancels :
    /\ cpc[x] = "done" /\ verdict[x] = "Accepted" /\ crashes = 0
    /\ \A y \in Cancels \ {x} : IdOf[y] # IdOf[x]
    => \E c \in Calls : req[c] = TargetOf[x] /\ signal[c]

\* When shutdown has drained the permits and given them back, no worker is
\* between its reservation and its answer, and none starts.
QuietAfterShutdown ==
  closing = "done" =>
    \A c \in Calls : pc[c] \notin {"reserved", "running", "executed", "finalized",
                                 "ended", "recorded"}

\* A shutdown that began drains, unless the node crashes first or some worker
\* runs an operation that has no time limit and heeds no signal: a command
\* without a limit does not hold it up.
ShutdownDrains ==
  closing = "closed" ~>
    \/ closing = "done" \/ ~booted
    \/ \E c \in Calls : pc[c] = "running" /\ req[c] \notin Budgeted \cup Heeding

\* Every delivery that got in is answered, or lost with the process, unless its
\* own operation hangs: that of another call holds nobody up.
CallsAnswered ==
  \A c \in Calls : pc[c] \in InCall ~> pc[c] \in {"done", "lost"} \/ Hanging(c)

\* The cleanup guard takes a command out of the registry when its call has ended.
EntryHasOwner ==
  \A m \in Commands : active[m] # None => pc[active[m]] \in Claiming
=============================================================================
