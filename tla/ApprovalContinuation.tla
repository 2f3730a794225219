------------------------ MODULE ApprovalContinuation ------------------------
(***************************************************************************)
(* The approval of a tool call and the durable continuation of the call     *)
(* once it is approved.                                                     *)
(*                                                                         *)
(* A dispatch that needs approval writes a row of approval_registry and     *)
(* waits.  The waiter lives in two in-memory maps keyed by the run; the     *)
(* decision lives in the database.  A decision that allows the call         *)
(* consumes the row and, when the call is bound to a prepared operation,    *)
(* enqueues a continuation in the same transaction.  The dispatch that      *)
(* waits, if the maps still lead to it, claims that continuation and runs   *)
(* the tool; otherwise the recovery supervisor is woken and its single      *)
(* runner claims continuations, oldest first, under a lease.                *)
(*                                                                         *)
(* Everything between two awaits is one step.  The clock is the two sets of *)
(* moments that matter: a row past its expiry (late) and a claim past its   *)
(* lease (lapsed).                                                          *)
(***************************************************************************)
EXTENDS Integers, FiniteSets

CONSTANTS
  Dispatches,    \* tool calls; the row a call asks for carries its name
  NoDispatch,
  Runs,
  RunOf,         \* the run a dispatch belongs to
  Assignments,   \* what may be known of the calls before they ask
  MaxLapses,     \* bound: leases that lapse on one continuation
  MaxOutages     \* bound: crashes, shutdowns and runs that end under a waiting dispatch

ASSUME ConstantsAssumption ==
  /\ IsFiniteSet(Dispatches)
  /\ RunOf \in [Dispatches -> Runs]
  /\ NoDispatch \notin Dispatches
  /\ MaxLapses \in Nat
  /\ MaxOutages \in Nat
  /\ \A f \in Assignments : \A d \in Dispatches :
       /\ f[d].bound \in BOOLEAN      \* bound to a prepared operation
       /\ f[d].timed \in BOOLEAN      \* an approval: 60 s; a screen confirmation has no limit
       /\ f[d].delivery \in BOOLEAN   \* an artifact delivery
       /\ f[d].delivery => f[d].bound

VARIABLES
  kind,          \* the kind of every dispatch; fixed for a run of the system
  status,        \* approval_registry.status
  decision,      \* approvalDecision in the row's metadata
  late,          \* rows past expires_at
  cont,          \* approved_operation_continuations
  pc,            \* where a dispatch is
  grant,         \* the approval a dispatch was granted
  carries,       \* dispatches whose grant names a continuation
  waiter,        \* pendingInteractionKinds
  callback,      \* pendingInteractionGrants
  owned,         \* requests the canonical work aggregate took over
  cancelled,     \* runs that were cancelled
  requested,     \* the supervisor's pending wake
  stopped,       \* the supervisor was stopped
  runner,        \* where the supervisor's runner is
  inHand,        \* the continuation it holds
  passFailed,    \* onError: the last pass threw
  up,            \* the gateway process is running
  outages,
  invocations,   \* tool invocations made on an approval
  lapses,        \* leases that lapsed on a continuation
  displaced,     \* waiters that another dispatch, or the run's end, removed from the maps
  announced      \* continuations whose enqueueing was published

registry == <<status, decision, late>>
queue == <<cont, lapses>>
dispatch == <<pc, grant, carries>>
waiters == <<waiter, callback, displaced>>
supervisor == <<requested, stopped, runner, inHand, passFailed>>
process == <<up, outages>>
vars == <<kind, registry, queue, dispatch, waiters, owned, cancelled,
          supervisor, process, invocations, announced>>

-----------------------------------------------------------------------------
\* The registry of approvals.

Approved == {"approved_once", "approved_run"}
Allowing == {"allow_once", "allow_run"}

ApprovedAs(dec) == IF dec = "allow_run" THEN "approved_run" ELSE "approved_once"

SameScope(a, d) ==
  /\ RunOf[a] = RunOf[d]
  /\ <<kind[a].tool, kind[a].params, kind[a].bound>> = <<kind[d].tool, kind[d].params, kind[d].bound>>

ReusableOnceSpent(d) ==
  {a \in Dispatches : SameScope(a, d) /\ a \notin late /\ status[a] \in Approved \union {"consumed"}}

\* Rows a new request may use instead of asking: approved and not spent, or
\* spent by a decision for the whole run, and in either case not expired.
Reusable(d) ==
  {a \in Dispatches :
     /\ SameScope(a, d)
     /\ a \notin late
     /\ status[a] \in Approved \/ (status[a] = "consumed" /\ decision[a] = "allow_run")}

Superseded(a, d) ==
  a # d /\ RunOf[a] = RunOf[d] /\ kind[a].tool = kind[d].tool /\ status[a] = "requested"

ExpiredUnguarded(s) == "expired"

\* The status a row has after its timeout fired.
Expired(s) == IF s = "requested" THEN "expired" ELSE s

\* The status the row of an aborted waiter is left with.
Dismissed(a) ==
  IF status[a] # "requested" THEN status[a]
  ELSE IF a \in late THEN "expired" ELSE "denied"

DismissedDecision(a) ==
  IF status[a] = "requested" /\ a \notin late THEN "deny" ELSE decision[a]

-----------------------------------------------------------------------------
\* The queue of continuations.

Terminal == {"completed", "failed", "cancelled"}

NoContinuation == [status |-> "none", owner |-> "none", lapsed |-> FALSE, createdAt |-> 0]
Enqueued ==
  [status |-> "pending", owner |-> "none", lapsed |-> FALSE,
   createdAt |-> 1 + Cardinality({a \in Dispatches : cont[a].status # "none"})]

ClaimableByAnyone(row) == row.status \in {"pending", "claimed"}

Claimable(row) ==
  \/ row.status = "pending"
  \/ row.status = "claimed" /\ row.lapsed

Claimed(row, owner) == [row EXCEPT !.status = "claimed", !.owner = owner, !.lapsed = FALSE]

SettledByAnyone(row, owner, outcome) == [row EXCEPT !.status = outcome, !.lapsed = FALSE]

\* complete, fail and cancel: refused unless the claim is still the caller's.
Settled(row, owner, outcome) ==
  IF row.status = "claimed" /\ row.owner = owner
  THEN [row EXCEPT !.status = outcome, !.lapsed = FALSE]
  ELSE row

\* The identities of a recovery pass and of a process are not used again.
Disowned(c, owners) == [a \in Dispatches |-> IF c[a].owner \in owners THEN [c[a] EXCEPT !.owner = "gone"] ELSE c[a]]

-----------------------------------------------------------------------------
\* The initial state: an empty database and a gateway that has just started.

Init ==
  /\ kind \in Assignments
  /\ status = [a \in Dispatches |-> "none"]
  /\ decision = [a \in Dispatches |-> "none"]
  /\ late = {}
  /\ cont = [a \in Dispatches |-> NoContinuation]
  /\ pc = [d \in Dispatches |-> "idle"]
  /\ grant = [d \in Dispatches |-> NoDispatch]
  /\ carries = {}
  /\ waiter = [r \in Runs |-> NoDispatch]
  /\ callback = [r \in Runs |-> NoDispatch]
  /\ owned = {}
  /\ cancelled = {}
  /\ requested = FALSE
  /\ stopped = FALSE
  /\ runner = "summary"
  /\ inHand = NoDispatch
  /\ passFailed = FALSE
  /\ up = TRUE
  /\ outages = 0
  /\ invocations = [a \in Dispatches |-> 0]
  /\ lapses = [a \in Dispatches |-> 0]
  /\ displaced = {}
  /\ announced = {}

-----------------------------------------------------------------------------
\* Helpers of the steps.

Waiting(r) == {d \in Dispatches : RunOf[d] = r /\ pc[d] = "waiting"}

ForgetWaiter(r) ==
  /\ waiter' = [waiter EXCEPT ![r] = NoDispatch]
  /\ callback' = [callback EXCEPT ![r] = NoDispatch]

\* Waiters of a run that lose their place in the maps to dispatch d.
Displacing(r, d) == {e \in {callback[r]} : e \in Waiting(r) /\ e # d}

\* finishApproval with a denial cancels the run, unless the interaction now in
\* the map belongs to the canonical aggregate; cancelling aborts every waiter.
Cancels(r) == waiter[r] \notin owned /\ r \notin cancelled

\* The runner's loop over claimNext, run without an await up to the adapter it
\* calls or to the end of the pass; c is the queue it finds.
Drain(c, halted) ==
  LET ready == {a \in Dispatches : Claimable(c[a])}
      oldest == {a \in ready : \A b \in ready : c[a].createdAt <= c[b].createdAt}
  IN IF halted \/ ready = {}
     THEN cont' = c /\ runner' = "summary" /\ inHand' = NoDispatch
     ELSE \E a \in oldest :
            /\ cont' = [c EXCEPT ![a] = Claimed(c[a], "recovery")]
            /\ runner' = "holding"
            /\ inHand' = a

WakeIfIdle(c) ==
  IF runner = "none" /\ ~stopped
  THEN requested' = FALSE /\ Drain(c, FALSE)
  ELSE cont' = c /\ UNCHANGED <<requested, runner, inHand>>

\* wake(): a runner that is under way notices the request when it ends a pass.
Wake(c) ==
  IF runner = "none" /\ ~stopped
  THEN requested' = FALSE /\ Drain(c, FALSE)
  ELSE /\ requested' = ~stopped
       /\ cont' = c
       /\ UNCHANGED <<runner, inHand>>

\* The loop of the runner and its finally handler test the same condition.
ContinueOr(c, there) ==
  /\ requested' = FALSE
  /\ IF requested /\ ~stopped
     THEN Drain(c, FALSE)
     ELSE cont' = c /\ runner' = there /\ inHand' = NoDispatch

-----------------------------------------------------------------------------
\* A dispatch asks for approval.

\* An earlier decision covers the call: no continuation is attached.
Reuse(d, a) ==
  /\ up
  /\ pc[d] = "idle"
  /\ a \in Reusable(d)
  /\ status' = [status EXCEPT ![a] = "consumed"]
  /\ pc' = [pc EXCEPT ![d] = "granted"]
  /\ grant' = [grant EXCEPT ![d] = a]
  /\ UNCHANGED <<kind, decision, late, queue, carries, waiters, owned,
                 cancelled, supervisor, process, invocations, announced>>

\* A new row replaces the requests of the same run and tool that are still open.
Ask(d) ==
  /\ up
  /\ pc[d] = "idle"
  /\ Reusable(d) = {}
  /\ status' = [a \in Dispatches |-> IF a = d THEN "requested"
                                    ELSE IF Superseded(a, d) THEN "superseded" ELSE status[a]]
  /\ pc' = [pc EXCEPT ![d] = "waiting"]
  /\ waiter' = [waiter EXCEPT ![RunOf[d]] = d]
  /\ callback' = [callback EXCEPT ![RunOf[d]] = d]
  /\ displaced' = displaced \union Displacing(RunOf[d], d)
  /\ \/ owned' = owned
     \/ kind[d].bound /\ owned' = owned \union {d}
  /\ UNCHANGED <<kind, decision, late, queue, grant, carries, cancelled,
                 supervisor, process, invocations, announced>>

\* The canonical aggregate refuses the request: the row is expired at once.
AskRefused(d) ==
  /\ up
  /\ pc[d] = "idle"
  /\ Reusable(d) = {}
  /\ kind[d].bound
  /\ status' = [a \in Dispatches |-> IF a = d THEN "expired"
                                    ELSE IF Superseded(a, d) THEN "superseded" ELSE status[a]]
  /\ pc' = [pc EXCEPT ![d] = "denied"]
  /\ UNCHANGED <<kind, decision, late, queue, grant, carries, waiters, owned,
                 cancelled, supervisor, process, invocations, announced>>

\* The application grants a call in advance, without anyone waiting for it; the
\* row has no binding and no expiry.
GrantInAdvance(d, dec) ==
  /\ up
  /\ pc[d] = "idle"
  /\ ~kind[d].bound
  /\ status' = [status EXCEPT ![d] = ApprovedAs(dec)]
  /\ decision' = [decision EXCEPT ![d] = dec]
  /\ pc' = [pc EXCEPT ![d] = "recorded"]
  /\ UNCHANGED <<kind, late, queue, grant, carries, waiters, owned, cancelled,
                 supervisor, process, invocations, announced>>

-----------------------------------------------------------------------------
\* A decision reaches the gateway.  A decision on a row that is not requested,
\* or that is late, is rolled back and changes nothing.

OpenUntilExpiry(a) == up /\ status[a] # "none" /\ a \notin late

Open(a) == up /\ status[a] = "requested" /\ a \notin late

LiveWaiter(a) == waiter[RunOf[a]] = a /\ callback[RunOf[a]] # NoDispatch

Allow(a, dec) ==
  /\ Open(a)
  /\ status' = [status EXCEPT ![a] = "consumed"]
  /\ decision' = [decision EXCEPT ![a] = dec]
  /\ IF LiveWaiter(a)
     THEN LET w == callback[RunOf[a]] IN
          /\ cont' = IF kind[a].bound THEN [cont EXCEPT ![a] = Enqueued] ELSE cont
          /\ ForgetWaiter(RunOf[a])
          /\ pc' = [pc EXCEPT ![w] = IF @ = "waiting" THEN "granted" ELSE @]
          /\ grant' = [grant EXCEPT ![w] = IF pc[w] = "waiting" THEN a ELSE @]
          /\ carries' = IF pc[w] = "waiting" /\ kind[a].bound THEN carries \union {w} ELSE carries
          /\ UNCHANGED <<requested, runner, inHand, announced>>
     ELSE /\ IF kind[a].bound
             THEN Wake([cont EXCEPT ![a] = Enqueued]) /\ announced' = announced \union {a}
             ELSE UNCHANGED <<cont, requested, runner, inHand, announced>>
          /\ UNCHANGED <<waiter, callback, dispatch>>
  /\ UNCHANGED <<kind, late, lapses, displaced, owned, cancelled, stopped,
                 passFailed, process, invocations>>

Deny(a) ==
  /\ Open(a)
  /\ LET r == RunOf[a]
         told == IF ~LiveWaiter(a) THEN {}
                 ELSE IF Cancels(r) THEN Waiting(r) ELSE {callback[r]} \intersect Waiting(r)
     IN
     /\ status' = [b \in Dispatches |-> IF b = a THEN "denied"
                                       ELSE IF b \in told THEN Dismissed(b) ELSE status[b]]
     /\ decision' = [b \in Dispatches |-> IF b \in told \union {a} THEN DismissedDecision(b) ELSE decision[b]]
     /\ pc' = [d \in Dispatches |-> IF d \in told THEN "denied" ELSE pc[d]]
     /\ IF LiveWaiter(a)
        THEN /\ ForgetWaiter(r)
             /\ cancelled' = IF Cancels(r) THEN cancelled \union {r} ELSE cancelled
        ELSE UNCHANGED <<waiter, callback, cancelled>>
  /\ UNCHANGED <<kind, late, queue, grant, carries, displaced, owned,
                 supervisor, process, invocations, announced>>

\* The channel API falls back to the registry when the decision command was
\* rejected: the row is late, or the canonical aggregate refused the decision.
DecideInRegistry(a, dec) ==
  /\ up
  /\ status[a] = "requested"
  /\ a \in late \/ kind[a].bound
  /\ status' = [status EXCEPT ![a] = IF a \in late THEN "expired"
                                     ELSE IF dec = "deny" THEN "denied" ELSE ApprovedAs(dec)]
  /\ decision' = [decision EXCEPT ![a] = IF a \in late THEN @ ELSE dec]
  /\ UNCHANGED <<kind, late, queue, dispatch, waiters, owned, cancelled,
                 supervisor, process, invocations, announced>>

-----------------------------------------------------------------------------
\* A wait ends without a decision.

MayTimeOutIfRegistered(d) == pc[d] = "waiting" /\ kind[d].timed /\ d \in late /\ callback[RunOf[d]] = d

MayTimeOut(d) == pc[d] = "waiting" /\ kind[d].timed /\ d \in late
\* The timer removes whatever waiter the maps hold for the run.
Timeout(d) ==
  /\ up
  /\ MayTimeOut(d)
  /\ LET r == RunOf[d]
         told == {d} \union (IF Cancels(r) THEN Waiting(r) ELSE {})
     IN
     /\ status' = [a \in Dispatches |-> IF a = d THEN Expired(status[a])
                                       ELSE IF a \in told THEN Dismissed(a) ELSE status[a]]
     /\ decision' = [a \in Dispatches |-> IF a \in told \ {d} THEN DismissedDecision(a) ELSE decision[a]]
     /\ pc' = [e \in Dispatches |-> IF e \in told THEN "denied" ELSE pc[e]]
     /\ ForgetWaiter(r)
     /\ displaced' = displaced \union (Displacing(r, d) \ told)
     /\ cancelled' = IF Cancels(r) THEN cancelled \union {r} ELSE cancelled
  /\ UNCHANGED <<kind, late, queue, grant, carries, owned, supervisor,
                 process, invocations, announced>>

\* The run is cancelled from outside.
Abort(r) ==
  /\ up
  /\ r \notin cancelled
  /\ status' = [a \in Dispatches |-> IF a \in Waiting(r) THEN Dismissed(a) ELSE status[a]]
  /\ decision' = [a \in Dispatches |-> IF a \in Waiting(r) THEN DismissedDecision(a) ELSE decision[a]]
  /\ pc' = [d \in Dispatches |-> IF d \in Waiting(r) THEN "denied" ELSE pc[d]]
  /\ IF Waiting(r) # {} THEN ForgetWaiter(r) ELSE UNCHANGED <<waiter, callback>>
  /\ cancelled' = cancelled \union {r}
  /\ UNCHANGED <<kind, late, queue, grant, carries, displaced, owned,
                 supervisor, process, invocations, announced>>

\* The run completes or fails while a dispatch still waits: its entries leave the
\* maps, and the waiter is not told.  The event may come more than once, a status
\* being set to itself.
RunEnds(r) ==
  /\ up
  /\ waiter[r] # NoDispatch
  /\ outages < MaxOutages
  /\ outages' = outages + 1
  /\ ForgetWaiter(r)
  /\ displaced' = displaced \union Displacing(r, NoDispatch)
  /\ UNCHANGED <<kind, registry, queue, dispatch, owned, cancelled, supervisor,
                 up, invocations, announced>>

-----------------------------------------------------------------------------
\* A dispatch that was granted runs its tool.

\* Policy or the rate limit refuses the call after it was approved.
PolicyDenies(d) ==
  /\ up
  /\ pc[d] = "granted"
  /\ pc' = [pc EXCEPT ![d] = "refused"]
  /\ UNCHANGED <<kind, registry, queue, grant, carries, waiters, owned, cancelled,
                 supervisor, process, invocations, announced>>

\* Only a grant that names a continuation is claimed, and deliveries never are.
Claims(d) == d \in carries /\ ~kind[d].delivery

Execute(d) ==
  /\ up
  /\ pc[d] = "granted"
  /\ Claims(d) => Claimable(cont[grant[d]])
  /\ cont' = IF Claims(d) THEN [cont EXCEPT ![grant[d]] = Claimed(@, "dispatcher")] ELSE cont
  /\ invocations' = [invocations EXCEPT ![grant[d]] = @ + 1]
  /\ pc' = [pc EXCEPT ![d] = "executing"]
  /\ UNCHANGED <<kind, registry, lapses, grant, carries, waiters, owned, cancelled,
                 supervisor, process, announced>>

ClaimRejected(d) ==
  /\ up
  /\ pc[d] = "granted"
  /\ Claims(d) /\ ~Claimable(cont[grant[d]])
  /\ pc' = [pc EXCEPT ![d] = "refused"]
  /\ UNCHANGED <<kind, registry, queue, grant, carries, waiters, owned, cancelled,
                 supervisor, process, invocations, announced>>

\* The finally block settles the claim whatever the tool did.
Return(d) ==
  /\ up
  /\ pc[d] = "executing"
  /\ pc' = [pc EXCEPT ![d] = "done"]
  /\ cont' = IF Claims(d) THEN [cont EXCEPT ![grant[d]] = Settled(@, "dispatcher", "completed")] ELSE cont
  /\ UNCHANGED <<kind, registry, lapses, grant, carries, waiters, owned, cancelled,
                 supervisor, process, invocations, announced>>

-----------------------------------------------------------------------------
\* The runner of the recovery supervisor.

Settles(outcome) ==
  Drain([cont EXCEPT ![inHand] = Settled(@, "recovery", outcome)], stopped)

\* No adapter, no run, no rehydratable binding, or a policy that denies.
AdapterBlocks ==
  /\ up /\ runner = "holding"
  /\ Settles("failed") \/ (stopped /\ Settles("cancelled"))
  /\ UNCHANGED <<kind, registry, lapses, dispatch, waiters, owned, cancelled,
                 requested, stopped, passFailed, process, invocations, announced>>

AdapterInvokes ==
  /\ up /\ runner = "holding" /\ ~stopped
  /\ runner' = "executing"
  /\ invocations' = [invocations EXCEPT ![inHand] = @ + 1]
  /\ UNCHANGED <<kind, registry, queue, dispatch, waiters, owned, cancelled,
                 requested, stopped, inHand, passFailed, process, announced>>

AdapterReturns ==
  /\ up /\ runner = "executing"
  /\ \/ Settles("failed")
     \/ stopped /\ Settles("cancelled")
     \/ runner' = "handoff" /\ UNCHANGED <<cont, inHand>>
  /\ UNCHANGED <<kind, registry, lapses, dispatch, waiters, owned, cancelled,
                 requested, stopped, passFailed, process, invocations, announced>>

HandOff ==
  /\ up /\ runner = "handoff"
  /\ Settles("completed") \/ Settles("failed")
  /\ UNCHANGED <<kind, registry, lapses, dispatch, waiters, owned, cancelled,
                 requested, stopped, passFailed, process, invocations, announced>>

\* An exception leaves the claim to lapse; the next pass has another identity.
PassThrows ==
  /\ up /\ runner \in {"holding", "executing", "handoff"}
  /\ ContinueOr(Disowned(cont, {"recovery"}), "exiting")
  /\ passFailed' = TRUE
  /\ UNCHANGED <<kind, registry, lapses, dispatch, waiters, owned, cancelled,
                 stopped, process, invocations, announced>>

\* The summary was handled: completed runs are re-entered by the channel runtime.
PassEnds ==
  /\ up /\ runner = "summary"
  /\ ContinueOr(cont, "exiting")
  /\ passFailed' = FALSE
  /\ UNCHANGED <<kind, registry, lapses, dispatch, waiters, owned, cancelled,
                 stopped, process, invocations, announced>>

\* running.finally: the loop has ended but wake() still sees a runner.
RunnerExits ==
  /\ up /\ runner = "exiting"
  /\ ContinueOr(cont, "none")
  /\ UNCHANGED <<kind, registry, lapses, dispatch, waiters, owned, cancelled,
                 stopped, passFailed, process, invocations, announced>>

-----------------------------------------------------------------------------
\* Time, shutdown, crash and restart.

\* Passing the expiry of a row that nothing reads any more is left out.
ExpiryPasses(a) ==
  /\ kind[a].timed /\ pc[a] # "recorded" /\ a \notin late
  /\ \/ status[a] = "requested" \/ pc[a] = "waiting"
     \/ \E d \in Dispatches : pc[d] = "idle" /\ a \in Reusable(d)
  /\ late' = late \union {a}
  /\ UNCHANGED <<kind, status, decision, queue, dispatch, waiters, owned, cancelled,
                 supervisor, process, invocations, announced>>

LeaseLapses(a) ==
  /\ cont[a].status = "claimed" /\ ~cont[a].lapsed
  /\ lapses[a] < MaxLapses
  /\ cont' = [cont EXCEPT ![a].lapsed = TRUE]
  /\ lapses' = [lapses EXCEPT ![a] = @ + 1]
  /\ UNCHANGED <<kind, registry, dispatch, waiters, owned, cancelled,
                 supervisor, process, invocations, announced>>

Stop ==
  /\ up /\ ~stopped
  /\ outages < MaxOutages
  /\ stopped' = TRUE
  /\ requested' = FALSE
  /\ outages' = outages + 1
  /\ UNCHANGED <<kind, registry, queue, dispatch, waiters, owned, cancelled,
                 runner, inHand, passFailed, up, invocations, announced>>

\* The process goes and takes everything that was in memory with it.
ProcessEnds ==
  /\ up' = FALSE
  /\ pc' = [d \in Dispatches |-> IF pc[d] \in {"waiting", "granted", "executing"} THEN "lost" ELSE pc[d]]
  /\ waiter' = [r \in Runs |-> NoDispatch]
  /\ callback' = [r \in Runs |-> NoDispatch]
  /\ cont' = Disowned(cont, {"dispatcher", "recovery"})
  /\ runner' = "none"
  /\ inHand' = NoDispatch
  /\ requested' = FALSE
  /\ UNCHANGED <<kind, registry, lapses, grant, carries, displaced, owned,
                 cancelled, stopped, passFailed, invocations, announced>>

Crash ==
  /\ up
  /\ outages < MaxOutages
  /\ outages' = outages + 1
  /\ ProcessEnds

Shutdown ==
  /\ up /\ stopped /\ runner = "none"
  /\ outages' = outages
  /\ ProcessEnds

RestartUnwoken ==
  /\ ~up
  /\ up' = TRUE
  /\ stopped' = FALSE
  /\ UNCHANGED <<kind, registry, queue, dispatch, waiters, owned, cancelled, requested,
                 runner, inHand, passFailed, outages, invocations, announced>>

\* Bootstrap creates a supervisor and wakes it.
Restart ==
  /\ ~up
  /\ up' = TRUE
  /\ stopped' = FALSE
  /\ Drain(cont, FALSE)
  /\ UNCHANGED <<kind, registry, lapses, dispatch, waiters, owned, cancelled,
                 requested, passFailed, outages, invocations, announced>>

-----------------------------------------------------------------------------

RequestStep(d) == Ask(d) \/ AskRefused(d) \/ \E a \in Dispatches : Reuse(d, a)

DecisionStep(a) ==
  \/ Deny(a)
  \/ \E dec \in Allowing : Allow(a, dec)
  \/ \E dec \in Allowing \union {"deny"} : DecideInRegistry(a, dec)
  \/ \E dec \in Allowing : GrantInAdvance(a, dec)

DispatchStep(d) == PolicyDenies(d) \/ Execute(d) \/ ClaimRejected(d) \/ Return(d)

RunnerStep ==
  \/ AdapterBlocks \/ AdapterInvokes \/ AdapterReturns \/ HandOff
  \/ PassThrows \/ PassEnds \/ RunnerExits

Next ==
  \/ \E d \in Dispatches :
       RequestStep(d) \/ DecisionStep(d) \/ Timeout(d) \/ DispatchStep(d) \/ ExpiryPasses(d) \/ LeaseLapses(d)
  \/ \E r \in Runs : Abort(r) \/ RunEnds(r)
  \/ RunnerStep
  \/ Stop \/ Crash \/ Shutdown \/ Restart

Spec == Init /\ [][Next]_vars

EventLoop == \E d \in Dispatches : Timeout(d) \/ ExpiryPasses(d) \/ DispatchStep(d)

\* The event loop never rests while a timer or a continuation is due, an adapter
\* returns or throws, and the service is started again.  Nobody has to decide.
Fairness == WF_vars(EventLoop) /\ WF_vars(RunnerStep) /\ WF_vars(Shutdown \/ Restart)

FairSpec == Spec /\ Fairness

-----------------------------------------------------------------------------
\* Properties.

HoldsLive(a) == \E d \in Dispatches : pc[d] = "executing" /\ Claims(d) /\ grant[d] = a
HoldsRecovery(a) == runner \in {"holding", "executing", "handoff"} /\ inHand = a

\* A tool runs on an approval, live or recovered, only if somebody allowed it
\* and the row was consumed; no timeout, abort or late answer undoes that.
OnlyAllowedCallsRun ==
  \A a \in Dispatches :
    invocations[a] > 0 => status[a] = "consumed" /\ decision[a] \in Allowing

\* An allow_once decision pays for one invocation, however the live dispatch,
\* the recovery runner and later identical calls race for it.  Two things add
\* one each: a lease that lapsed, and the live run of an artifact delivery,
\* which does not claim the continuation it leaves in the queue.
AllowOnceRunsOnce ==
  \A a \in Dispatches :
    decision[a] = "allow_once" =>
      invocations[a] <= 1 + lapses[a] + (IF kind[a].delivery THEN 1 ELSE 0)

\* While no lease has lapsed, whoever is executing a continuation owns its row:
\* the live dispatch and the recovery runner never hold one together, and
\* neither finds its claim settled by the other.
ExecutorOwnsClaim ==
  \A a \in Dispatches :
    lapses[a] = 0 =>
      /\ HoldsLive(a) => cont[a].status = "claimed" /\ cont[a].owner = "dispatcher"
      /\ HoldsRecovery(a) => cont[a].status = "claimed" /\ cont[a].owner = "recovery"

\* A dispatch is told "denied" although its own request was allowed only if it
\* had lost its place in the waiter maps, to another dispatch of the run or to
\* the end of the run: while the maps lead to it, no timer and no abort takes a
\* grant away.
LostGrantMeansDisplaced ==
  \A d \in Dispatches :
    pc[d] = "denied" /\ cont[d].status # "none" => d \in displaced

\* A row that was denied, expired, superseded or consumed, and a continuation
\* that was settled, keep their outcome: a timer or a stale owner that comes
\* late changes nothing.
OutcomesAreFinal ==
  [][\A a \in Dispatches :
       /\ status[a] \in {"denied", "expired", "superseded", "consumed"} => status'[a] = status[a]
       /\ cont[a].status \in Terminal => cont'[a].status = cont[a].status]_vars

\* A continuation that was published because nobody waited for it is taken by
\* the runner: no wake is lost, whatever the runner was doing when it came.  One
\* that was not claimed when the gateway went down, by a crash or by a shutdown,
\* is taken by the gateway that comes up next.  A pass that throws is the
\* exception: it leaves the rest of the queue alone.
UnattendedIsTaken ==
  \A a \in Dispatches :
    (a \in announced \/ ~up) /\ cont[a].status = "pending"
      ~> cont[a].status # "pending" \/ passFailed

\* A dispatch waiting under the 60 s limit is answered, even one that another
\* dispatch of its run, or the end of the run, removed from the maps.
TimedWaitEnds ==
  \A d \in Dispatches : pc[d] = "waiting" /\ kind[d].timed ~> pc[d] # "waiting"

\* runs/source.md: a tool invocation that returns to the live dispatcher
\* leaves its continuation settled.
ReturnedCallIsSettled ==
  \A d \in Dispatches : pc[d] = "done" /\ d \in carries => cont[grant[d]].status \in Terminal

\* runs/source.md: only a claim that a process crash left unsettled is taken
\* over by recovery, never one whose owner is still executing.
OnlyOrphansAreRecovered ==
  \A a \in Dispatches : ~(HoldsLive(a) /\ HoldsRecovery(a))
=============================================================================
