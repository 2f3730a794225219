------------------------ MODULE SideEffectOperation ------------------------
(***************************************************************************)
(* The durable side-effect ledger of Knowbee: every tool whose contract     *)
(* declares an external effect runs through executeSideEffectOperation,     *)
(* which records the life of the effect in one SQLite row per operation     *)
(* scope (run, step, adapter and target) and decides, from that row alone,  *)
(* whether a call may launch the effect, must resume its verification, or   *)
(* must answer from what an earlier call left behind.                       *)
(*                                                                         *)
(* A call is one invocation of the executor.  It interleaves with the other *)
(* calls at every commit of the row and at every await (the effect, the     *)
(* observation, the compensation); a crash may stop every running call      *)
(* between any two commits, and the row survives it.                        *)
(***************************************************************************)
EXTENDS Integers, Sequences, FiniteSets

CONSTANTS
  Calls,        \* invocations of the executor
  Scopes,       \* operation scopes: one row, one external target each
  Params,       \* parameter fingerprints
  NoParams,     \* the scope has no row yet
  NoCall,       \* evidence that does not identify the call
  ScopeOf,      \* the scope a call addresses
  ParamsOf,     \* the parameters a call carries
  Recovering,   \* calls made by the continuation recovery, without admission
  Authorized    \* calls whose policy receipt covers the operation

ASSUME ConstantsAssumption ==
  /\ ScopeOf \in [Calls -> Scopes]
  /\ ParamsOf \in [Calls -> Params]
  /\ NoParams \notin Params
  /\ NoCall \notin Calls
  /\ Recovering \subseteq Calls
  /\ Authorized \subseteq Calls

VARIABLES
  contract,     \* what the tool behind a scope offers; fixed for a run
  opParams,     \* the row: parameters it was reserved with, or NoParams
  state,        \* the row: SideEffectOperationState
  log,          \* the row: transitions_json; its length is the revision
  pc,           \* where a call is
  rev,          \* the revision of the aggregate a call holds
  adapterOk,    \* what the adapter (or its compensation) told the call
  observed,     \* whether the call's observation matched the expectation
  result,       \* what the call returned
  aborted,      \* calls whose abort signal fired
  launches,     \* how often the effect of a scope was launched
  world,        \* whether the effect is in place
  landing       \* scopes with an effect whose caller is gone

ledger == <<opParams, state, log>>
outside == <<launches, world, landing>>
vars == <<contract, ledger, pc, rev, adapterOk, observed, result, aborted, outside>>

-----------------------------------------------------------------------------
\* The state machine of an operation.

States ==
  {"RESERVED", "EFFECT_STARTED", "EFFECT_REJECTED", "EFFECT_RECORDED",
   "VERIFYING", "VERIFIED", "VERIFY_FAILED", "CANCEL_REQUESTED",
   "COMPENSATING", "COMPENSATED", "MANUAL_INTERVENTION"}

Events ==
  {"START_EFFECT", "RECORD_REJECTION", "RECORD_EFFECT", "BEGIN_VERIFICATION",
   "VERIFICATION_PASSED", "VERIFICATION_FAILED", "REQUEST_CANCEL",
   "BEGIN_COMPENSATION", "COMPENSATION_SUCCEEDED", "COMPENSATION_FAILED",
   "MARK_MANUAL"}

TRANSITIONS ==
  {<<"RESERVED", "START_EFFECT", "EFFECT_STARTED">>,
   <<"RESERVED", "REQUEST_CANCEL", "CANCEL_REQUESTED">>,
   <<"EFFECT_STARTED", "RECORD_REJECTION", "EFFECT_REJECTED">>,
   <<"EFFECT_STARTED", "RECORD_EFFECT", "EFFECT_RECORDED">>,
   <<"EFFECT_STARTED", "REQUEST_CANCEL", "CANCEL_REQUESTED">>,
   <<"EFFECT_RECORDED", "BEGIN_VERIFICATION", "VERIFYING">>,
   <<"EFFECT_RECORDED", "REQUEST_CANCEL", "CANCEL_REQUESTED">>,
   <<"VERIFYING", "VERIFICATION_PASSED", "VERIFIED">>,
   <<"VERIFYING", "VERIFICATION_FAILED", "VERIFY_FAILED">>,
   <<"VERIFYING", "REQUEST_CANCEL", "CANCEL_REQUESTED">>,
   <<"VERIFY_FAILED", "BEGIN_COMPENSATION", "COMPENSATING">>,
   <<"VERIFY_FAILED", "MARK_MANUAL", "MANUAL_INTERVENTION">>,
   <<"CANCEL_REQUESTED", "BEGIN_VERIFICATION", "VERIFYING">>,
   <<"CANCEL_REQUESTED", "BEGIN_COMPENSATION", "COMPENSATING">>,
   <<"CANCEL_REQUESTED", "MARK_MANUAL", "MANUAL_INTERVENTION">>,
   <<"COMPENSATING", "COMPENSATION_SUCCEEDED", "COMPENSATED">>,
   <<"COMPENSATING", "COMPENSATION_FAILED", "MANUAL_INTERVENTION">>}

TERMINAL_STATES == {"VERIFIED", "COMPENSATED", "MANUAL_INTERVENTION", "EFFECT_REJECTED"}

\* States from which a later call may only look at the world again.
ResumableStates == {"EFFECT_RECORDED", "VERIFYING", "CANCEL_REQUESTED"}

Results ==
  {"none", "verified", "duplicate_verified", "resumed_verified",
   "cancelled_before_effect", "compensated", "effect_rejected",
   "manual_intervention", "blocked", "threw"}

PCs ==
  {"idle", "admitted", "reserved", "started", "effect", "rejected", "settled",
   "recorded", "beginVerify", "observe", "decide", "verifyFailed",
   "compensate", "verifyCompensation", "completeCompensation",
   "resumeBegin", "resumeObserve", "resumeDecide", "resumeManual",
   "done", "dead"}

Running(c) == pc[c] \notin {"idle", "done", "dead"}

\* A receipt's identity: receiptId is the operation, the revision and the
\* fingerprint of the evidence.  START_EFFECT and the adapter's records carry
\* evidence unique to the call (policyDecisionId, result and time); the other
\* receipts are the same whoever writes them.
Receipt(event, note, by) == [event |-> event, note |-> note, by |-> by]

Notes == {"authorization", "effect", "plain", "live", "resumed", "compensation"}

LogEntries ==
  [event : Events, note : Notes, by : Calls \cup {NoCall},
   previousState : States, nextState : States]

IsReceiptOf(entry, r) ==
  entry.event = r.event /\ entry.note = r.note /\ entry.by = r.by

\* Mutant: the evidence of START_EFFECT no longer names the policy decision.
SharedStartReceipt(c) == Receipt("START_EFFECT", "authorization", NoCall)

StartReceipt(c) == Receipt("START_EFFECT", "authorization", c)

HasEvent(s, event) == \E i \in 1 .. Len(log[s]) : log[s][i].event = event

-----------------------------------------------------------------------------

Init ==
  /\ contract \in [Scopes -> [observeCurrent : BOOLEAN, reversible : BOOLEAN,
                              compensate : BOOLEAN]]
  /\ opParams = [s \in Scopes |-> NoParams]
  /\ state = [s \in Scopes |-> "RESERVED"]
  /\ log = [s \in Scopes |-> <<>>]
  /\ pc = [c \in Calls |-> "idle"]
  /\ rev = [c \in Calls |-> 0]
  /\ adapterOk = [c \in Calls |-> FALSE]
  /\ observed = [c \in Calls |-> FALSE]
  /\ result = [c \in Calls |-> "none"]
  /\ aborted = {}
  /\ launches = [s \in Scopes |-> 0]
  /\ world = [s \in Scopes |-> FALSE]
  /\ landing = {}

Goto(c, next, res) ==
  /\ pc' = [pc EXCEPT ![c] = next]
  /\ result' = [result EXCEPT ![c] = res]

Finish(c, res) == Goto(c, "done", res)

\* reserveSideEffectOperation: create the row, or find the one already there.
Reserve(s, p) == opParams' = [opParams EXCEPT ![s] = IF @ = NoParams THEN p ELSE @]

\* The row belongs to an operation with other parameters.
ScopeConflict(c) == opParams[ScopeOf[c]] \notin {NoParams, ParamsOf[c]}

\* Mutant: the revision of the loaded aggregate is one behind.
LaggingRevision(s) == Len(log[s]) - 1

\* The revision of the aggregate that loadByScope returns.
LoadedRevision(s) == Len(log[s])

\* Mutant: the commit no longer compares the revision it expects.
AnyRevision(c) == TRUE

\* The check of expectedRevision, repeated by the UPDATE of saveTransition.
RevisionMatches(c) == Len(log[ScopeOf[c]]) = rev[c]

\* Mutant: a refused commit is retried until it applies.
NeverRefused(s) == {}

\* stale_revision, terminal_state_locked, transition_not_allowed: the row stays.
RefusedCommit(s) == {<<"refused", state[s]>>}

\* Mutant: the caller does not look at the status of its commit.
IgnoredRefusal(o) == FALSE

IsRefusal(o) == o[1] = "refused"

\* transitionReservedSideEffectOperation and saveTransition: what a commit of
\* receipt r by call c may answer.  A transition the row already ends with is
\* taken as this call's own when the whole receipt is equal, its millisecond
\* issuedAt included, and as a receipt conflict otherwise.
Outcomes(c, r) ==
  LET s == ScopeOf[c]
      next == {t[3] : t \in {u \in TRANSITIONS : u[1] = state[s] /\ u[2] = r.event}}
  IN IF Len(log[s]) = rev[c] + 1 /\ IsReceiptOf(log[s][Len(log[s])], r)
       THEN {<<"replayed", state[s]>>} \cup RefusedCommit(s)
     ELSE IF RevisionMatches(c) /\ next # {}
       THEN {<<"applied", n>> : n \in next}
     ELSE RefusedCommit(s)

Transition(c, r, next, res) ==
  LET s == ScopeOf[c] IN
  /\ \E o \in Outcomes(c, r) :
       /\ state' = [state EXCEPT ![s] = o[2]]
       /\ log' = [log EXCEPT ![s] = IF o[1] # "applied" THEN @ ELSE
                    Append(@, [event |-> r.event, note |-> r.note, by |-> r.by,
                               previousState |-> state[s], nextState |-> o[2]])]
       /\ rev' = [rev EXCEPT ![c] = IF IsRefusal(o) THEN @ ELSE @ + 1]
       /\ IF IsRefusal(o) THEN Finish(c, "blocked") ELSE Goto(c, next, res)
  /\ UNCHANGED opParams

-----------------------------------------------------------------------------
\* What a row that is settled answers to a new call; any other row blocks it.
KnownAnswer ==
  [VERIFIED |-> "duplicate_verified", MANUAL_INTERVENTION |-> "manual_intervention",
   EFFECT_REJECTED |-> "effect_rejected"]

AnswerFromRow(s) ==
  IF state[s] \in DOMAIN KnownAnswer THEN KnownAnswer[state[s]] ELSE "blocked"

\* The effect is recorded, and the tool can look at the world without it.
CanResume(s) ==
  /\ state[s] \in ResumableStates
  /\ contract[s].observeCurrent
  /\ HasEvent(s, "RECORD_EFFECT")

\* The dispatcher admits a call before it asks for approval: it reserves the
\* scope and answers at once from any row that is past RESERVED.

Admit(c) ==
  LET s == ScopeOf[c] IN
  /\ pc[c] = "idle"
  /\ c \notin Recovering
  /\ IF ScopeConflict(c)
       THEN Finish(c, "blocked") /\ UNCHANGED opParams
       ELSE /\ Reserve(s, ParamsOf[c])
            /\ IF state[s] = "RESERVED" THEN Goto(c, "admitted", "none")
                                         ELSE Finish(c, AnswerFromRow(s))
  /\ UNCHANGED <<contract, state, log, rev, adapterOk, observed, aborted, outside>>

\* The approval the dispatcher waits for between admission and execution is
\* denied or times out.
DenyApproval(c) ==
  /\ pc[c] = "admitted"
  /\ Finish(c, "blocked")
  /\ UNCHANGED <<contract, ledger, rev, adapterOk, observed, aborted, outside>>

\* executeSideEffectOperation up to its first commit: authorization, the
\* reservation, and the branch on the state of the row.
Enter(c) ==
  LET s == ScopeOf[c] IN
  /\ pc[c] = IF c \in Recovering THEN "idle" ELSE "admitted"
  /\ IF c \notin Authorized \/ ScopeConflict(c)
       THEN Finish(c, "blocked") /\ UNCHANGED <<opParams, rev>>
       ELSE /\ Reserve(s, ParamsOf[c])
            /\ rev' = [rev EXCEPT ![c] = LoadedRevision(s)]
            /\ IF state[s] = "RESERVED" THEN Goto(c, "reserved", "none")
               ELSE IF CanResume(s)
                 THEN Goto(c, IF state[s] = "VERIFYING" THEN "resumeObserve" ELSE "resumeBegin",
                           "none")
               ELSE Finish(c, AnswerFromRow(s))
  /\ UNCHANGED <<contract, state, log, adapterOk, observed, aborted, outside>>

-----------------------------------------------------------------------------
\* The first execution: start, launch, record.

CancelReserved(c) ==
  /\ pc[c] = "reserved" /\ c \in aborted
  /\ Transition(c, Receipt("REQUEST_CANCEL", "plain", NoCall), "done", "cancelled_before_effect")
  /\ UNCHANGED <<contract, adapterOk, observed, aborted, outside>>

StartEffect(c) ==
  /\ pc[c] = "reserved" /\ c \notin aborted
  /\ Transition(c, StartReceipt(c), "started", "none")
  /\ UNCHANGED <<contract, adapterOk, observed, aborted, outside>>

CancelStarted(c) ==
  /\ pc[c] = "started" /\ c \in aborted
  /\ Transition(c, Receipt("REQUEST_CANCEL", "plain", NoCall), "done", "cancelled_before_effect")
  /\ UNCHANGED <<contract, adapterOk, observed, aborted, outside>>

LaunchEffect(c) ==
  /\ pc[c] = "started" /\ c \notin aborted
  /\ launches' = [launches EXCEPT ![ScopeOf[c]] = @ + 1]
  /\ Goto(c, "effect", "none")
  /\ UNCHANGED <<contract, ledger, rev, adapterOk, observed, aborted, world, landing>>

\* tool.execute settles.  Only a pre-effect rejection promises that nothing
\* happened; a success or a failure may or may not have changed the world.
EffectReturns(c) ==
  /\ pc[c] = "effect"
  /\ \/ Goto(c, "rejected", "none") /\ UNCHANGED <<adapterOk, world>>
     \/ \E ok, done \in BOOLEAN :
          /\ Goto(c, "settled", "none")
          /\ adapterOk' = [adapterOk EXCEPT ![c] = ok]
          /\ world' = [world EXCEPT ![ScopeOf[c]] = done]
  /\ UNCHANGED <<contract, ledger, rev, observed, aborted, launches, landing>>

\* tool.execute throws: the executor propagates it and commits nothing; the
\* effect may still take place.
EffectThrows(c) ==
  /\ pc[c] = "effect"
  /\ Finish(c, "threw")
  /\ landing' = landing \cup {ScopeOf[c]}
  /\ UNCHANGED <<contract, ledger, rev, adapterOk, observed, aborted, launches, world>>

RecordRejection(c) ==
  /\ pc[c] = "rejected"
  /\ Transition(c, Receipt("RECORD_REJECTION", "effect", c), "done", "effect_rejected")
  /\ UNCHANGED <<contract, adapterOk, observed, aborted, outside>>

RecordEffect(c) ==
  /\ pc[c] = "settled"
  /\ Transition(c, Receipt("RECORD_EFFECT", "effect", c), "recorded", "none")
  /\ UNCHANGED <<contract, adapterOk, observed, aborted, outside>>

CancelRecorded(c) ==
  /\ pc[c] = "recorded" /\ c \in aborted
  /\ Transition(c, Receipt("REQUEST_CANCEL", "plain", NoCall), "beginVerify", "none")
  /\ UNCHANGED <<contract, adapterOk, observed, aborted, outside>>

-----------------------------------------------------------------------------
\* Verification of the post state, and what follows a failed one.

BeginVerification(c) ==
  /\ pc[c] = "beginVerify" \/ (pc[c] = "recorded" /\ c \notin aborted)
  /\ Transition(c, Receipt("BEGIN_VERIFICATION", "plain", NoCall), "observe", "none")
  /\ UNCHANGED <<contract, adapterOk, observed, aborted, outside>>

\* The observer reads the world; it may also be unavailable, look at another
\* target or answer from before the effect, which all count as no match.
Observe(c, from, to) ==
  /\ pc[c] = from
  /\ \E match \in {FALSE, world[ScopeOf[c]]} : observed' = [observed EXCEPT ![c] = match]
  /\ Goto(c, to, "none")
  /\ UNCHANGED <<contract, ledger, rev, adapterOk, aborted, outside>>

ObservePostState(c) == Observe(c, "observe", "decide")

\* Any of the awaited adapter calls after the effect may throw as well, a
\* compensation after it has already removed the effect.
AdapterThrows(c) ==
  /\ pc[c] \in {"observe", "resumeObserve", "compensate", "verifyCompensation"}
  /\ Finish(c, "threw")
  /\ \E left \in {world[ScopeOf[c]], world[ScopeOf[c]] /\ pc[c] # "compensate"} :
       world' = [world EXCEPT ![ScopeOf[c]] = left]
  /\ UNCHANGED <<contract, ledger, rev, adapterOk, observed, aborted, launches, landing>>

\* Mutant: the adapter's word is enough.
TrustAdapter(c) == adapterOk[c]

decideSideEffectVerification(c) == adapterOk[c] /\ observed[c]

PassVerification(c) ==
  /\ pc[c] = "decide" /\ decideSideEffectVerification(c)
  /\ Transition(c, Receipt("VERIFICATION_PASSED", "live", NoCall), "done", "verified")
  /\ UNCHANGED <<contract, adapterOk, observed, aborted, outside>>

FailVerification(c) ==
  /\ pc[c] = "decide" /\ ~decideSideEffectVerification(c)
  /\ Transition(c, Receipt("VERIFICATION_FAILED", "live", NoCall), "verifyFailed", "none")
  /\ UNCHANGED <<contract, adapterOk, observed, aborted, outside>>

\* decideSideEffectRemediation, and the adapter's compensation callbacks.
CanCompensate(s) == contract[s].reversible /\ contract[s].compensate

MarkManual(c) ==
  /\ pc[c] = "verifyFailed" /\ ~CanCompensate(ScopeOf[c])
  /\ Transition(c, Receipt("MARK_MANUAL", "live", NoCall), "done", "manual_intervention")
  /\ UNCHANGED <<contract, adapterOk, observed, aborted, outside>>

BeginCompensation(c) ==
  /\ pc[c] = "verifyFailed" /\ CanCompensate(ScopeOf[c])
  /\ Transition(c, Receipt("BEGIN_COMPENSATION", "plain", NoCall), "compensate", "none")
  /\ UNCHANGED <<contract, adapterOk, observed, aborted, outside>>

\* The compensation runs; it may fail, and may leave the effect in place.
Compensate(c) ==
  /\ pc[c] = "compensate"
  /\ \E ok \in BOOLEAN, left \in {FALSE, world[ScopeOf[c]]} :
       /\ adapterOk' = [adapterOk EXCEPT ![c] = ok]
       /\ world' = [world EXCEPT ![ScopeOf[c]] = left]
       /\ Goto(c, IF ok THEN "verifyCompensation" ELSE "completeCompensation", "none")
  /\ UNCHANGED <<contract, ledger, rev, observed, aborted, launches, landing>>

\* verifyCompensation confirms only a world without the effect.
VerifyCompensation(c) ==
  /\ pc[c] = "verifyCompensation"
  /\ \E gone \in {FALSE, ~world[ScopeOf[c]]} : adapterOk' = [adapterOk EXCEPT ![c] = gone]
  /\ Goto(c, "completeCompensation", "none")
  /\ UNCHANGED <<contract, ledger, rev, observed, aborted, outside>>

CompleteCompensation(c) ==
  /\ pc[c] = "completeCompensation"
  /\ IF adapterOk[c]
       THEN Transition(c, Receipt("COMPENSATION_SUCCEEDED", "compensation", c),
                       "done", "compensated")
       ELSE Transition(c, Receipt("COMPENSATION_FAILED", "compensation", c),
                       "done", "manual_intervention")
  /\ UNCHANGED <<contract, adapterOk, observed, aborted, outside>>

-----------------------------------------------------------------------------
\* A later call resumes an operation whose effect is recorded: it never
\* launches the effect and never compensates it.

ResumeVerification(c) ==
  /\ pc[c] = "resumeBegin"
  /\ Transition(c, Receipt("BEGIN_VERIFICATION", "resumed", NoCall), "resumeObserve", "none")
  /\ UNCHANGED <<contract, adapterOk, observed, aborted, outside>>

ObserveCurrentPostState(c) == Observe(c, "resumeObserve", "resumeDecide")

ResumePasses(c) ==
  /\ pc[c] = "resumeDecide" /\ observed[c]
  /\ Transition(c, Receipt("VERIFICATION_PASSED", "resumed", NoCall), "done", "resumed_verified")
  /\ UNCHANGED <<contract, adapterOk, observed, aborted, outside>>

\* Mutant: the failed resume returns without handing over to an operator.
ResumeFailsSilently(c) ==
  /\ pc[c] = "resumeDecide" /\ ~observed[c]
  /\ Transition(c, Receipt("VERIFICATION_FAILED", "resumed", NoCall), "done", "blocked")
  /\ UNCHANGED <<contract, adapterOk, observed, aborted, outside>>

ResumeFails(c) ==
  /\ pc[c] = "resumeDecide" /\ ~observed[c]
  /\ Transition(c, Receipt("VERIFICATION_FAILED", "resumed", NoCall), "resumeManual", "none")
  /\ UNCHANGED <<contract, adapterOk, observed, aborted, outside>>

ResumeManual(c) ==
  /\ pc[c] = "resumeManual"
  /\ Transition(c, Receipt("MARK_MANUAL", "resumed", NoCall), "done", "manual_intervention")
  /\ UNCHANGED <<contract, adapterOk, observed, aborted, outside>>

-----------------------------------------------------------------------------
\* The surroundings: the abort signal of a run, the process and the world.

\* isCancelled is read for the last time when the effect has been recorded.  The
\* event loop gives a signal no turn between START_EFFECT and the launch; the
\* abort is left possible there, for the check the code makes at that place.
Abort(c) ==
  /\ pc[c] \in {"admitted", "reserved", "started", "effect", "settled", "recorded"}
  /\ c \notin aborted
  /\ aborted' = aborted \cup {c}
  /\ UNCHANGED <<contract, ledger, pc, rev, adapterOk, observed, result, outside>>

Crash ==
  /\ \E c \in Calls : Running(c)
  /\ pc' = [c \in Calls |-> IF Running(c) THEN "dead" ELSE pc[c]]
  /\ landing' = landing \cup {ScopeOf[c] : c \in {d \in Calls : pc[d] = "effect"}}
  /\ UNCHANGED <<contract, ledger, rev, adapterOk, observed, result, aborted, launches, world>>

\* An effect whose caller is gone takes place after all.
EffectLands(s) ==
  /\ s \in landing
  /\ world' = [world EXCEPT ![s] = TRUE]
  /\ landing' = landing \ {s}
  /\ UNCHANGED <<contract, ledger, pc, rev, adapterOk, observed, result, aborted, launches>>

\* A step of a call that the event loop, or a settling promise, brings about.
CallStep(c) ==
  \/ DenyApproval(c) \/ Enter(c)
  \/ CancelReserved(c) \/ StartEffect(c) \/ CancelStarted(c) \/ LaunchEffect(c)
  \/ EffectReturns(c) \/ EffectThrows(c) \/ RecordRejection(c) \/ RecordEffect(c)
  \/ CancelRecorded(c) \/ BeginVerification(c) \/ ObservePostState(c) \/ AdapterThrows(c)
  \/ PassVerification(c) \/ FailVerification(c) \/ MarkManual(c)
  \/ BeginCompensation(c) \/ Compensate(c) \/ VerifyCompensation(c) \/ CompleteCompensation(c)
  \/ ResumeVerification(c) \/ ObserveCurrentPostState(c)
  \/ ResumePasses(c) \/ ResumeFails(c) \/ ResumeManual(c)

Next ==
  \/ \E c \in Calls : Admit(c) \/ CallStep(c) \/ Abort(c)
  \/ Crash
  \/ \E s \in Scopes : EffectLands(s)

Spec == Init /\ [][Next]_vars

\* The execution of an operation has been entered.
InExecution(c) == Running(c) /\ pc[c] # "admitted"

\* A call in execution is carried on by the event loop, and the promises of its
\* adapter settle: the tools with a contract read and write files, ask the local
\* system or wait at most 60 s for a Yeonjang answer.  Nothing is assumed of a call
\* that still waits for approval: a screen confirmation has no time limit, and
\* nobody has to give it.
FairSpec == Spec /\ \A c \in Calls : WF_vars(InExecution(c) /\ CallStep(c))

-----------------------------------------------------------------------------
\* Properties.

\* Every variable stays within its type; the revision a call holds is a number,
\* never the absence of a row (loadLatest).
TypeOK ==
  /\ contract \in [Scopes -> [observeCurrent : BOOLEAN, reversible : BOOLEAN,
                               compensate : BOOLEAN]]
  /\ opParams \in [Scopes -> Params \cup {NoParams}]
  /\ state \in [Scopes -> States]
  /\ log \in [Scopes -> Seq(LogEntries)]
  /\ pc \in [Calls -> PCs]
  /\ rev \in [Calls -> Nat]
  /\ adapterOk \in [Calls -> BOOLEAN]
  /\ observed \in [Calls -> BOOLEAN]
  /\ result \in [Calls -> Results]
  /\ aborted \subseteq Calls
  /\ launches \in [Scopes -> Nat]
  /\ world \in [Scopes -> BOOLEAN]
  /\ landing \subseteq Scopes

\* The external effect of a scope is launched at most once, whatever calls,
\* retries, recoveries and crashes happen (the reservation, the revision check
\* of saveTransition and the per-call START_EFFECT receipt together).
AtMostOneEffect == \A s \in Scopes : launches[s] <= 1

\* What the ledger says of a finished operation is true of the world: VERIFIED
\* only with the effect in place, COMPENSATED and EFFECT_REJECTED only without
\* it, although a resumed verification and the first caller's verification and
\* compensation may overlap (executor lines 144-215 against 286-352).
LedgerMatchesWorld ==
  \A s \in Scopes :
    /\ state[s] = "VERIFIED" => world[s] /\ HasEvent(s, "RECORD_EFFECT")
    /\ state[s] \in {"COMPENSATED", "EFFECT_REJECTED"} => ~world[s]

\* A caller told "cancelled_before_effect" is told the truth for good: the
\* effect of its scope was not launched by any call and never will be.
CancelledMeansUntouched ==
  \A c \in Calls :
    result[c] = "cancelled_before_effect" =>
      launches[ScopeOf[c]] = 0 /\ ~world[ScopeOf[c]]

\* Every definite answer a call returned is the state the row ends in, also
\* when another call moved the row in between: an answer is never overtaken.
AnsweredState ==
  [verified |-> "VERIFIED", duplicate_verified |-> "VERIFIED", resumed_verified |-> "VERIFIED",
   compensated |-> "COMPENSATED", effect_rejected |-> "EFFECT_REJECTED",
   manual_intervention |-> "MANUAL_INTERVENTION",
   cancelled_before_effect |-> "CANCEL_REQUESTED"]

AnswersMatchLedger ==
  \A c \in Calls :
    result[c] \in DOMAIN AnsweredState => state[ScopeOf[c]] = AnsweredState[result[c]]

\* An effect whose caller crashed or threw leaves the row at EFFECT_STARTED:
\* no other call reports it done, undone or cancelled, and none repeats it.
UnknownEffectStaysOpen == \A s \in landing : state[s] = "EFFECT_STARTED"

\* Every call whose execution was entered returns, unless the process crashes
\* under it: no refused commit, replay or resume leaves a caller waiting.
EveryCallReturns == \A c \in Calls : InExecution(c) ~> ~Running(c)

\* Once its effect is recorded an operation reaches a terminal state, whichever
\* of the overlapping calls wins each commit, unless a call on the scope
\* crashed or an adapter threw.
Disturbed(s) == \E c \in Calls : ScopeOf[c] = s /\ (pc[c] = "dead" \/ result[c] = "threw")

RecordedEffectIsSettled ==
  \A s \in Scopes :
    HasEvent(s, "RECORD_EFFECT") ~> (state[s] \in TERMINAL_STATES \/ Disturbed(s))

-----------------------------------------------------------------------------
\* The promise the ledger makes, EffectOnce, and how it is kept.

Outcome ==
  [s \in Scopes |->
    IF state[s] \in TERMINAL_STATES THEN state[s]
    ELSE IF state[s] = "CANCEL_REQUESTED" /\ launches[s] = 0 THEN "CANCELLED"
    ELSE "OPEN"]

Promise == INSTANCE EffectOnce WITH outcome <- Outcome

\* The ledger implements the abstract operation: launch at most once, never
\* after a cancellation, and one outcome that is never revised.
ImplementsEffectOnce == Promise!Spec
=============================================================================
