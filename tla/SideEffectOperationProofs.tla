--------------------- MODULE SideEffectOperationProofs ---------------------
(***************************************************************************)
(* Proofs about the side-effect ledger for every set of calls, scopes and   *)
(* parameters: type correctness, and that no effect is launched twice.      *)
(***************************************************************************)
EXTENDS SideEffectOperation, TLAPS

\* The three ways a commit can end.
Applied(c, r, next, res) ==
  LET s == ScopeOf[c] IN
  /\ RevisionMatches(c)
  /\ \E n \in States :
       /\ <<state[s], r.event, n>> \in TRANSITIONS
       /\ state' = [state EXCEPT ![s] = n]
       /\ log' = [log EXCEPT ![s] =
                    Append(@, [event |-> r.event, note |-> r.note, by |-> r.by,
                               previousState |-> state[s], nextState |-> n])]
  /\ rev' = [rev EXCEPT ![c] = @ + 1]
  /\ Goto(c, next, res)

Replayed(c, r, next, res) ==
  LET s == ScopeOf[c] IN
  /\ Len(log[s]) = rev[c] + 1
  /\ IsReceiptOf(log[s][Len(log[s])], r)
  /\ UNCHANGED <<state, log>>
  /\ rev' = [rev EXCEPT ![c] = @ + 1]
  /\ Goto(c, next, res)

Refused(c) ==
  /\ UNCHANGED <<state, log, rev>>
  /\ Finish(c, "blocked")

ReceiptType == [event : Events, note : Notes, by : Calls \cup {NoCall}]

\* The table only leads from a state to another state, and never to RESERVED.
LEMMA TransitionsTyped ==
  \A t \in TRANSITIONS :
    /\ t = <<t[1], t[2], t[3]>>
    /\ t[1] \in States /\ t[2] \in Events /\ t[3] \in States \ {"RESERVED"}
BY DEF TRANSITIONS, States, Events

\* A commit is applied, replayed or refused, and nothing else.
LEMMA TransitionCases ==
  ASSUME TypeOK, NEW c \in Calls, NEW r, NEW next, NEW res,
         Transition(c, r, next, res)
  PROVE  /\ opParams' = opParams
         /\ Applied(c, r, next, res) \/ Replayed(c, r, next, res) \/ Refused(c)
<1> DEFINE s == ScopeOf[c]
<1>0. s \in Scopes
  BY ConstantsAssumption
<1>1. PICK o \in Outcomes(c, r) :
        /\ state' = [state EXCEPT ![s] = o[2]]
        /\ log' = [log EXCEPT ![s] = IF o[1] # "applied" THEN @ ELSE
                     Append(@, [event |-> r.event, note |-> r.note, by |-> r.by,
                                previousState |-> state[s], nextState |-> o[2]])]
        /\ rev' = [rev EXCEPT ![c] = IF IsRefusal(o) THEN @ ELSE @ + 1]
        /\ IF IsRefusal(o) THEN Finish(c, "blocked") ELSE Goto(c, next, res)
  BY DEF Transition
<1>2. opParams' = opParams
  BY DEF Transition
<1>3. CASE o = <<"refused", state[s]>>
  <2>1. IsRefusal(o) /\ o[1] # "applied" /\ o[2] = state[s]
    BY <1>3 DEF IsRefusal
  <2>2. UNCHANGED <<state, log, rev>>
    BY <1>0, <1>1, <2>1 DEF TypeOK
  <2> QED BY <1>1, <1>2, <2>1, <2>2 DEF Refused
<1>4. CASE o = <<"replayed", state[s]>> /\ Len(log[s]) = rev[c] + 1
             /\ IsReceiptOf(log[s][Len(log[s])], r)
  <2>1. ~IsRefusal(o) /\ o[1] # "applied" /\ o[2] = state[s]
    BY <1>4 DEF IsRefusal
  <2>2. UNCHANGED <<state, log>>
    BY <1>0, <1>1, <2>1 DEF TypeOK
  <2> QED BY <1>1, <1>2, <1>4, <2>1, <2>2 DEF Replayed
<1>5. CASE RevisionMatches(c) /\ \E t \in TRANSITIONS :
             t[1] = state[s] /\ t[2] = r.event /\ o = <<"applied", t[3]>>
  <2>1. PICK t \in TRANSITIONS :
          t[1] = state[s] /\ t[2] = r.event /\ o = <<"applied", t[3]>>
    BY <1>5
  <2>2. ~IsRefusal(o) /\ o[1] = "applied" /\ o[2] = t[3]
    BY <2>1 DEF IsRefusal
  <2>3. <<state[s], r.event, t[3]>> \in TRANSITIONS /\ t[3] \in States
    BY <2>1, TransitionsTyped
  <2> QED BY <1>1, <1>2, <1>5, <2>2, <2>3 DEF Applied
<1>6. \/ o = <<"refused", state[s]>>
      \/ o = <<"replayed", state[s]>> /\ Len(log[s]) = rev[c] + 1
           /\ IsReceiptOf(log[s][Len(log[s])], r)
      \/ RevisionMatches(c) /\ \E t \in TRANSITIONS :
           t[1] = state[s] /\ t[2] = r.event /\ o = <<"applied", t[3]>>
  BY <1>1, Zenon DEF Outcomes, RefusedCommit
<1> QED BY <1>3, <1>4, <1>5, <1>6

-----------------------------------------------------------------------------
\* The inductive invariant.

\* Program points before START_EFFECT, from START_EFFECT to the first record,
\* and after RECORD_EFFECT (the resuming calls included).
BeforeStart == {"idle", "admitted", "reserved"}
Executing == {"started", "effect", "rejected", "settled"}
AfterRecord == {"recorded", "beginVerify", "observe", "decide", "verifyFailed", "compensate",
                "verifyCompensation", "completeCompensation", "resumeBegin",
                "resumeObserve", "resumeDecide", "resumeManual"}

\* A row is RESERVED exactly as long as nothing was committed to it.
ReservedIsEmpty == \A s \in Scopes : state[s] = "RESERVED" <=> log[s] = <<>>

\* START_EFFECT is written by a call that has gone past it, which is why the
\* receipt replay cannot let a second call through.
StartsHavePassed ==
  \A s \in Scopes : \A i \in 1 .. Len(log[s]) :
    log[s][i].event = "START_EFFECT" =>
      log[s][i].by \in Calls /\ pc[log[s][i].by] \notin BeforeStart

\* The row belongs to the call that started the effect until it records it.
OwnsRow(c) ==
  LET s == ScopeOf[c] IN
  /\ rev[c] = 1 /\ Len(log[s]) = 1 /\ log[s][1].by = c /\ state[s] = "EFFECT_STARTED"
  /\ launches[s] = IF pc[c] = "started" THEN 0 ELSE 1

CallsInStep ==
  \A c \in Calls :
    /\ pc[c] = "reserved" => rev[c] = 0
    /\ pc[c] \in Executing => OwnsRow(c)
    /\ pc[c] = "recorded" => rev[c] = 2
    /\ pc[c] \in AfterRecord => launches[ScopeOf[c]] = 1

\* What the row shows of the launch.
LaunchesInStep ==
  \A s \in Scopes :
    /\ launches[s] \in {0, 1}
    /\ log[s] = <<>> => launches[s] = 0
    /\ state[s] \in TERMINAL_STATES \cup {"EFFECT_RECORDED", "VERIFYING", "VERIFY_FAILED",
                                         "COMPENSATING"} => launches[s] = 1
    /\ HasEvent(s, "RECORD_EFFECT") => launches[s] = 1

\* An effect whose caller is gone still owns its row.
LandingInStep ==
  \A s \in landing :
    /\ state[s] = "EFFECT_STARTED" /\ Len(log[s]) = 1 /\ launches[s] = 1
    /\ log[s][1].by \in Calls /\ pc[log[s][1].by] \in {"done", "dead"}

IInv ==
  /\ TypeOK
  /\ ReservedIsEmpty /\ StartsHavePassed /\ CallsInStep /\ LaunchesInStep /\ LandingInStep

-----------------------------------------------------------------------------
\* Type correctness.

\* A commit keeps the types of everything it writes.
LEMMA TransitionTyped ==
  ASSUME TypeOK, NEW c \in Calls, NEW r \in ReceiptType,
         NEW next \in PCs, NEW res \in Results,
         Transition(c, r, next, res)
  PROVE  /\ opParams' \in [Scopes -> Params \cup {NoParams}]
         /\ state' \in [Scopes -> States]
         /\ log' \in [Scopes -> Seq(LogEntries)]
         /\ rev' \in [Calls -> Nat]
         /\ pc' \in [Calls -> PCs]
         /\ result' \in [Calls -> Results]
<1> DEFINE s == ScopeOf[c]
<1>0. s \in Scopes /\ "done" \in PCs /\ "blocked" \in Results
  BY ConstantsAssumption DEF PCs, Results
<1>1. opParams' = opParams
      /\ (Applied(c, r, next, res) \/ Replayed(c, r, next, res) \/ Refused(c))
  BY TransitionCases
<1>2. CASE Applied(c, r, next, res)
  <2>1. PICK n \in States :
          /\ state' = [state EXCEPT ![s] = n]
          /\ log' = [log EXCEPT ![s] =
                       Append(@, [event |-> r.event, note |-> r.note, by |-> r.by,
                                  previousState |-> state[s], nextState |-> n])]
    BY <1>2 DEF Applied
  <2>2. [event |-> r.event, note |-> r.note, by |-> r.by,
         previousState |-> state[s], nextState |-> n] \in LogEntries
    BY <1>0, <2>1 DEF LogEntries, ReceiptType, TypeOK
  <2>3. log' \in [Scopes -> Seq(LogEntries)]
    BY <1>0, <2>1, <2>2 DEF TypeOK
  <2> QED BY <1>0, <1>1, <1>2, <2>1, <2>3 DEF Applied, Goto, TypeOK
<1>3. CASE Replayed(c, r, next, res)
  BY <1>0, <1>1, <1>3 DEF Replayed, Goto, TypeOK
<1>4. CASE Refused(c)
  BY <1>0, <1>1, <1>4 DEF Refused, Finish, Goto, TypeOK
<1> QED BY <1>1, <1>2, <1>3, <1>4

\* The actions that are one commit between two program points.
Committing(c) ==
  \/ CancelReserved(c) \/ StartEffect(c) \/ CancelStarted(c)
  \/ RecordRejection(c) \/ RecordEffect(c) \/ CancelRecorded(c)
  \/ BeginVerification(c) \/ PassVerification(c) \/ FailVerification(c)
  \/ MarkManual(c) \/ BeginCompensation(c) \/ CompleteCompensation(c)
  \/ ResumeVerification(c) \/ ResumePasses(c) \/ ResumeFails(c) \/ ResumeManual(c)

\* What a committing action commits, and where it leads: the start of the
\* effect, a cancellation before it, its record, and everything after.
CommitKind(c, r, next) ==
  \/ pc[c] = "reserved" /\ r = StartReceipt(c) /\ next = "started"
  \/ pc[c] \in {"reserved", "started"} /\ r.event = "REQUEST_CANCEL" /\ next = "done"
  \/ pc[c] = "rejected" /\ r.event = "RECORD_REJECTION" /\ next = "done"
  \/ pc[c] = "settled" /\ r.event = "RECORD_EFFECT" /\ next = "recorded"
  \/ pc[c] = "recorded" /\ r.event = "REQUEST_CANCEL" /\ next = "beginVerify"
  \/ /\ pc[c] \in AfterRecord
     /\ r.event \notin {"START_EFFECT", "REQUEST_CANCEL", "RECORD_REJECTION", "RECORD_EFFECT"}
     /\ next \in (AfterRecord \ {"recorded"}) \cup {"done"}

\* Every committing action is a commit of one of these kinds.
LEMMA CommittingIsTransition ==
  ASSUME NEW c \in Calls, Committing(c)
  PROVE  /\ UNCHANGED <<contract, adapterOk, observed, aborted, outside>>
         /\ \E r \in ReceiptType, next \in PCs, res \in Results :
              Transition(c, r, next, res) /\ CommitKind(c, r, next)
<1> DEFINE Other(r, next, res) ==
      /\ Transition(c, r, next, res) /\ CommitKind(c, r, next)
      /\ r \in ReceiptType /\ next \in PCs /\ res \in Results
<1> USE DEF ReceiptType, Receipt, Events, Notes, PCs, Results, CommitKind, AfterRecord
<1>1. CASE StartEffect(c)
  BY <1>1 DEF StartEffect, StartReceipt
<1>2. CASE CancelReserved(c)
  <2>1. Other(Receipt("REQUEST_CANCEL", "plain", NoCall), "done", "cancelled_before_effect")
    BY <1>2 DEF CancelReserved
  <2> QED BY <1>2, <2>1 DEF CancelReserved
<1>3. CASE CancelStarted(c)
  <2>1. Other(Receipt("REQUEST_CANCEL", "plain", NoCall), "done", "cancelled_before_effect")
    BY <1>3 DEF CancelStarted
  <2> QED BY <1>3, <2>1 DEF CancelStarted
<1>4. CASE RecordRejection(c)
  <2>1. Other(Receipt("RECORD_REJECTION", "effect", c), "done", "effect_rejected")
    BY <1>4 DEF RecordRejection
  <2> QED BY <1>4, <2>1 DEF RecordRejection
<1>5. CASE RecordEffect(c)
  <2>1. Other(Receipt("RECORD_EFFECT", "effect", c), "recorded", "none")
    BY <1>5 DEF RecordEffect
  <2> QED BY <1>5, <2>1 DEF RecordEffect
<1>6. CASE CancelRecorded(c)
  <2>1. Other(Receipt("REQUEST_CANCEL", "plain", NoCall), "beginVerify", "none")
    BY <1>6 DEF CancelRecorded
  <2> QED BY <1>6, <2>1 DEF CancelRecorded
<1>7. CASE BeginVerification(c)
  <2>1. Other(Receipt("BEGIN_VERIFICATION", "plain", NoCall), "observe", "none")
    BY <1>7 DEF BeginVerification
  <2> QED BY <1>7, <2>1 DEF BeginVerification
<1>8. CASE PassVerification(c)
  <2>1. Other(Receipt("VERIFICATION_PASSED", "live", NoCall), "done", "verified")
    BY <1>8 DEF PassVerification
  <2> QED BY <1>8, <2>1 DEF PassVerification
<1>9. CASE FailVerification(c)
  <2>1. Other(Receipt("VERIFICATION_FAILED", "live", NoCall), "verifyFailed", "none")
    BY <1>9 DEF FailVerification
  <2> QED BY <1>9, <2>1 DEF FailVerification
<1>10. CASE MarkManual(c)
  <2>1. Other(Receipt("MARK_MANUAL", "live", NoCall), "done", "manual_intervention")
    BY <1>10 DEF MarkManual
  <2> QED BY <1>10, <2>1 DEF MarkManual
<1>11. CASE BeginCompensation(c)
  <2>1. Other(Receipt("BEGIN_COMPENSATION", "plain", NoCall), "compensate", "none")
    BY <1>11 DEF BeginCompensation
  <2> QED BY <1>11, <2>1 DEF BeginCompensation
<1>12. CASE CompleteCompensation(c)
  <2>1. \/ Other(Receipt("COMPENSATION_SUCCEEDED", "compensation", c), "done", "compensated")
        \/ Other(Receipt("COMPENSATION_FAILED", "compensation", c), "done", "manual_intervention")
    BY <1>12 DEF CompleteCompensation
  <2> QED BY <1>12, <2>1 DEF CompleteCompensation
<1>13. CASE ResumeVerification(c)
  <2>1. Other(Receipt("BEGIN_VERIFICATION", "resumed", NoCall), "resumeObserve", "none")
    BY <1>13 DEF ResumeVerification
  <2> QED BY <1>13, <2>1 DEF ResumeVerification
<1>14. CASE ResumePasses(c)
  <2>1. Other(Receipt("VERIFICATION_PASSED", "resumed", NoCall), "done", "resumed_verified")
    BY <1>14 DEF ResumePasses
  <2> QED BY <1>14, <2>1 DEF ResumePasses
<1>15. CASE ResumeFails(c)
  <2>1. Other(Receipt("VERIFICATION_FAILED", "resumed", NoCall), "resumeManual", "none")
    BY <1>15 DEF ResumeFails
  <2> QED BY <1>15, <2>1 DEF ResumeFails
<1>16. CASE ResumeManual(c)
  <2>1. Other(Receipt("MARK_MANUAL", "resumed", NoCall), "done", "manual_intervention")
    BY <1>16 DEF ResumeManual
  <2> QED BY <1>16, <2>1 DEF ResumeManual
<1> QED BY <1>1, <1>2, <1>3, <1>4, <1>5, <1>6, <1>7, <1>8, <1>9, <1>10, <1>11, <1>12,
           <1>13, <1>14, <1>15, <1>16 DEF Committing

\* A step keeps every variable within its type.
LEMMA TypeStep ==
  ASSUME TypeOK, [Next]_vars
  PROVE  TypeOK'
<1>0. CASE UNCHANGED vars
  BY <1>0 DEF TypeOK, vars, ledger, outside
<1>1. ASSUME NEW c \in Calls, Committing(c)
      PROVE  TypeOK'
  <2>1. /\ UNCHANGED <<contract, adapterOk, observed, aborted, outside>>
        /\ \E r \in ReceiptType, next \in PCs, res \in Results :
             Transition(c, r, next, res)
    BY <1>1, CommittingIsTransition
  <2>2. PICK r \in ReceiptType, next \in PCs, res \in Results : Transition(c, r, next, res)
    BY <2>1
  <2>3. /\ opParams' \in [Scopes -> Params \cup {NoParams}]
        /\ state' \in [Scopes -> States] /\ log' \in [Scopes -> Seq(LogEntries)]
        /\ rev' \in [Calls -> Nat] /\ pc' \in [Calls -> PCs] /\ result' \in [Calls -> Results]
    BY <2>2, TransitionTyped
  <2> QED BY <2>1, <2>3 DEF TypeOK, outside
<1>2. ASSUME NEW c \in Calls
      PROVE  Admit(c) \/ DenyApproval(c) \/ Enter(c) => TypeOK'
  <2>0. ScopeOf[c] \in Scopes /\ ParamsOf[c] \in Params
    BY ConstantsAssumption
  <2>1. \A n, x : n \in PCs /\ x \in Results /\ Goto(c, n, x) =>
          pc' \in [Calls -> PCs] /\ result' \in [Calls -> Results]
    BY DEF TypeOK, Goto
  <2>2. Reserve(ScopeOf[c], ParamsOf[c]) \/ opParams' = opParams =>
          opParams' \in [Scopes -> Params \cup {NoParams}]
    BY <2>0 DEF Reserve, TypeOK
  <2>6. AnswerFromRow(ScopeOf[c]) \in Results
    BY DEF AnswerFromRow, KnownAnswer, Results
  <2>3. ASSUME Admit(c) PROVE TypeOK'
    <3>1. \E n \in {"done", "admitted"}, x \in Results : Goto(c, n, x)
      BY <2>3, <2>6 DEF Admit, Finish, Results
    <3> QED BY <2>1, <2>2, <2>3, <3>1 DEF Admit, TypeOK, outside, PCs
  <2>4. ASSUME DenyApproval(c) PROVE TypeOK'
    <3>1. Goto(c, "done", "blocked")
      BY <2>4 DEF DenyApproval, Finish
    <3> QED BY <2>1, <2>4, <3>1 DEF DenyApproval, TypeOK, outside, ledger, PCs, Results
  <2>5. ASSUME Enter(c) PROVE TypeOK'
    <3>1. \E n \in {"done", "reserved", "resumeObserve", "resumeBegin"}, x \in Results :
            Goto(c, n, x)
      BY <2>5, <2>6 DEF Enter, Finish, Results
    <3>2. rev' \in [Calls -> Nat]
      <4>1. Len(log[ScopeOf[c]]) \in Nat
        BY <2>0 DEF TypeOK
      <4>2. rev' = rev \/ rev' = [rev EXCEPT ![c] = Len(log[ScopeOf[c]])]
        BY <2>5 DEF Enter, LoadedRevision
      <4> QED BY <4>1, <4>2 DEF TypeOK
    <3>3. Reserve(ScopeOf[c], ParamsOf[c]) \/ opParams' = opParams
      BY <2>5 DEF Enter
    <3>4. UNCHANGED <<contract, state, log, adapterOk, observed, aborted, outside>>
      BY <2>5 DEF Enter
    <3>5. pc' \in [Calls -> PCs] /\ result' \in [Calls -> Results]
      BY <2>1, <3>1 DEF PCs
    <3> QED BY <2>2, <3>2, <3>3, <3>4, <3>5 DEF TypeOK, outside
  <2> QED BY <2>3, <2>4, <2>5
<1>3. ASSUME NEW c \in Calls, LaunchEffect(c) \/ EffectReturns(c) \/ EffectThrows(c)
      PROVE  TypeOK'
  <2>0. ScopeOf[c] \in Scopes
    BY ConstantsAssumption
  <2>1. CASE LaunchEffect(c)
    BY <2>0, <2>1 DEF LaunchEffect, Goto, TypeOK, ledger, PCs, Results
  <2>2. CASE EffectReturns(c)
    <3>1. CASE Goto(c, "rejected", "none") /\ UNCHANGED <<adapterOk, world>>
      BY <2>2, <3>1 DEF EffectReturns, Goto, TypeOK, ledger, PCs, Results
    <3>2. ASSUME NEW ok \in BOOLEAN, NEW done \in BOOLEAN,
                 Goto(c, "settled", "none"),
                 adapterOk' = [adapterOk EXCEPT ![c] = ok],
                 world' = [world EXCEPT ![ScopeOf[c]] = done]
          PROVE  TypeOK'
      <4>1. adapterOk' \in [Calls -> BOOLEAN] /\ world' \in [Scopes -> BOOLEAN]
        BY <3>2 DEF TypeOK
      <4> QED BY <2>2, <3>2, <4>1 DEF EffectReturns, Goto, TypeOK, ledger, PCs, Results
    <3> QED BY <2>2, <3>1, <3>2 DEF EffectReturns
  <2>3. CASE EffectThrows(c)
    BY <2>0, <2>3 DEF EffectThrows, Finish, Goto, TypeOK, ledger, PCs, Results
  <2> QED BY <1>3, <2>1, <2>2, <2>3
<1>4. ASSUME NEW c \in Calls,
             \/ ObservePostState(c) \/ ObserveCurrentPostState(c) \/ AdapterThrows(c)
             \/ Compensate(c) \/ VerifyCompensation(c)
      PROVE  TypeOK'
  <2>0. ScopeOf[c] \in Scopes
    BY ConstantsAssumption
  <2>1. CASE ObservePostState(c) \/ ObserveCurrentPostState(c)
    <3>1. PICK from \in PCs, to \in PCs : Observe(c, from, to)
      BY <2>1 DEF ObservePostState, ObserveCurrentPostState, PCs
    <3>2. PICK match \in {FALSE, world[ScopeOf[c]]} :
            observed' = [observed EXCEPT ![c] = match]
      BY <3>1 DEF Observe
    <3>3. match \in BOOLEAN
      BY <2>0 DEF TypeOK
    <3>4. observed' \in [Calls -> BOOLEAN]
      BY <3>2, <3>3 DEF TypeOK
    <3>5. pc' \in [Calls -> PCs] /\ result' \in [Calls -> Results]
      BY <3>1 DEF Observe, Goto, TypeOK, Results
    <3> QED BY <3>1, <3>4, <3>5 DEF Observe, TypeOK, ledger, outside
  <2>2. CASE AdapterThrows(c)
    <3>1. PICK left \in {world[ScopeOf[c]], world[ScopeOf[c]] /\ pc[c] # "compensate"} :
            world' = [world EXCEPT ![ScopeOf[c]] = left]
      BY <2>2 DEF AdapterThrows
    <3>2. left \in BOOLEAN
      BY <2>0 DEF TypeOK
    <3>3. world' \in [Scopes -> BOOLEAN]
      BY <3>1, <3>2 DEF TypeOK
    <3> QED BY <2>0, <2>2, <3>3 DEF AdapterThrows, Finish, Goto, TypeOK, ledger, PCs, Results
  <2>3. CASE Compensate(c)
    <3>1. PICK ok \in BOOLEAN, left \in {FALSE, world[ScopeOf[c]]} :
            /\ adapterOk' = [adapterOk EXCEPT ![c] = ok]
            /\ world' = [world EXCEPT ![ScopeOf[c]] = left]
            /\ Goto(c, IF ok THEN "verifyCompensation" ELSE "completeCompensation", "none")
      BY <2>3 DEF Compensate
    <3>2. left \in BOOLEAN
      BY <2>0 DEF TypeOK
    <3>3. world' \in [Scopes -> BOOLEAN] /\ adapterOk' \in [Calls -> BOOLEAN]
      BY <3>1, <3>2 DEF TypeOK
    <3>4. pc' \in [Calls -> PCs] /\ result' \in [Calls -> Results]
      BY <3>1 DEF Goto, TypeOK, PCs, Results
    <3> QED BY <2>3, <3>3, <3>4 DEF Compensate, TypeOK, ledger
  <2>4. CASE VerifyCompensation(c)
    BY <2>0, <2>4 DEF VerifyCompensation, Goto, TypeOK, ledger, outside, PCs, Results
  <2> QED BY <1>4, <2>1, <2>2, <2>3, <2>4
<1>5. ASSUME NEW c \in Calls, Abort(c) PROVE TypeOK'
  BY <1>5 DEF Abort, TypeOK, ledger, outside
<1>6. ASSUME Crash PROVE TypeOK'
  BY <1>6, ConstantsAssumption DEF Crash, TypeOK, ledger, PCs
<1>7. ASSUME NEW s \in Scopes, EffectLands(s) PROVE TypeOK'
  BY <1>7 DEF EffectLands, TypeOK, ledger
<1> QED BY <1>0, <1>1, <1>2, <1>3, <1>4, <1>5, <1>6, <1>7 DEF Next, CallStep, Committing

\* Every reachable state of the ledger and its callers is well typed.
THEOREM TypeCorrect == Spec => []TypeOK
<1>1. Init => TypeOK
  BY DEF Init, TypeOK, States, PCs, Results
<1>2. TypeOK /\ [Next]_vars => TypeOK'
  BY TypeStep
<1> QED BY <1>1, <1>2, PTL DEF Spec

-----------------------------------------------------------------------------
\* No effect is launched twice.

\* An empty ledger satisfies the invariant.
LEMMA InitInv == Init => IInv
<1> SUFFICES ASSUME Init PROVE IInv
  OBVIOUS
<1>1. TypeOK
  BY DEF Init, TypeOK, States, PCs, Results
<1> QED BY <1>1, ConstantsAssumption
      DEF IInv, Init, ReservedIsEmpty, StartsHavePassed, CallsInStep, LaunchesInStep,
          LandingInStep, HasEvent, TERMINAL_STATES, Executing, AfterRecord

\* A commit preserves the invariant.
LEMMA CommitStep ==
  ASSUME IInv, TypeOK', NEW c \in Calls, NEW r \in ReceiptType, NEW next \in PCs, NEW res \in Results,
         Transition(c, r, next, res), CommitKind(c, r, next), UNCHANGED outside
  PROVE  IInv'
<1> DEFINE s == ScopeOf[c]
<1>0. /\ TypeOK /\ s \in Scopes /\ c # NoCall
      /\ UNCHANGED <<launches, landing>>
      /\ log[s] \in Seq(LogEntries) /\ Len(log[s]) \in Nat
  BY ConstantsAssumption DEF IInv, TypeOK, outside
<1>1. CASE Refused(c)
  <2>1. UNCHANGED <<state, log, rev>> /\ pc' = [pc EXCEPT ![c] = "done"]
    BY <1>1 DEF Refused, Finish, Goto
  <2>2. \A d \in Calls : pc'[d] = IF d = c THEN "done" ELSE pc[d]
    BY <2>1, <1>0 DEF TypeOK
  <2>3. ReservedIsEmpty' /\ LaunchesInStep'
    BY <1>0, <2>1 DEF IInv, ReservedIsEmpty, LaunchesInStep, HasEvent
  <2>4. StartsHavePassed' /\ LandingInStep'
    BY <1>0, <2>1, <2>2 DEF IInv, StartsHavePassed, LandingInStep, BeforeStart
  <2>5. CallsInStep'
    BY <1>0, <2>1, <2>2 DEF IInv, CallsInStep, OwnsRow, Executing, AfterRecord
  <2> QED BY <2>3, <2>4, <2>5 DEF IInv
<1>2. CASE Replayed(c, r, next, res)
  <2>1. /\ UNCHANGED <<state, log>> /\ pc' = [pc EXCEPT ![c] = next]
        /\ rev' = [rev EXCEPT ![c] = @ + 1]
        /\ Len(log[s]) = rev[c] + 1 /\ IsReceiptOf(log[s][Len(log[s])], r)
    BY <1>2 DEF Replayed, Goto
  <2>2. \A d \in Calls : /\ pc'[d] = IF d = c THEN next ELSE pc[d]
                         /\ d # c => rev'[d] = rev[d]
    BY <2>1, <1>0 DEF TypeOK
  <2>3. pc[c] \notin {"settled", "rejected"}
    BY <1>0, <2>1 DEF IInv, CallsInStep, OwnsRow, Executing, TypeOK
  <2>4. r # StartReceipt(c) \/ pc[c] # "reserved"
    <3> SUFFICES ASSUME r = StartReceipt(c), pc[c] = "reserved" PROVE FALSE
      OBVIOUS
    <3>1. Len(log[s]) \in 1 .. Len(log[s])
      BY <1>0, <2>1 DEF IInv, CallsInStep
    <3>2. log[s][Len(log[s])].event = "START_EFFECT" /\ log[s][Len(log[s])].by = c
      BY <2>1 DEF IsReceiptOf, StartReceipt, Receipt
    <3> QED BY <1>0, <3>1, <3>2 DEF IInv, StartsHavePassed, BeforeStart
  <2>5. next \in (AfterRecord \ {"recorded"}) \cup {"done"}
        /\ (next # "done" => pc[c] \in AfterRecord)
    BY <2>3, <2>4 DEF CommitKind, AfterRecord
  <2>6. ReservedIsEmpty' /\ LaunchesInStep'
    BY <1>0, <2>1 DEF IInv, ReservedIsEmpty, LaunchesInStep, HasEvent
  <2>7. StartsHavePassed' /\ LandingInStep'
    <3>1. next \notin BeforeStart
      BY <2>5 DEF BeforeStart, AfterRecord
    <3>2. StartsHavePassed'
      BY <1>0, <2>1, <2>2, <3>1 DEF IInv, StartsHavePassed
    <3>3. pc[c] \notin {"done", "dead"}
      BY DEF CommitKind, AfterRecord
    <3> QED BY <1>0, <2>1, <2>2, <3>2, <3>3 DEF IInv, LandingInStep
  <2>8. CallsInStep'
    <3>1. ASSUME NEW d \in Calls, d # c
          PROVE  /\ pc'[d] = "reserved" => rev'[d] = 0
                 /\ pc'[d] \in Executing => OwnsRow(d)'
                 /\ pc'[d] = "recorded" => rev'[d] = 2
                 /\ pc'[d] \in AfterRecord => launches'[ScopeOf[d]] = 1
      BY <1>0, <2>1, <2>2, <3>1 DEF IInv, CallsInStep, OwnsRow
    <3>2. /\ pc'[c] \notin Executing \cup {"reserved", "recorded"}
          /\ pc'[c] \in AfterRecord => launches'[s] = 1
      BY <1>0, <2>2, <2>5 DEF IInv, CallsInStep, Executing, AfterRecord
    <3> QED BY <3>1, <3>2 DEF CallsInStep
  <2> QED BY <2>6, <2>7, <2>8 DEF IInv
<1>3. CASE Applied(c, r, next, res)
  <2>1. PICK n \in States :
          /\ <<state[s], r.event, n>> \in TRANSITIONS
          /\ state' = [state EXCEPT ![s] = n]
          /\ log' = [log EXCEPT ![s] =
                       Append(@, [event |-> r.event, note |-> r.note, by |-> r.by,
                                  previousState |-> state[s], nextState |-> n])]
    BY <1>3 DEF Applied
  <2>2. /\ Len(log[s]) = rev[c] /\ pc' = [pc EXCEPT ![c] = next]
        /\ rev' = [rev EXCEPT ![c] = @ + 1]
    BY <1>3 DEF Applied, Goto, RevisionMatches
  <2>3. \A d \in Calls : /\ pc'[d] = IF d = c THEN next ELSE pc[d]
                         /\ rev'[d] = IF d = c THEN rev[c] + 1 ELSE rev[d]
    BY <1>0, <2>2 DEF TypeOK
  <2>4. /\ \A x \in Scopes : x # s => state'[x] = state[x] /\ log'[x] = log[x]
        /\ state'[s] = n /\ Len(log'[s]) = Len(log[s]) + 1
        /\ log'[s] # <<>>
        /\ \A i \in 1 .. Len(log[s]) : log'[s][i] = log[s][i]
        /\ log'[s][Len(log[s]) + 1].event = r.event
        /\ log'[s][Len(log[s]) + 1].by = r.by
    <3> DEFINE e == [event |-> r.event, note |-> r.note, by |-> r.by,
                     previousState |-> state[s], nextState |-> n]
    <3>1. e \in LogEntries
      BY <1>0, <2>1 DEF LogEntries, ReceiptType, TypeOK
    <3>2. e.event = r.event /\ e.by = r.by
      OBVIOUS
    <3>3. /\ \A x \in Scopes : x # s => state'[x] = state[x] /\ log'[x] = log[x]
          /\ state'[s] = n /\ log'[s] = Append(log[s], e)
      BY <1>0, <2>1 DEF TypeOK
    <3> HIDE DEF e
    <3>4. /\ Len(Append(log[s], e)) = Len(log[s]) + 1
          /\ Append(log[s], e)[Len(log[s]) + 1] = e
          /\ \A i \in 1 .. Len(log[s]) : Append(log[s], e)[i] = log[s][i]
      BY <1>0, <3>1
    <3>5. Append(log[s], e) # <<>>
      <4>1. Len(<<>>) = 0
        OBVIOUS
      <4>2. Len(log[s]) + 1 # 0
        BY <1>0
      <4> QED BY <3>4, <4>1, <4>2
    <3> QED BY <3>2, <3>3, <3>4, <3>5
  \* Only the owner of the row moves it out of EFFECT_STARTED.
  <2>5. state[s] = "EFFECT_STARTED" => pc[c] \in {"started", "rejected", "settled"} \/ Len(log[s]) # 1
    <3> SUFFICES ASSUME state[s] = "EFFECT_STARTED", Len(log[s]) = 1
                 PROVE  pc[c] \in {"started", "rejected", "settled"}
      OBVIOUS
    <3>1. r.event \in {"RECORD_REJECTION", "RECORD_EFFECT", "REQUEST_CANCEL"}
      BY <2>1 DEF TRANSITIONS
    <3>2. rev[c] = 1
      BY <2>2
    <3>3. pc[c] # "reserved" /\ pc[c] # "recorded"
      BY <3>2 DEF IInv, CallsInStep
    <3> QED BY <3>1, <3>3 DEF CommitKind, StartReceipt, Receipt
  <2>6. /\ n # "RESERVED"
        /\ r.event = "START_EFFECT" => state[s] = "RESERVED" /\ n = "EFFECT_STARTED"
        /\ r.event = "RECORD_EFFECT" => n = "EFFECT_RECORDED"
        /\ r.event = "REQUEST_CANCEL" => n = "CANCEL_REQUESTED"
    BY <2>1 DEF TRANSITIONS
  <2>7. pc[c] \in Executing => OwnsRow(c)
    BY DEF IInv, CallsInStep
  <2>8. ReservedIsEmpty'
    BY <1>0, <2>4, <2>6 DEF IInv, ReservedIsEmpty
  <2>9. StartsHavePassed'
    <3>1. next \notin BeforeStart
      BY DEF CommitKind, BeforeStart, AfterRecord
    <3>2. r.event = "START_EFFECT" => r.by = c
      BY DEF CommitKind, StartReceipt, Receipt
    <3>3. \A x \in Scopes : \A i \in 1 .. Len(log[x]) :
            log[x][i].event = "START_EFFECT" =>
              log[x][i].by \in Calls /\ pc'[log[x][i].by] \notin BeforeStart
      BY <2>3, <3>1 DEF IInv, StartsHavePassed
    <3>4. \A i \in 1 .. Len(log'[s]) : i \in 1 .. Len(log[s]) \/ i = Len(log[s]) + 1
      BY <1>0, <2>4
    <3>5. \A i \in 1 .. Len(log'[s]) :
            log'[s][i].event = "START_EFFECT" =>
              log'[s][i].by \in Calls /\ pc'[log'[s][i].by] \notin BeforeStart
      <4> SUFFICES ASSUME NEW i \in 1 .. Len(log'[s]), log'[s][i].event = "START_EFFECT"
                   PROVE  log'[s][i].by \in Calls /\ pc'[log'[s][i].by] \notin BeforeStart
        OBVIOUS
      <4>1. CASE i \in 1 .. Len(log[s])
        BY <1>0, <2>4, <3>3, <4>1
      <4>2. CASE i = Len(log[s]) + 1
        BY <2>3, <2>4, <3>1, <3>2, <4>2
      <4> QED BY <3>4, <4>1, <4>2
    <3> QED BY <2>4, <3>3, <3>5 DEF StartsHavePassed
  <2>10. LandingInStep'
    <3> SUFFICES ASSUME NEW x \in landing
                 PROVE  /\ state'[x] = "EFFECT_STARTED" /\ Len(log'[x]) = 1 /\ launches'[x] = 1
                        /\ log'[x][1].by \in Calls /\ pc'[log'[x][1].by] \in {"done", "dead"}
      BY <1>0 DEF LandingInStep
    <3>1. x \in Scopes /\ pc[c] \notin {"done", "dead"}
      BY <1>0 DEF TypeOK, CommitKind, AfterRecord
    <3>2. /\ state[x] = "EFFECT_STARTED" /\ Len(log[x]) = 1 /\ launches[x] = 1
          /\ log[x][1].by \in Calls /\ pc[log[x][1].by] \in {"done", "dead"}
      BY DEF IInv, LandingInStep
    <3>3. x # s
      BY <2>5, <2>7, <3>1, <3>2 DEF Executing, OwnsRow
    <3> QED BY <1>0, <2>3, <2>4, <3>1, <3>2, <3>3
  <2>11. LaunchesInStep'
    <3>1. ASSUME NEW x \in Scopes, x # s
          PROVE  /\ launches'[x] \in {0, 1}
                 /\ log'[x] = <<>> => launches'[x] = 0
                 /\ state'[x] \in TERMINAL_STATES \cup {"EFFECT_RECORDED", "VERIFYING",
                                     "VERIFY_FAILED", "COMPENSATING"} => launches'[x] = 1
                 /\ HasEvent(x, "RECORD_EFFECT")' => launches'[x] = 1
      BY <1>0, <2>4, <3>1 DEF IInv, LaunchesInStep, HasEvent
    <3>2. n \in TERMINAL_STATES \cup {"EFFECT_RECORDED", "VERIFYING", "VERIFY_FAILED",
                                      "COMPENSATING"}
             \/ r.event = "RECORD_EFFECT" => launches[s] = 1
      <4>1. CASE pc[c] \in AfterRecord
        BY <4>1 DEF IInv, CallsInStep
      <4>2. CASE pc[c] \in {"rejected", "settled"}
        BY <2>7, <4>2 DEF Executing, OwnsRow
      <4>3. CASE pc[c] \in {"reserved", "started"}
        <5>1. r.event \in {"START_EFFECT", "REQUEST_CANCEL"}
          BY <4>3 DEF CommitKind, StartReceipt, Receipt, AfterRecord
        <5> QED BY <2>6, <5>1 DEF TERMINAL_STATES
      <4> QED BY <4>1, <4>2, <4>3 DEF CommitKind, AfterRecord
    <3>3. HasEvent(s, "RECORD_EFFECT")' => HasEvent(s, "RECORD_EFFECT") \/ r.event = "RECORD_EFFECT"
      BY <1>0, <2>4 DEF HasEvent
    <3>4. launches[s] \in {0, 1} /\ (HasEvent(s, "RECORD_EFFECT") => launches[s] = 1)
      BY <1>0 DEF IInv, LaunchesInStep
    <3> QED BY <1>0, <2>4, <3>1, <3>2, <3>3, <3>4 DEF LaunchesInStep
  <2>12. CallsInStep'
    <3>1. ASSUME NEW d \in Calls, d # c
          PROVE  /\ pc'[d] = "reserved" => rev'[d] = 0
                 /\ pc'[d] \in Executing => OwnsRow(d)'
                 /\ pc'[d] = "recorded" => rev'[d] = 2
                 /\ pc'[d] \in AfterRecord => launches'[ScopeOf[d]] = 1
      <4>1. pc'[d] = pc[d] /\ rev'[d] = rev[d] /\ ScopeOf[d] \in Scopes
        BY <2>3, <3>1, ConstantsAssumption
      <4>2. ASSUME pc[d] \in Executing PROVE ScopeOf[d] # s
        <5>1. OwnsRow(d)
          BY <4>2 DEF IInv, CallsInStep
        <5> QED BY <2>5, <2>7, <3>1, <5>1 DEF OwnsRow, Executing
      <4>3. pc[d] \in Executing => OwnsRow(d)'
        BY <1>0, <2>4, <4>1, <4>2 DEF IInv, CallsInStep, OwnsRow
      <4> QED BY <1>0, <4>1, <4>3 DEF IInv, CallsInStep
    <3>2. CASE pc[c] = "reserved" /\ r = StartReceipt(c) /\ next = "started"
      <4>1. r.event = "START_EFFECT" /\ r.by = c
        BY <3>2 DEF StartReceipt, Receipt
      <4>2. log[s] = <<>> /\ launches[s] = 0 /\ rev[c] = 0
        BY <1>0, <2>6, <3>2, <4>1 DEF IInv, ReservedIsEmpty, LaunchesInStep, CallsInStep
      <4>3. OwnsRow(c)'
        BY <1>0, <2>2, <2>3, <2>4, <2>6, <3>2, <4>1, <4>2 DEF OwnsRow
      <4> QED BY <2>3, <3>1, <3>2, <4>3 DEF CallsInStep, AfterRecord
    <3>3. CASE next = "done"
      BY <2>3, <3>1, <3>3 DEF CallsInStep, Executing, AfterRecord
    <3>4. CASE pc[c] = "settled" /\ next = "recorded"
      BY <1>0, <2>3, <2>7, <3>1, <3>4 DEF CallsInStep, Executing, AfterRecord, OwnsRow
    <3>5. CASE pc[c] \in AfterRecord /\ next \in AfterRecord \ {"recorded"}
      <4>1. launches[s] = 1
        BY <3>5 DEF IInv, CallsInStep
      <4> QED BY <1>0, <2>3, <3>1, <3>5, <4>1 DEF CallsInStep, Executing, AfterRecord
    <3> QED BY <3>2, <3>3, <3>4, <3>5 DEF CommitKind, AfterRecord
  <2> QED BY <2>8, <2>9, <2>10, <2>11, <2>12 DEF IInv
<1> QED BY <1>0, <1>1, <1>2, <1>3, TransitionCases

\* A call that moves without touching the ledger preserves the invariant if
\* the program point it reaches is one its row and launch count justify.
LEMMA MoveStep ==
  ASSUME IInv, TypeOK', NEW c \in Calls, NEW next \in PCs,
         UNCHANGED <<state, log, launches>>, pc' = [pc EXCEPT ![c] = next],
         \A d \in Calls : d # c => rev'[d] = rev[d],
         pc[c] \notin {"done", "dead"},
         \/ next \in BeforeStart /\ pc[c] \in BeforeStart /\ (next = "reserved" => rev'[c] = 0)
         \/ next \in Executing \ {"started"} /\ pc[c] \in Executing \ {"started"} /\ rev' = rev
         \/ next \in AfterRecord \ {"recorded"} /\ launches[ScopeOf[c]] = 1
         \/ next = "done",
         \/ landing' = landing
         \/ pc[c] = "effect" /\ next = "done" /\ landing' = landing \cup {ScopeOf[c]}
  PROVE  IInv'
<1> DEFINE s == ScopeOf[c]
<1>0. TypeOK /\ s \in Scopes
  BY ConstantsAssumption DEF IInv
<1>1. \A d \in Calls : pc'[d] = IF d = c THEN next ELSE pc[d]
  BY <1>0 DEF TypeOK
<1>2. ReservedIsEmpty' /\ LaunchesInStep'
  BY DEF IInv, ReservedIsEmpty, LaunchesInStep, HasEvent
<1>3. StartsHavePassed'
  <2>1. next \in BeforeStart => pc[c] \in BeforeStart
    BY DEF BeforeStart, Executing, AfterRecord
  <2> QED BY <1>1, <2>1 DEF IInv, StartsHavePassed
<1>4. CallsInStep'
  <2>1. ASSUME NEW d \in Calls, d # c
        PROVE  /\ pc'[d] = "reserved" => rev'[d] = 0
               /\ pc'[d] \in Executing => OwnsRow(d)'
               /\ pc'[d] = "recorded" => rev'[d] = 2
               /\ pc'[d] \in AfterRecord => launches'[ScopeOf[d]] = 1
    BY <1>1, <2>1 DEF IInv, CallsInStep, OwnsRow
  <2>2. CASE next \in BeforeStart /\ (next = "reserved" => rev'[c] = 0)
    BY <1>1, <2>1, <2>2 DEF CallsInStep, BeforeStart, Executing, AfterRecord
  <2>3. CASE next \in Executing \ {"started"} /\ pc[c] \in Executing \ {"started"} /\ rev' = rev
    <3>1. OwnsRow(c)
      BY <2>3 DEF IInv, CallsInStep
    <3>2. OwnsRow(c)'
      BY <1>1, <2>3, <3>1 DEF OwnsRow
    <3> QED BY <1>1, <2>1, <2>3, <3>2 DEF CallsInStep, Executing, AfterRecord
  <2>4. CASE next \in AfterRecord \ {"recorded"} /\ launches[s] = 1
    BY <1>1, <2>1, <2>4 DEF CallsInStep, Executing, AfterRecord
  <2>5. CASE next = "done"
    BY <1>1, <2>1, <2>5 DEF CallsInStep, Executing, AfterRecord
  <2> QED BY <2>2, <2>3, <2>4, <2>5
<1>5. LandingInStep'
  <2>1. \A x \in landing :
          /\ state'[x] = "EFFECT_STARTED" /\ Len(log'[x]) = 1 /\ launches'[x] = 1
          /\ log'[x][1].by \in Calls /\ pc'[log'[x][1].by] \in {"done", "dead"}
    BY <1>1 DEF IInv, LandingInStep
  <2>2. CASE landing' = landing
    BY <2>1, <2>2 DEF LandingInStep
  <2>3. CASE pc[c] = "effect" /\ next = "done" /\ landing' = landing \cup {s}
    <3>1. OwnsRow(c) /\ launches[s] = 1
      BY <2>3 DEF IInv, CallsInStep, Executing, OwnsRow
    <3> QED BY <1>1, <2>1, <2>3, <3>1 DEF LandingInStep, OwnsRow
  <2> QED BY <2>2, <2>3
<1> QED BY <1>2, <1>3, <1>4, <1>5 DEF IInv

\* Every step keeps the invariant.
LEMMA InvStep ==
  ASSUME IInv, [Next]_vars
  PROVE  IInv'
<1> USE DEF PCs
<1>0. TypeOK /\ TypeOK'
  BY TypeStep DEF IInv
<1>1. CASE UNCHANGED vars
  BY <1>0, <1>1 DEF IInv, vars, ledger, outside, ReservedIsEmpty, StartsHavePassed,
                    CallsInStep, LaunchesInStep, LandingInStep, OwnsRow, HasEvent
<1>2. ASSUME NEW c \in Calls, Committing(c) PROVE IInv'
  <2>1. PICK r \in ReceiptType, next \in PCs, res \in Results :
          Transition(c, r, next, res) /\ CommitKind(c, r, next)
    BY <1>2, CommittingIsTransition
  <2>2. UNCHANGED outside
    BY <1>2, CommittingIsTransition
  <2> QED BY <1>0, <2>1, <2>2, CommitStep
<1>3. ASSUME NEW c \in Calls, Admit(c) PROVE IInv'
  <2>1. PICK next \in {"done", "admitted"} : pc' = [pc EXCEPT ![c] = next]
    BY <1>3 DEF Admit, Finish, Goto
  <2>2. UNCHANGED <<state, log, rev, launches, landing>> /\ pc[c] = "idle"
    BY <1>3 DEF Admit, outside
  <2> QED BY <1>0, <2>1, <2>2, MoveStep DEF BeforeStart
<1>4. ASSUME NEW c \in Calls, DenyApproval(c) PROVE IInv'
  <2>1. /\ UNCHANGED <<state, log, rev, launches, landing>>
        /\ pc[c] = "admitted" /\ pc' = [pc EXCEPT ![c] = "done"]
    BY <1>4 DEF DenyApproval, ledger, outside, Finish, Goto
  <2> QED BY <1>0, <2>1, MoveStep
<1>5. ASSUME NEW c \in Calls, Enter(c) PROVE IInv'
  <2> DEFINE s == ScopeOf[c]
  <2>0. s \in Scopes
    BY ConstantsAssumption
  <2>1. /\ UNCHANGED <<state, log, launches, landing>>
        /\ pc[c] \in {"idle", "admitted"}
        /\ rev' = rev \/ rev' = [rev EXCEPT ![c] = LoadedRevision(s)]
    BY <1>5 DEF Enter, outside
  <2>2. \A d \in Calls : d # c => rev'[d] = rev[d]
    BY <1>0, <2>1 DEF TypeOK
  <2>3. \/ pc' = [pc EXCEPT ![c] = "done"]
        \/ /\ pc' = [pc EXCEPT ![c] = "reserved"] /\ state[s] = "RESERVED"
           /\ rev' = [rev EXCEPT ![c] = LoadedRevision(s)]
        \/ /\ \E next \in {"resumeObserve", "resumeBegin"} : pc' = [pc EXCEPT ![c] = next]
           /\ CanResume(s)
    BY <1>5 DEF Enter, Finish, Goto
  <2>4. CASE pc' = [pc EXCEPT ![c] = "done"]
    BY <1>0, <2>1, <2>2, <2>4, MoveStep
  <2>5. CASE /\ pc' = [pc EXCEPT ![c] = "reserved"] /\ state[s] = "RESERVED"
             /\ rev' = [rev EXCEPT ![c] = LoadedRevision(s)]
    <3>1. Len(log[s]) = 0
      BY <2>0, <2>5 DEF IInv, ReservedIsEmpty
    <3>2. rev'[c] = 0
      BY <1>0, <2>5, <3>1 DEF LoadedRevision, TypeOK
    <3> QED BY <1>0, <2>1, <2>2, <2>5, <3>2, MoveStep DEF BeforeStart
  <2>6. ASSUME NEW next \in {"resumeObserve", "resumeBegin"},
               pc' = [pc EXCEPT ![c] = next], CanResume(s)
        PROVE  IInv'
    <3>1. launches[s] = 1
      BY <2>0, <2>6 DEF CanResume, IInv, LaunchesInStep
    <3>2. next \in AfterRecord \ {"recorded"} /\ next \in PCs
      BY DEF AfterRecord
    <3> QED BY <1>0, <2>1, <2>2, <2>6, <3>1, <3>2, MoveStep
  <2> QED BY <2>3, <2>4, <2>5, <2>6
<1>6. ASSUME NEW c \in Calls, LaunchEffect(c) PROVE IInv'
  <2> DEFINE s == ScopeOf[c]
  <2>0. s \in Scopes
    BY ConstantsAssumption
  <2>1. /\ UNCHANGED <<state, log, rev, landing>> /\ pc[c] = "started"
        /\ pc' = [pc EXCEPT ![c] = "effect"] /\ launches' = [launches EXCEPT ![s] = @ + 1]
    BY <1>6 DEF LaunchEffect, ledger, Goto
  <2>2. OwnsRow(c) /\ launches[s] = 0
    BY <2>1 DEF IInv, CallsInStep, Executing, OwnsRow
  <2>3. /\ \A d \in Calls : pc'[d] = IF d = c THEN "effect" ELSE pc[d]
        /\ \A x \in Scopes : launches'[x] = IF x = s THEN 1 ELSE launches[x]
    BY <1>0, <2>0, <2>1, <2>2 DEF TypeOK
  <2>4. ReservedIsEmpty'
    BY <2>1 DEF IInv, ReservedIsEmpty
  <2>5. StartsHavePassed'
    BY <2>1, <2>3 DEF IInv, StartsHavePassed, BeforeStart
  <2>6. LaunchesInStep'
    <3>1. log[s] # <<>>
      BY <2>0, <2>2 DEF IInv, OwnsRow, ReservedIsEmpty
    <3> QED BY <2>1, <2>3, <3>1 DEF IInv, LaunchesInStep, HasEvent
  <2>7. LandingInStep'
    BY <1>0, <2>1, <2>2, <2>3 DEF IInv, LandingInStep, OwnsRow, TypeOK
  <2>8. CallsInStep'
    <3>1. \A d \in Calls : pc[d] \in Executing /\ ScopeOf[d] = s => d = c
      BY <2>2 DEF IInv, CallsInStep, OwnsRow
    <3>2. \A d \in Calls : ScopeOf[d] \in Scopes
      BY ConstantsAssumption
    <3>3. ASSUME NEW d \in Calls, d # c
          PROVE  /\ pc'[d] = "reserved" => rev'[d] = 0
                 /\ pc'[d] \in Executing => OwnsRow(d)'
                 /\ pc'[d] = "recorded" => rev'[d] = 2
                 /\ pc'[d] \in AfterRecord => launches'[ScopeOf[d]] = 1
      BY <2>1, <2>3, <3>1, <3>2, <3>3 DEF IInv, CallsInStep, OwnsRow
    <3>4. OwnsRow(c)'
      BY <2>0, <2>1, <2>2, <2>3 DEF OwnsRow
    <3> QED BY <2>3, <3>3, <3>4 DEF CallsInStep, AfterRecord
  <2> QED BY <1>0, <2>4, <2>5, <2>6, <2>7, <2>8 DEF IInv
<1>7. ASSUME NEW c \in Calls, EffectReturns(c) PROVE IInv'
  <2>1. PICK next \in {"rejected", "settled"} : pc' = [pc EXCEPT ![c] = next]
    BY <1>7 DEF EffectReturns, Goto
  <2>2. UNCHANGED <<state, log, rev, launches, landing>> /\ pc[c] = "effect"
    BY <1>7 DEF EffectReturns, ledger
  <2> QED BY <1>0, <2>1, <2>2, MoveStep DEF Executing
<1>8. ASSUME NEW c \in Calls, EffectThrows(c) PROVE IInv'
  <2>1. /\ UNCHANGED <<state, log, rev, launches>> /\ landing' = landing \cup {ScopeOf[c]}
        /\ pc[c] = "effect" /\ pc' = [pc EXCEPT ![c] = "done"]
    BY <1>8 DEF EffectThrows, ledger, Finish, Goto
  <2> QED BY <1>0, <2>1, MoveStep
<1>9. ASSUME NEW c \in Calls,
             \/ ObservePostState(c) \/ ObserveCurrentPostState(c) \/ AdapterThrows(c)
             \/ Compensate(c) \/ VerifyCompensation(c)
      PROVE  IInv'
  <2>1. /\ UNCHANGED <<state, log, rev, launches, landing>>
        /\ pc[c] \in {"observe", "resumeObserve", "compensate", "verifyCompensation"}
    BY <1>9 DEF ObservePostState, ObserveCurrentPostState, Observe, AdapterThrows,
                Compensate, VerifyCompensation, ledger, outside
  <2>2. PICK next \in {"decide", "resumeDecide", "verifyCompensation", "completeCompensation",
                       "done"} : pc' = [pc EXCEPT ![c] = next]
    BY <1>9 DEF ObservePostState, ObserveCurrentPostState, Observe, AdapterThrows,
                Compensate, VerifyCompensation, Finish, Goto
  <2>3. launches[ScopeOf[c]] = 1
    BY <2>1 DEF IInv, CallsInStep, AfterRecord
  <2> QED BY <1>0, <2>1, <2>2, <2>3, MoveStep DEF AfterRecord
<1>10. ASSUME NEW c \in Calls, Abort(c) PROVE IInv'
  BY <1>0, <1>10 DEF Abort, IInv, ledger, outside, ReservedIsEmpty, StartsHavePassed,
                    CallsInStep, LaunchesInStep, LandingInStep, OwnsRow, HasEvent
<1>11. ASSUME Crash PROVE IInv'
  <2>1. /\ UNCHANGED <<state, log, rev, launches>>
        /\ \A c \in Calls : pc'[c] = IF Running(c) THEN "dead" ELSE pc[c]
        /\ landing' = landing \cup {ScopeOf[c] : c \in {d \in Calls : pc[d] = "effect"}}
    BY <1>11 DEF Crash, ledger
  <2>2. ReservedIsEmpty' /\ LaunchesInStep'
    BY <2>1 DEF IInv, ReservedIsEmpty, LaunchesInStep, HasEvent
  <2>3. StartsHavePassed'
    BY <2>1 DEF IInv, StartsHavePassed, BeforeStart
  <2>4. CallsInStep'
    BY <2>1 DEF CallsInStep, Running, Executing, AfterRecord
  <2>5. LandingInStep'
    <3> SUFFICES ASSUME NEW x \in landing'
                 PROVE  /\ state'[x] = "EFFECT_STARTED" /\ Len(log'[x]) = 1 /\ launches'[x] = 1
                        /\ log'[x][1].by \in Calls /\ pc'[log'[x][1].by] \in {"done", "dead"}
      BY DEF LandingInStep
    <3>1. CASE x \in landing
      BY <2>1, <3>1 DEF IInv, LandingInStep, Running
    <3>2. ASSUME NEW c \in Calls, pc[c] = "effect", x = ScopeOf[c]
          PROVE  /\ state'[x] = "EFFECT_STARTED" /\ Len(log'[x]) = 1 /\ launches'[x] = 1
                 /\ log'[x][1].by \in Calls /\ pc'[log'[x][1].by] \in {"done", "dead"}
      <4>1. OwnsRow(c) /\ launches[x] = 1
        BY <3>2 DEF IInv, CallsInStep, Executing, OwnsRow
      <4> QED BY <2>1, <3>2, <4>1 DEF OwnsRow, Running
    <3> QED BY <2>1, <3>1, <3>2
  <2> QED BY <1>0, <2>2, <2>3, <2>4, <2>5 DEF IInv
<1>12. ASSUME NEW s \in Scopes, EffectLands(s) PROVE IInv'
  BY <1>0, <1>12 DEF EffectLands, IInv, ledger, ReservedIsEmpty, StartsHavePassed,
                    CallsInStep, LaunchesInStep, LandingInStep, OwnsRow, HasEvent
<1> QED BY <1>1, <1>2, <1>3, <1>4, <1>5, <1>6, <1>7, <1>8, <1>9, <1>10, <1>11, <1>12
        DEF Next, CallStep, Committing

\* The inductive invariant holds throughout.
LEMMA Invariance == Spec => []IInv
BY InitInv, InvStep, PTL DEF Spec

\* For any number of calls, retries, recoveries and crashes, the effect of a
\* scope is launched at most once.
THEOREM NoSecondEffect == Spec => []AtMostOneEffect
<1>1. IInv => AtMostOneEffect
  BY DEF IInv, LaunchesInStep, AtMostOneEffect
<1> QED BY <1>1, Invariance, PTL

\* An effect whose caller is gone leaves its row at EFFECT_STARTED for good:
\* no other call can report it done, undone or cancelled.
THEOREM UnknownEffectOpen == Spec => []UnknownEffectStaysOpen
<1>1. IInv => UnknownEffectStaysOpen
  BY DEF IInv, LandingInStep, UnknownEffectStaysOpen
<1> QED BY <1>1, Invariance, PTL

-----------------------------------------------------------------------------
\* The ledger implements EffectOnce.

\* A step that leaves the state and the launch count alone is a stutter.
LEMMA SameRowSameOutcome ==
  ASSUME UNCHANGED <<state, launches>>
  PROVE  Outcome' = Outcome /\ launches' = launches
BY DEF Outcome

\* A commit settles, cancels or is invisible.
LEMMA CommitRefines ==
  ASSUME IInv, IInv', NEW c \in Calls, NEW r, NEW next, NEW res,
         Transition(c, r, next, res), UNCHANGED launches
  PROVE  Promise!Next \/ UNCHANGED <<launches, Outcome>>
<1> DEFINE s == ScopeOf[c]
<1>0. s \in Scopes /\ TypeOK /\ launches[s] \in {0, 1}
  BY ConstantsAssumption DEF IInv, LaunchesInStep
<1>1. CASE Replayed(c, r, next, res) \/ Refused(c)
  BY <1>1, SameRowSameOutcome DEF Replayed, Refused
<1>2. CASE Applied(c, r, next, res)
  <2>1. PICK n \in States : /\ <<state[s], r.event, n>> \in TRANSITIONS
                            /\ state' = [state EXCEPT ![s] = n]
    BY <1>2 DEF Applied
  <2>2. \A x \in Scopes : state'[x] = IF x = s THEN n ELSE state[x]
    BY <1>0, <2>1 DEF TypeOK
  <2>3. state[s] \notin TERMINAL_STATES
    BY <2>1 DEF TRANSITIONS, TERMINAL_STATES
  <2>4. n \in TERMINAL_STATES \cup {"EFFECT_RECORDED", "VERIFYING", "VERIFY_FAILED", "COMPENSATING"}
          => launches[s] = 1
    BY <1>0, <2>2 DEF IInv, LaunchesInStep
  <2>5. \A x \in Scopes : x # s => Outcome'[x] = Outcome[x]
    BY <2>2 DEF Outcome
  <2>6. CASE n \in TERMINAL_STATES
    <3>1. launches[s] = 1 /\ Outcome[s] = "OPEN" /\ Outcome'[s] = n
      BY <1>0, <2>2, <2>3, <2>4, <2>6 DEF Outcome
    <3>2. Outcome' = [Outcome EXCEPT ![s] = n]
      BY <2>5, <3>1 DEF Outcome
    <3>3. n \in Promise!Settled
      BY <2>6 DEF TERMINAL_STATES, Promise!Settled
    <3> QED BY <1>0, <3>1, <3>2, <3>3 DEF Promise!Next, Promise!Settle
  <2>7. CASE n = "CANCEL_REQUESTED" /\ launches[s] = 0
    <3>1. state[s] # "CANCEL_REQUESTED"
      BY <2>1, <2>7 DEF TRANSITIONS
    <3>2. Outcome[s] = "OPEN" /\ Outcome'[s] = "CANCELLED"
      BY <1>0, <2>2, <2>3, <2>7, <3>1 DEF Outcome, TERMINAL_STATES
    <3>3. Outcome' = [Outcome EXCEPT ![s] = "CANCELLED"]
      BY <2>5, <3>2 DEF Outcome
    <3> QED BY <1>0, <2>7, <3>2, <3>3 DEF Promise!Next, Promise!Cancel
  <2>8. CASE n \notin TERMINAL_STATES /\ ~(n = "CANCEL_REQUESTED" /\ launches[s] = 0)
    <3>1. ~(state[s] = "CANCEL_REQUESTED" /\ launches[s] = 0)
      BY <2>1, <2>4, <2>8 DEF TRANSITIONS, TERMINAL_STATES
    <3>2. Outcome[s] = "OPEN" /\ Outcome'[s] = "OPEN"
      BY <1>0, <2>2, <2>3, <2>8, <3>1 DEF Outcome
    <3>3. Outcome' = Outcome
      BY <2>5, <3>2 DEF Outcome
    <3> QED BY <3>3
  <2> QED BY <2>6, <2>7, <2>8
<1> QED BY <1>0, <1>1, <1>2, TransitionCases

\* The ledger, for any calls, scopes and crashes, implements the promise that an
\* effect is launched at most once, never after a cancellation, and that the
\* outcome of an operation is never revised.
THEOREM LedgerImplementsEffectOnce == Spec => ImplementsEffectOnce
<1>1. Init => Promise!Init
  BY DEF Init, Promise!Init, Outcome, TERMINAL_STATES
<1>2. ASSUME IInv, IInv', [Next]_vars
      PROVE  [Promise!Next]_(Promise!vars)
  <2> SUFFICES Promise!Next \/ UNCHANGED <<launches, Outcome>>
    BY DEF Promise!vars
  <2>1. ASSUME NEW c \in Calls, Committing(c)
        PROVE  Promise!Next \/ UNCHANGED <<launches, Outcome>>
    <3>1. PICK r \in ReceiptType, next \in PCs, res \in Results : Transition(c, r, next, res)
      BY <2>1, CommittingIsTransition
    <3>2. UNCHANGED launches
      BY <2>1, CommittingIsTransition DEF outside
    <3> QED BY <1>2, <3>1, <3>2, CommitRefines
  <2>2. ASSUME NEW c \in Calls, LaunchEffect(c)
        PROVE  Promise!Next \/ UNCHANGED <<launches, Outcome>>
    <3> DEFINE s == ScopeOf[c]
    <3>1. s \in Scopes /\ launches[s] = 0 /\ state[s] = "EFFECT_STARTED"
      BY <1>2, <2>2, ConstantsAssumption DEF LaunchEffect, IInv, CallsInStep, Executing, OwnsRow
    <3>2. launches' = [launches EXCEPT ![s] = 1] /\ state' = state
      BY <1>2, <2>2, <3>1 DEF LaunchEffect, ledger, IInv, TypeOK
    <3>3. Outcome[s] = "OPEN" /\ Outcome'[s] = "OPEN"
      BY <3>1, <3>2 DEF Outcome, TERMINAL_STATES
    <3>4. \A x \in Scopes : x # s => launches'[x] = launches[x]
      BY <1>2, <3>2 DEF IInv, TypeOK
    <3>5. Outcome' = Outcome
      BY <3>2, <3>3, <3>4 DEF Outcome
    <3> QED BY <3>1, <3>2, <3>3, <3>5 DEF Promise!Next, Promise!Launch
  <2>3. CASE UNCHANGED <<state, launches>>
    BY <2>3, SameRowSameOutcome
  <2>4. \/ \E c \in Calls : Committing(c) \/ LaunchEffect(c)
        \/ UNCHANGED <<state, launches>>
    BY <1>2 DEF Next, CallStep, Committing, vars, ledger, outside, Admit, DenyApproval, Enter,
         EffectReturns, EffectThrows, ObservePostState, ObserveCurrentPostState, Observe,
         AdapterThrows, Compensate, VerifyCompensation, Abort, Crash, EffectLands
  <2> QED BY <2>1, <2>2, <2>3, <2>4
<1> QED BY <1>1, <1>2, Invariance, PTL DEF Spec, ImplementsEffectOnce, Promise!Spec
=============================================================================
