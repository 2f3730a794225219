----------------------- MODULE SideEffectTruthProofs -----------------------
(***************************************************************************)
(* What the side-effect ledger and the answers of its callers say is true   *)
(* of the outside world, for every set of calls, scopes and parameters.     *)
(*                                                                         *)
(* The effect is observed, compensated and recorded at different awaits by  *)
(* calls that overlap.  TruthInv says what each of them may rely on: a row  *)
(* ends in the state its last receipt leads to; the effect changes only     *)
(* while its row is EFFECT_STARTED, or for good by a compensation, and a    *)
(* row that is being compensated never returns to verification.             *)
(***************************************************************************)
EXTENDS SideEffectOperationProofs

\* The row's state is the one its last receipt led to.
RowEndsWithLog ==
  \A s \in Scopes : log[s] # <<>> =>
    LET e == log[s][Len(log[s])] IN
    /\ <<e.previousState, e.event, e.nextState>> \in TRANSITIONS
    /\ state[s] = e.nextState

RecordedStates == {"EFFECT_RECORDED", "VERIFYING", "VERIFY_FAILED", "VERIFIED", "COMPENSATING", "COMPENSATED"}
Compensated == {"COMPENSATING", "COMPENSATED", "MANUAL_INTERVENTION"}

\* What is verified or compensated was recorded before.
RecordedFirst ==
  /\ \A s \in Scopes : state[s] \in RecordedStates => HasEvent(s, "RECORD_EFFECT")
  /\ \A c \in Calls : pc[c] \in AfterRecord => HasEvent(ScopeOf[c], "RECORD_EFFECT")

\* Without a launch, and until the launched effect has returned, nothing is there.
AbsentBeforeReturn ==
  /\ \A s \in Scopes : launches[s] = 0 => ~world[s]
  /\ \A s \in Scopes : Len(log[s]) = 1 /\ state[s] = "CANCEL_REQUESTED" => launches[s] = 0
  /\ \A c \in Calls : pc[c] \in {"started", "effect", "rejected"} => ~world[ScopeOf[c]]

\* A call that compensates has moved the row out of verification for good, and
\* what it has confirmed gone stays gone.
CompensationIsFinal ==
  \A c \in Calls :
    /\ pc[c] \in {"compensate", "verifyCompensation", "completeCompensation"} =>
         state[ScopeOf[c]] \in Compensated
    /\ pc[c] = "completeCompensation" /\ adapterOk[c] => ~world[ScopeOf[c]]

\* What a call has observed is still there, unless a compensation began since.
ObservedHolds ==
  \A c \in Calls :
    pc[c] \in {"decide", "resumeDecide"} /\ observed[c] =>
      world[ScopeOf[c]] \/ state[ScopeOf[c]] \in Compensated

CancelledUnlaunched ==
  \A c \in Calls : result[c] = "cancelled_before_effect" => launches[ScopeOf[c]] = 0

TruthInv ==
  /\ RowEndsWithLog /\ RecordedFirst /\ AbsentBeforeReturn /\ CompensationIsFinal
  /\ ObservedHolds /\ CancelledUnlaunched /\ AnswersMatchLedger /\ LedgerMatchesWorld

-----------------------------------------------------------------------------
\* The events that end a call, and what they are answered with.
Verdicts ==
  {<<"REQUEST_CANCEL", "cancelled_before_effect">>, <<"RECORD_REJECTION", "effect_rejected">>,
   <<"VERIFICATION_PASSED", "verified">>, <<"VERIFICATION_PASSED", "resumed_verified">>,
   <<"MARK_MANUAL", "manual_intervention">>, <<"COMPENSATION_FAILED", "manual_intervention">>,
   <<"COMPENSATION_SUCCEEDED", "compensated">>}

\* What a commit rests on, and what it answers.
CommitFacts(c, r, next, res) ==
  /\ IF next = "done" THEN <<r.event, res>> \in Verdicts ELSE res = "none"
  /\ next \in {"started", "recorded", "beginVerify", "observe", "verifyFailed", "compensate",
               "resumeObserve", "resumeManual", "done"}
  /\ r.event = "VERIFICATION_PASSED" => pc[c] \in {"decide", "resumeDecide"} /\ observed[c]
  /\ next = "compensate" => r.event = "BEGIN_COMPENSATION"
  /\ r.event = "COMPENSATION_SUCCEEDED" => pc[c] = "completeCompensation" /\ adapterOk[c]
  /\ res = "cancelled_before_effect" => pc[c] \in {"reserved", "started"}

\* Every committing action is a commit with these facts.
LEMMA CommittingRests ==
  ASSUME NEW c \in Calls, Committing(c)
  PROVE  \E r \in ReceiptType, next \in PCs, res \in Results :
           Transition(c, r, next, res) /\ CommitKind(c, r, next) /\ CommitFacts(c, r, next, res)
<1> DEFINE Kind(r, next, res) ==
      /\ Transition(c, r, next, res) /\ CommitKind(c, r, next)
      /\ r \in ReceiptType /\ next \in PCs /\ res \in Results
           Facts(r, next, res) == Kind(r, next, res) /\ CommitFacts(c, r, next, res)
<1> USE DEF ReceiptType, Receipt, Events, Notes, PCs, Results, CommitKind, AfterRecord, CommitFacts, Verdicts
<1>1. CASE StartEffect(c)
  <2>1. Facts(StartReceipt(c), "started", "none")
    BY <1>1 DEF StartEffect, StartReceipt
  <2> QED BY <2>1
<1>2. CASE CancelReserved(c) \/ CancelStarted(c)
  <2>1. Facts(Receipt("REQUEST_CANCEL", "plain", NoCall), "done", "cancelled_before_effect")
    BY <1>2 DEF CancelReserved, CancelStarted
  <2> QED BY <2>1
<1>3. CASE RecordRejection(c)
  <2>1. Facts(Receipt("RECORD_REJECTION", "effect", c), "done", "effect_rejected")
    BY <1>3 DEF RecordRejection
  <2> QED BY <2>1
<1>4. CASE RecordEffect(c)
  <2>1. Facts(Receipt("RECORD_EFFECT", "effect", c), "recorded", "none")
    BY <1>4 DEF RecordEffect
  <2> QED BY <2>1
<1>5. CASE CancelRecorded(c)
  <2>1. Facts(Receipt("REQUEST_CANCEL", "plain", NoCall), "beginVerify", "none")
    BY <1>5 DEF CancelRecorded
  <2> QED BY <2>1
<1>6. CASE BeginVerification(c)
  <2>1. Facts(Receipt("BEGIN_VERIFICATION", "plain", NoCall), "observe", "none")
    BY <1>6 DEF BeginVerification
  <2> QED BY <2>1
<1>7. CASE PassVerification(c)
  <2>1. Facts(Receipt("VERIFICATION_PASSED", "live", NoCall), "done", "verified")
    BY <1>7 DEF PassVerification, decideSideEffectVerification
  <2> QED BY <2>1
<1>8. CASE FailVerification(c)
  <2>1. Facts(Receipt("VERIFICATION_FAILED", "live", NoCall), "verifyFailed", "none")
    BY <1>8 DEF FailVerification
  <2> QED BY <2>1
<1>9. CASE MarkManual(c)
  <2>1. Facts(Receipt("MARK_MANUAL", "live", NoCall), "done", "manual_intervention")
    BY <1>9 DEF MarkManual
  <2> QED BY <2>1
<1>10. CASE BeginCompensation(c)
  <2>1. Facts(Receipt("BEGIN_COMPENSATION", "plain", NoCall), "compensate", "none")
    BY <1>10 DEF BeginCompensation
  <2> QED BY <2>1
<1>11. CASE CompleteCompensation(c) /\ adapterOk[c]
  <2>1. Facts(Receipt("COMPENSATION_SUCCEEDED", "compensation", c), "done", "compensated")
    BY <1>11 DEF CompleteCompensation
  <2> QED BY <2>1
<1>12. CASE CompleteCompensation(c) /\ ~adapterOk[c]
  <2>1. Facts(Receipt("COMPENSATION_FAILED", "compensation", c), "done", "manual_intervention")
    BY <1>12 DEF CompleteCompensation
  <2> QED BY <2>1
<1>13. CASE ResumeVerification(c)
  <2>1. Facts(Receipt("BEGIN_VERIFICATION", "resumed", NoCall), "resumeObserve", "none")
    BY <1>13 DEF ResumeVerification
  <2> QED BY <2>1
<1>14. CASE ResumePasses(c)
  <2>1. Facts(Receipt("VERIFICATION_PASSED", "resumed", NoCall), "done", "resumed_verified")
    BY <1>14 DEF ResumePasses
  <2> QED BY <2>1
<1>15. CASE ResumeFails(c)
  <2>1. Facts(Receipt("VERIFICATION_FAILED", "resumed", NoCall), "resumeManual", "none")
    BY <1>15 DEF ResumeFails
  <2> QED BY <2>1
<1>16. CASE ResumeManual(c)
  <2>1. Facts(Receipt("MARK_MANUAL", "resumed", NoCall), "done", "manual_intervention")
    BY <1>16 DEF ResumeManual
  <2> QED BY <2>1
<1> QED BY <1>1, <1>2, <1>3, <1>4, <1>5, <1>6, <1>7, <1>8, <1>9, <1>10, <1>11, <1>12,
           <1>13, <1>14, <1>15, <1>16 DEF Committing

\* Facts about the table that the truth of an answer rests on.
LEMMA TableFacts ==
  ASSUME NEW p \in States, NEW e \in Events, NEW n \in States, <<p, e, n>> \in TRANSITIONS
  PROVE  /\ p \notin TERMINAL_STATES /\ (p \in Compensated => n \in Compensated)
         /\ n \in RecordedStates => e \notin {"START_EFFECT", "REQUEST_CANCEL", "RECORD_REJECTION"}
         /\ e = "START_EFFECT" => p = "RESERVED" /\ n = "EFFECT_STARTED"
         /\ e = "BEGIN_COMPENSATION" => n = "COMPENSATING"
         /\ e = "REQUEST_CANCEL" => n = "CANCEL_REQUESTED"
         /\ n = "EFFECT_STARTED" => e = "START_EFFECT"
         /\ n = "VERIFIED" => e = "VERIFICATION_PASSED" /\ p \notin Compensated
         /\ n = "COMPENSATED" => e = "COMPENSATION_SUCCEEDED"
         /\ n = "EFFECT_REJECTED" => e = "RECORD_REJECTION"
         /\ p = "CANCEL_REQUESTED" =>
              e \notin {"START_EFFECT", "REQUEST_CANCEL", "RECORD_REJECTION", "RECORD_EFFECT"}
BY DEF TRANSITIONS, TERMINAL_STATES, Compensated, RecordedStates

\* An answer names the state that its event leads to.
LEMMA VerdictFacts ==
  ASSUME NEW p \in States, NEW e \in Events, NEW n \in States, <<p, e, n>> \in TRANSITIONS,
         NEW v, <<e, v>> \in Verdicts
  PROVE  v \in DOMAIN AnsweredState /\ n = AnsweredState[v]
BY DEF TRANSITIONS, Verdicts, AnsweredState

\* The definite answers are those of the terminal states and of a cancellation.
LEMMA AnswerFacts ==
  ASSUME NEW v \in DOMAIN AnsweredState
  PROVE  /\ AnsweredState[v] \in TERMINAL_STATES \union {"CANCEL_REQUESTED"}
         /\ AnsweredState[v] = "CANCEL_REQUESTED" <=> v = "cancelled_before_effect"
         /\ v # "blocked" /\ v # "none" /\ v # "threw"
BY DEF AnsweredState, TERMINAL_STATES

-----------------------------------------------------------------------------
\* TruthInv call by call and row by row.

CallTruth(d) ==
  LET s == ScopeOf[d] IN
  /\ pc[d] \in AfterRecord => HasEvent(s, "RECORD_EFFECT")
  /\ pc[d] \in {"started", "effect", "rejected"} => ~world[s]
  /\ pc[d] \in {"compensate", "verifyCompensation", "completeCompensation"} => state[s] \in Compensated
  /\ pc[d] = "completeCompensation" /\ adapterOk[d] => ~world[s]
  /\ pc[d] \in {"decide", "resumeDecide"} /\ observed[d] => world[s] \/ state[s] \in Compensated
  /\ result[d] = "cancelled_before_effect" => launches[s] = 0
  /\ result[d] \in DOMAIN AnsweredState => state[s] = AnsweredState[result[d]]

RowTruth(s) ==
  /\ log[s] # <<>> =>
       LET e == log[s][Len(log[s])] IN
       <<e.previousState, e.event, e.nextState>> \in TRANSITIONS /\ state[s] = e.nextState
  /\ state[s] \in RecordedStates => HasEvent(s, "RECORD_EFFECT")
  /\ launches[s] = 0 => ~world[s]
  /\ Len(log[s]) = 1 /\ state[s] = "CANCEL_REQUESTED" => launches[s] = 0
  /\ state[s] = "VERIFIED" => world[s]
  /\ state[s] \in {"COMPENSATED", "EFFECT_REJECTED"} => ~world[s]

\* The invariant is what every call and every row satisfies.
LEMMA TruthParts ==
  TruthInv <=> (\A d \in Calls : CallTruth(d)) /\ (\A s \in Scopes : RowTruth(s))
BY DEF TruthInv, CallTruth, RowTruth, RowEndsWithLog, RecordedFirst, AbsentBeforeReturn,
       CompensationIsFinal, ObservedHolds, CancelledUnlaunched, AnswersMatchLedger,
       LedgerMatchesWorld, RecordedStates

\* The same of the next state.
LEMMA TruthPartsNext ==
  ASSUME \A d \in Calls : CallTruth(d)', \A s \in Scopes : RowTruth(s)'
  PROVE  TruthInv'
<1>1. (TruthInv <=> (\A d \in Calls : CallTruth(d)) /\ (\A s \in Scopes : RowTruth(s)))'
  BY TruthParts, PTL
<1> QED BY <1>1

\* Nothing is launched, observed or answered at the start.
LEMMA InitTruth == Init => TruthInv
<1> SUFFICES ASSUME Init PROVE TruthInv
  OBVIOUS
<1>1. \A d \in Calls : CallTruth(d)
  BY ConstantsAssumption DEF Init, CallTruth, AfterRecord, AnsweredState
<1>2. \A s \in Scopes : RowTruth(s)
  BY DEF Init, RowTruth, RecordedStates
<1> QED BY <1>1, <1>2, TruthParts

-----------------------------------------------------------------------------
\* The steps that commit nothing.

\* How the world may change without a commit: the effect is launched or takes
\* place while the row is EFFECT_STARTED, or a compensation removes it.
EffectMove(s) ==
  /\ state[s] = "EFFECT_STARTED" /\ Len(log[s]) = 1
  /\ \/ launches'[s] = 1
     \/ launches'[s] = launches[s] /\ world'[s] = world[s]
RemovalMove(s) ==
  /\ state[s] \in Compensated
  /\ launches'[s] = launches[s] /\ launches[s] = 1
  /\ world'[s] => world[s]
StillMove(s) == launches'[s] = launches[s] /\ world'[s] = world[s]
WorldMove(s) == EffectMove(s) \/ RemovalMove(s) \/ StillMove(s)

\* A row whose effect has only been started carries no other receipt.
LEMMA StartedRow ==
  ASSUME IInv, NEW s \in Scopes, RowTruth(s), Len(log[s]) = 1, state[s] = "EFFECT_STARTED"
  PROVE  ~HasEvent(s, "RECORD_EFFECT")
<1>0. log[s] \in Seq(LogEntries)
  BY DEF IInv, TypeOK
<1>1. log[s] # <<>> /\ log[s][1] \in LogEntries
  BY <1>0
<1>2. LET e == log[s][1] IN
      <<e.previousState, e.event, e.nextState>> \in TRANSITIONS /\ e.nextState = "EFFECT_STARTED"
  BY <1>1 DEF RowTruth
<1>3. log[s][1].event = "START_EFFECT"
  BY <1>1, <1>2, TableFacts DEF LogEntries
<1> QED BY <1>3 DEF HasEvent

\* A row stays true when the world moves as it may.
LEMMA RowKept ==
  ASSUME IInv, NEW s \in Scopes, RowTruth(s), state'[s] = state[s], log'[s] = log[s], WorldMove(s)
  PROVE  RowTruth(s)'
<1>0. world[s] \in BOOLEAN /\ launches[s] \in Nat
  BY DEF IInv, TypeOK
<1>1. HasEvent(s, "RECORD_EFFECT")' <=> HasEvent(s, "RECORD_EFFECT")
  BY DEF HasEvent
<1>2. CASE EffectMove(s)
  BY <1>0, <1>1, <1>2 DEF RowTruth, EffectMove, RecordedStates
<1>3. CASE RemovalMove(s)
  BY <1>0, <1>1, <1>3 DEF RowTruth, RemovalMove, Compensated, RecordedStates
<1>4. CASE StillMove(s)
  BY <1>0, <1>1, <1>4 DEF RowTruth, StillMove
<1> QED BY <1>2, <1>3, <1>4 DEF WorldMove

\* So does what a call relies on that takes no step or dies; only the owner of a
\* started effect may not be at it when the effect takes place.
LEMMA BystanderKept ==
  ASSUME IInv, NEW d \in Calls, CallTruth(d), RowTruth(ScopeOf[d]),
         state'[ScopeOf[d]] = state[ScopeOf[d]], log'[ScopeOf[d]] = log[ScopeOf[d]],
         WorldMove(ScopeOf[d]),
         pc'[d] = pc[d] \/ pc'[d] = "dead", result'[d] = result[d],
         adapterOk'[d] = adapterOk[d], observed'[d] = observed[d],
         pc[d] \in {"started", "effect", "rejected"} /\ pc'[d] = pc[d] =>
           world'[ScopeOf[d]] = world[ScopeOf[d]]
  PROVE  CallTruth(d)'
<1> DEFINE s == ScopeOf[d]
<1>0. s \in Scopes /\ world[s] \in BOOLEAN /\ launches[s] \in Nat /\ result[d] \in Results
      /\ pc[d] \in PCs
  BY ConstantsAssumption DEF IInv, TypeOK
<1>1. HasEvent(s, "RECORD_EFFECT")' <=> HasEvent(s, "RECORD_EFFECT")
  BY DEF HasEvent
<1>2. CASE EffectMove(s)
  <2>1. pc[d] \notin AfterRecord
    BY <1>0, <1>2, StartedRow DEF CallTruth, EffectMove
  <2>2. result[d] \notin DOMAIN AnsweredState
    <3>1. state[s] \notin TERMINAL_STATES \union {"CANCEL_REQUESTED"}
      BY <1>2 DEF EffectMove, TERMINAL_STATES
    <3> QED BY <3>1, AnswerFacts DEF CallTruth
  <2>3. result[d] # "cancelled_before_effect"
    BY <2>2 DEF AnsweredState
  <2> QED BY <1>0, <2>1, <2>2, <2>3 DEF CallTruth, AfterRecord
<1>3. CASE RemovalMove(s)
  BY <1>0, <1>1, <1>3 DEF CallTruth, RemovalMove, AfterRecord
<1>4. CASE StillMove(s)
  BY <1>0, <1>1, <1>4 DEF CallTruth, StillMove, AfterRecord
<1> QED BY <1>2, <1>3, <1>4 DEF WorldMove

\* A step of one call that commits nothing: its own part is to be shown.
LEMMA QuietTruth ==
  ASSUME IInv, TruthInv, NEW c \in Calls, UNCHANGED <<state, log>>,
         \A s \in Scopes \ {ScopeOf[c]} : StillMove(s),
         WorldMove(ScopeOf[c]), CallTruth(c)',
         \A d \in Calls \ {c} :
           /\ pc'[d] = pc[d] /\ result'[d] = result[d]
           /\ adapterOk'[d] = adapterOk[d] /\ observed'[d] = observed[d],
         world'[ScopeOf[c]] = world[ScopeOf[c]] \/ pc[c] \in Executing \union AfterRecord
  PROVE  TruthInv'
<1>0. \A d \in Calls : ScopeOf[d] \in Scopes
  BY ConstantsAssumption
<1>1. (\A d \in Calls : CallTruth(d)) /\ (\A s \in Scopes : RowTruth(s))
  BY TruthParts
<1>2. \A s \in Scopes : WorldMove(s)
  BY DEF WorldMove
<1>3. \A s \in Scopes : RowTruth(s)'
  BY <1>1, <1>2, RowKept
<1>4. ASSUME NEW d \in Calls \ {c} PROVE CallTruth(d)'
  <2>1. pc[d] \in {"started", "effect", "rejected"} => world'[ScopeOf[d]] = world[ScopeOf[d]]
    <3>1. CASE ScopeOf[d] # ScopeOf[c]
      BY <1>0, <3>1 DEF StillMove
    <3>2. CASE ScopeOf[d] = ScopeOf[c] /\ pc[d] \in {"started", "effect", "rejected"}
      <4>1. OwnsRow(d)
        BY <3>2 DEF IInv, CallsInStep, Executing
      <4>2. pc[c] \notin Executing
        BY <3>2, <4>1 DEF IInv, CallsInStep, OwnsRow
      <4>3. pc[c] \notin AfterRecord
        BY <1>0, <1>1, <3>2, <4>1, StartedRow DEF OwnsRow, CallTruth
      <4> QED BY <3>2, <4>2, <4>3
    <3> QED BY <3>1, <3>2
  <2> QED BY <1>0, <1>1, <1>2, <2>1, BystanderKept
<1>5. \A d \in Calls : CallTruth(d)'
  BY <1>4
<1> QED BY <1>3, <1>5, TruthPartsNext

\* The answer that a settled row gives to a new call is the state of the row.
LEMMA AnswerFromRowIsTrue ==
  ASSUME NEW s \in Scopes, state[s] \in States
  PROVE  LET a == AnswerFromRow(s) IN
         /\ a \in Results \ {"cancelled_before_effect"}
         /\ a \in DOMAIN AnsweredState => state[s] = AnsweredState[a]
BY DEF AnswerFromRow, KnownAnswer, AnsweredState, Results

\* Admission, entry, denial, observation and a confirmed compensation leave the
\* row and the world alone.
LEMMA LookingKeepsTruth ==
  ASSUME IInv, IInv', TruthInv, NEW c \in Calls,
         \/ Admit(c) \/ DenyApproval(c) \/ Enter(c) \/ ObservePostState(c)
         \/ ObserveCurrentPostState(c) \/ VerifyCompensation(c) \/ EffectThrows(c)
  PROVE  TruthInv'
<1> DEFINE s == ScopeOf[c]
<1>0. s \in Scopes /\ TypeOK /\ CallTruth(c) /\ RowTruth(s)
  BY ConstantsAssumption, TruthParts DEF IInv
<1>1. UNCHANGED <<state, log, launches, world>>
  BY DEF Admit, DenyApproval, Enter, ObservePostState, ObserveCurrentPostState, Observe,
         VerifyCompensation, EffectThrows, ledger, outside
<1>2. PICK next, res : Goto(c, next, res)
  <2>1. CASE Admit(c) \/ DenyApproval(c) \/ EffectThrows(c)
    BY <2>1 DEF Admit, DenyApproval, EffectThrows, Finish
  <2>2. CASE Enter(c)
    BY <2>2 DEF Enter, Finish
  <2>3. CASE ObservePostState(c) \/ ObserveCurrentPostState(c) \/ VerifyCompensation(c)
    BY <2>3 DEF ObservePostState, ObserveCurrentPostState, Observe, VerifyCompensation
  <2> QED BY <2>1, <2>2, <2>3
<1>3. \A d \in Calls \ {c} : /\ pc'[d] = pc[d] /\ result'[d] = result[d]
                             /\ adapterOk'[d] = adapterOk[d] /\ observed'[d] = observed[d]
  BY <1>0, <1>2 DEF Goto, TypeOK, Admit, DenyApproval, Enter, ObservePostState,
     ObserveCurrentPostState, Observe, VerifyCompensation, EffectThrows
<1>4. \A x \in Scopes : StillMove(x)
  BY <1>1 DEF StillMove
<1>5. HasEvent(s, "RECORD_EFFECT")' <=> HasEvent(s, "RECORD_EFFECT")
  BY <1>1 DEF HasEvent
<1>6. CallTruth(c)'
  <2>1. ASSUME NEW n \in {"done", "admitted", "reserved"}, NEW x \in Results, Goto(c, n, x),
               x # "cancelled_before_effect",
               x \in DOMAIN AnsweredState => state[s] = AnsweredState[x]
        PROVE  CallTruth(c)'
    <3>1. pc'[c] = n /\ result'[c] = x
      BY <1>0, <2>1 DEF Goto, TypeOK
    <3> QED BY <1>1, <2>1, <3>1 DEF CallTruth, AfterRecord
  <2>2. CASE Admit(c) \/ DenyApproval(c) \/ EffectThrows(c)
    <3>1. \E n \in {"done", "admitted", "reserved"} :
            \E x \in {"blocked", "none", "threw", AnswerFromRow(s)} : Goto(c, n, x)
      BY <2>2 DEF Admit, DenyApproval, EffectThrows, Finish
    <3>2. \A x \in {"blocked", "none", "threw", AnswerFromRow(s)} :
            /\ x \in Results /\ x # "cancelled_before_effect"
            /\ x \in DOMAIN AnsweredState => state[s] = AnsweredState[x]
      BY <1>0, AnswerFromRowIsTrue DEF TypeOK, Results, AnsweredState
    <3> QED BY <2>1, <3>1, <3>2
  <2>3. CASE Enter(c)
    <3>1. \/ \E n \in {"done", "admitted", "reserved"} :
               \E x \in {"blocked", "none", "threw", AnswerFromRow(s)} : Goto(c, n, x)
          \/ \E n \in {"resumeObserve", "resumeBegin"} : Goto(c, n, "none") /\ CanResume(s)
      BY <2>3 DEF Enter, Finish
    <3>2. \A x \in {"blocked", "none", "threw", AnswerFromRow(s)} :
            /\ x \in Results /\ x # "cancelled_before_effect"
            /\ x \in DOMAIN AnsweredState => state[s] = AnsweredState[x]
      BY <1>0, AnswerFromRowIsTrue DEF TypeOK, Results, AnsweredState
    <3>3. ASSUME NEW n \in {"resumeObserve", "resumeBegin"}, Goto(c, n, "none"), CanResume(s)
          PROVE  CallTruth(c)'
      <4>1. pc'[c] = n /\ result'[c] = "none" /\ HasEvent(s, "RECORD_EFFECT")
        BY <1>0, <3>3 DEF Goto, TypeOK, CanResume
      <4> QED BY <1>5, <4>1 DEF CallTruth, AnsweredState
    <3> QED BY <2>1, <3>1, <3>2, <3>3
  <2>4. CASE ObservePostState(c) \/ ObserveCurrentPostState(c)
    <3>1. /\ pc[c] \in {"observe", "resumeObserve"} /\ pc'[c] \in {"decide", "resumeDecide"}
          /\ result'[c] = "none" /\ observed'[c] \in {FALSE, world[s]}
      BY <1>0, <2>4 DEF ObservePostState, ObserveCurrentPostState, Observe, Goto, TypeOK
    <3>2. HasEvent(s, "RECORD_EFFECT")
      BY <1>0, <3>1 DEF CallTruth, AfterRecord
    <3> QED BY <1>1, <1>5, <3>1, <3>2 DEF CallTruth, AnsweredState
  <2>5. CASE VerifyCompensation(c)
    <3>1. /\ pc[c] = "verifyCompensation" /\ pc'[c] = "completeCompensation"
          /\ result'[c] = "none" /\ adapterOk'[c] \in {FALSE, ~world[s]}
      BY <1>0, <2>5 DEF VerifyCompensation, Goto, TypeOK
    <3>2. HasEvent(s, "RECORD_EFFECT") /\ state[s] \in Compensated
      BY <1>0, <3>1 DEF CallTruth, AfterRecord
    <3> QED BY <1>1, <1>5, <3>1, <3>2 DEF CallTruth, AnsweredState
  <2> QED BY <2>2, <2>3, <2>4, <2>5
<1>7. WorldMove(s) /\ \A x \in Scopes \ {s} : StillMove(x)
  BY <1>0, <1>4 DEF WorldMove
<1> QED BY <1>1, <1>3, <1>6, <1>7, QuietTruth

\* The effect is launched, settles or is compensated: the world moves as it may.
LEMMA EffectKeepsTruth ==
  ASSUME IInv, IInv', TruthInv, NEW c \in Calls,
         LaunchEffect(c) \/ EffectReturns(c) \/ AdapterThrows(c) \/ Compensate(c)
  PROVE  TruthInv'
<1> DEFINE s == ScopeOf[c]
<1>0. s \in Scopes /\ TypeOK /\ CallTruth(c) /\ RowTruth(s)
  BY ConstantsAssumption, TruthParts DEF IInv
<1>1. UNCHANGED <<state, log>>
  BY DEF LaunchEffect, EffectReturns, AdapterThrows, Compensate, ledger
<1>3. \A d \in Calls \ {c} : /\ pc'[d] = pc[d] /\ result'[d] = result[d]
                             /\ adapterOk'[d] = adapterOk[d] /\ observed'[d] = observed[d]
  BY <1>0 DEF Goto, Finish, TypeOK, LaunchEffect, EffectReturns, AdapterThrows, Compensate
<1>4. \A x \in Scopes \ {s} : StillMove(x)
  BY <1>0 DEF TypeOK, LaunchEffect, EffectReturns, AdapterThrows, Compensate, StillMove
<1>5. HasEvent(s, "RECORD_EFFECT")' <=> HasEvent(s, "RECORD_EFFECT")
  BY <1>1 DEF HasEvent
<1>6. CASE LaunchEffect(c)
  <2>1. /\ pc[c] = "started" /\ pc'[c] = "effect" /\ result'[c] = "none"
        /\ launches'[s] = launches[s] + 1 /\ world' = world
    BY <1>0, <1>6 DEF LaunchEffect, Goto, TypeOK
  <2>2. OwnsRow(c) /\ launches[s] = 0
    BY <2>1 DEF IInv, CallsInStep, Executing, OwnsRow
  <2>3. WorldMove(s)
    BY <2>1, <2>2 DEF WorldMove, EffectMove, OwnsRow
  <2>4. CallTruth(c)'
    BY <1>0, <2>1 DEF CallTruth, AnsweredState, AfterRecord
  <2> QED BY <1>1, <1>3, <1>4, <2>1, <2>3, <2>4, QuietTruth
<1>7. CASE EffectReturns(c)
  <2>1. /\ pc[c] = "effect" /\ pc'[c] \in {"rejected", "settled"} /\ result'[c] = "none"
        /\ pc'[c] = "rejected" => world' = world
        /\ launches'[s] = launches[s]
    BY <1>0, <1>7 DEF EffectReturns, Goto, TypeOK
  <2>2. OwnsRow(c) /\ launches[s] = 1 /\ pc[c] \in Executing
    BY <2>1 DEF IInv, CallsInStep, Executing, OwnsRow
  <2>3. WorldMove(s)
    BY <2>1, <2>2 DEF WorldMove, EffectMove, OwnsRow
  <2>4. CallTruth(c)'
    BY <1>0, <2>1 DEF CallTruth, AnsweredState, AfterRecord
  <2> QED BY <1>1, <1>3, <1>4, <2>2, <2>3, <2>4, QuietTruth
<1>8. CASE AdapterThrows(c)
  <2>1. /\ pc[c] \in {"observe", "resumeObserve", "compensate", "verifyCompensation"}
        /\ pc'[c] = "done" /\ result'[c] = "threw" /\ launches'[s] = launches[s]
    BY <1>0, <1>8 DEF AdapterThrows, Finish, Goto, TypeOK
  <2>2. /\ world'[s] => world[s]
        /\ world'[s] = world[s] \/ pc[c] = "compensate"
    BY <1>0, <1>8 DEF AdapterThrows, TypeOK
  <2>3. launches[s] = 1 /\ pc[c] \in AfterRecord
    BY <2>1 DEF IInv, CallsInStep, AfterRecord
  <2>4. WorldMove(s)
    BY <1>0, <2>1, <2>2, <2>3 DEF WorldMove, RemovalMove, StillMove, CallTruth
  <2>5. CallTruth(c)'
    BY <2>1 DEF CallTruth, AnsweredState, AfterRecord
  <2> QED BY <1>1, <1>3, <1>4, <2>3, <2>4, <2>5, QuietTruth
<1>9. CASE Compensate(c)
  <2>1. /\ pc[c] = "compensate" /\ pc'[c] \in {"verifyCompensation", "completeCompensation"}
        /\ pc'[c] = "completeCompensation" => ~adapterOk'[c]
        /\ result'[c] = "none" /\ launches'[s] = launches[s]
    BY <1>0, <1>9 DEF Compensate, Goto, TypeOK
  <2>2. world'[s] => world[s]
    BY <1>0, <1>9 DEF Compensate, TypeOK
  <2>3. launches[s] = 1 /\ pc[c] \in AfterRecord
    BY <2>1 DEF IInv, CallsInStep, AfterRecord
  <2>4. state[s] \in Compensated /\ HasEvent(s, "RECORD_EFFECT")
    BY <1>0, <2>1, <2>3 DEF CallTruth
  <2>5. WorldMove(s)
    BY <2>1, <2>2, <2>3, <2>4 DEF WorldMove, RemovalMove
  <2>6. CallTruth(c)'
    BY <1>1, <1>5, <2>1, <2>4 DEF CallTruth, AnsweredState
  <2> QED BY <1>1, <1>3, <1>4, <2>3, <2>5, <2>6, QuietTruth
<1> QED BY <1>6, <1>7, <1>8, <1>9

\* An abort, a crash and an effect that lands late touch no answer and no row.
LEMMA SurroundingsKeepTruth ==
  ASSUME IInv, IInv', TruthInv,
         \/ \E c \in Calls : Abort(c)
         \/ Crash \/ UNCHANGED vars
         \/ \E s \in Scopes : EffectLands(s)
  PROVE  TruthInv'
<1>0. TypeOK /\ \A d \in Calls : ScopeOf[d] \in Scopes
  BY ConstantsAssumption DEF IInv
<1>1. (\A d \in Calls : CallTruth(d)) /\ (\A s \in Scopes : RowTruth(s))
  BY TruthParts
<1>2. UNCHANGED <<state, log, launches, adapterOk, observed, result>>
  BY DEF Abort, Crash, EffectLands, vars, ledger, outside
<1>3. \A d \in Calls : pc'[d] = pc[d] \/ pc'[d] = "dead"
  BY <1>0 DEF Abort, Crash, EffectLands, vars, TypeOK
<1>4. \A s \in Scopes : world'[s] = world[s] \/ (s \in landing /\ EffectLands(s))
  BY <1>0 DEF Abort, Crash, EffectLands, vars, outside, TypeOK
<1>5. \A s \in Scopes : WorldMove(s)
  BY <1>2, <1>4 DEF WorldMove, StillMove, EffectMove, IInv, LandingInStep
<1>6. \A s \in Scopes : RowTruth(s)'
  BY <1>1, <1>2, <1>5, RowKept
<1>7. ASSUME NEW d \in Calls PROVE CallTruth(d)'
  <2>1. pc[d] \in {"started", "effect", "rejected"} => world'[ScopeOf[d]] = world[ScopeOf[d]]
    <3>1. pc[d] \in {"started", "effect", "rejected"} => ScopeOf[d] \notin landing
      BY DEF IInv, CallsInStep, LandingInStep, OwnsRow, Executing
    <3> QED BY <1>0, <1>4, <3>1
  <2> QED BY <1>0, <1>1, <1>2, <1>3, <1>5, <2>1, BystanderKept
<1> QED BY <1>6, <1>7, TruthPartsNext

-----------------------------------------------------------------------------
\* The commits.

\* What the kind of a commit says of the row it meets.
LEMMA CommitMeets ==
  ASSUME IInv, NEW c \in Calls, CallTruth(c), RowTruth(ScopeOf[c]), NEW r \in ReceiptType,
         NEW next \in PCs, NEW res \in Results, CommitKind(c, r, next), CommitFacts(c, r, next, res)
  PROVE  LET s == ScopeOf[c] IN
         /\ r.event \notin {"START_EFFECT", "REQUEST_CANCEL", "RECORD_REJECTION", "RECORD_EFFECT"} =>
              HasEvent(s, "RECORD_EFFECT") /\ launches[s] = 1
         /\ next \in AfterRecord => HasEvent(s, "RECORD_EFFECT") \/ r.event = "RECORD_EFFECT"
         /\ next = "started" => r = StartReceipt(c) /\ pc[c] = "reserved"
         /\ r.event = "RECORD_REJECTION" => pc[c] = "rejected" /\ ~world[s]
         /\ res = "cancelled_before_effect" => /\ r.event = "REQUEST_CANCEL"
                                               /\ rev[c] = 0 \/ (OwnsRow(c) /\ launches[s] = 0)
<1> DEFINE s == ScopeOf[c]
<1>0. s \in Scopes
  BY ConstantsAssumption
<1>1. pc[c] \in AfterRecord => HasEvent(s, "RECORD_EFFECT") /\ launches[s] = 1
  BY DEF CallTruth, IInv, CallsInStep
<1>2. r.event \notin {"START_EFFECT", "REQUEST_CANCEL", "RECORD_REJECTION", "RECORD_EFFECT"} =>
        pc[c] \in AfterRecord
  BY DEF CommitKind, StartReceipt, Receipt
<1>3. next \in AfterRecord => pc[c] \in AfterRecord \/ r.event = "RECORD_EFFECT"
  BY DEF CommitKind, AfterRecord
<1>4. next = "started" => r = StartReceipt(c) /\ pc[c] = "reserved"
  BY DEF CommitKind, AfterRecord
<1>5. r.event = "RECORD_REJECTION" => pc[c] = "rejected" /\ ~world[s]
  BY DEF CommitKind, StartReceipt, Receipt, CallTruth
<1>6. res = "cancelled_before_effect" => /\ r.event = "REQUEST_CANCEL"
                                         /\ rev[c] = 0 \/ (OwnsRow(c) /\ launches[s] = 0)
  <2> SUFFICES ASSUME res = "cancelled_before_effect"
               PROVE  r.event = "REQUEST_CANCEL" /\ (rev[c] = 0 \/ (OwnsRow(c) /\ launches[s] = 0))
    OBVIOUS
  <2>1. next = "done" /\ <<r.event, res>> \in Verdicts /\ pc[c] \in {"reserved", "started"}
    BY DEF CommitFacts
  <2>2. r.event = "REQUEST_CANCEL"
    BY <2>1 DEF Verdicts
  <2> QED BY <2>1, <2>2 DEF IInv, CallsInStep, Executing, OwnsRow
<1> QED BY <1>1, <1>2, <1>3, <1>4, <1>5, <1>6

\* A commit that is refused, or taken for the caller's own, answers with what
\* the row already says.
LEMMA UnappliedKeepsTruth ==
  ASSUME IInv, IInv', TruthInv, NEW c \in Calls, NEW r \in ReceiptType,
         NEW next \in PCs, NEW res \in Results, CommitKind(c, r, next), CommitFacts(c, r, next, res),
         UNCHANGED <<adapterOk, observed, outside>>,
         Refused(c) \/ Replayed(c, r, next, res)
  PROVE  TruthInv'
<1> DEFINE s == ScopeOf[c]
<1>0. s \in Scopes /\ TypeOK /\ CallTruth(c) /\ RowTruth(s)
  BY ConstantsAssumption, TruthParts DEF IInv
<1>1. UNCHANGED <<state, log, launches, world>>
  BY DEF Refused, Replayed, outside
<1>2. \A d \in Calls \ {c} : /\ pc'[d] = pc[d] /\ result'[d] = result[d]
                             /\ adapterOk'[d] = adapterOk[d] /\ observed'[d] = observed[d]
  BY <1>0 DEF Refused, Replayed, Finish, Goto, TypeOK
<1>3. WorldMove(s) /\ \A x \in Scopes \ {s} : StillMove(x)
  BY <1>0, <1>1 DEF WorldMove, StillMove
<1>4. CASE Refused(c)
  <2>1. pc'[c] = "done" /\ result'[c] = "blocked"
    BY <1>0, <1>4 DEF Refused, Finish, Goto, TypeOK
  <2>2. CallTruth(c)'
    BY <2>1 DEF CallTruth, AnsweredState, AfterRecord
  <2> QED BY <1>1, <1>2, <1>3, <2>2, QuietTruth
<1>5. CASE Replayed(c, r, next, res)
  <2> DEFINE e == log[s][Len(log[s])]
  <2>1. /\ pc'[c] = next /\ result'[c] = res
        /\ Len(log[s]) = rev[c] + 1 /\ e.event = r.event /\ e.by = r.by
    BY <1>0, <1>5 DEF Replayed, Goto, TypeOK, IsReceiptOf
  <2>2. log[s] \in Seq(LogEntries) /\ rev[c] \in Nat
    BY <1>0 DEF TypeOK
  <2>3. log[s] # <<>> /\ Len(log[s]) \in 1 .. Len(log[s]) /\ e \in LogEntries
    BY <2>1, <2>2
  <2>4. <<e.previousState, r.event, state[s]>> \in TRANSITIONS
    BY <1>0, <2>1, <2>3 DEF RowTruth
  <2>5. e.previousState \in States /\ r.event \in Events /\ state[s] \in States
    BY <1>0, <2>3 DEF LogEntries, ReceiptType, TypeOK
  <2>6. r.event = "RECORD_EFFECT" => HasEvent(s, "RECORD_EFFECT")
    BY <2>1, <2>3 DEF HasEvent
  <2>7. next \in AfterRecord => HasEvent(s, "RECORD_EFFECT")
    BY <1>0, <2>6, CommitMeets
  <2>8. next # "started"
    <3> SUFFICES ASSUME next = "started" PROVE FALSE
      OBVIOUS
    <3>1. r = StartReceipt(c) /\ pc[c] = "reserved"
      BY <1>0, CommitMeets
    <3>2. e.event = "START_EFFECT" /\ e.by = c
      BY <2>1, <3>1 DEF StartReceipt, Receipt
    <3> QED BY <1>0, <2>3, <3>1, <3>2 DEF IInv, StartsHavePassed, BeforeStart
  <2>9. next = "compensate" => state[s] \in Compensated
    BY <2>4, <2>5, TableFacts DEF CommitFacts, Compensated
  <2>10. res = "cancelled_before_effect" => launches[s] = 0
    <3> SUFFICES ASSUME res = "cancelled_before_effect" PROVE launches[s] = 0
      OBVIOUS
    <3>1. r.event = "REQUEST_CANCEL" /\ (rev[c] = 0 \/ OwnsRow(c))
      BY <1>0, CommitMeets
    <3>2. rev[c] = 0
      BY <2>1, <3>1 DEF OwnsRow
    <3>3. state[s] = "CANCEL_REQUESTED"
      BY <2>4, <2>5, <3>1, TableFacts
    <3> QED BY <1>0, <2>1, <3>2, <3>3 DEF RowTruth
  <2>11. res \in DOMAIN AnsweredState => state[s] = AnsweredState[res]
    <3>1. CASE next = "done"
      BY <2>4, <2>5, <3>1, VerdictFacts DEF CommitFacts
    <3>2. CASE next # "done"
      BY <3>2 DEF CommitFacts, AnsweredState
    <3> QED BY <3>1, <3>2
  <2>12. HasEvent(s, "RECORD_EFFECT")' <=> HasEvent(s, "RECORD_EFFECT")
    BY <1>1 DEF HasEvent
  <2>13. next \in {"recorded", "beginVerify", "observe", "verifyFailed", "compensate",
                   "resumeObserve", "resumeManual", "done"}
    BY <2>8 DEF CommitFacts
  <2>14. CallTruth(c)'
    BY <1>1, <2>1, <2>7, <2>9, <2>10, <2>11, <2>12, <2>13 DEF CallTruth
  <2> QED BY <1>1, <1>2, <1>3, <2>14, QuietTruth
<1> QED BY <1>4, <1>5

\* A commit that is applied moves the row and answers with the new state.
LEMMA AppliedKeepsTruth ==
  ASSUME IInv, IInv', TruthInv, NEW c \in Calls, NEW r \in ReceiptType,
         NEW next \in PCs, NEW res \in Results, CommitKind(c, r, next), CommitFacts(c, r, next, res),
         UNCHANGED <<adapterOk, observed, outside>>,
         Applied(c, r, next, res)
  PROVE  TruthInv'
<1> DEFINE s == ScopeOf[c]
<1>0. /\ s \in Scopes /\ TypeOK
      /\ (\A d \in Calls : CallTruth(d) /\ ScopeOf[d] \in Scopes)
      /\ (\A x \in Scopes : RowTruth(x))
  BY ConstantsAssumption, TruthParts DEF IInv
<1>1. PICK n \in States :
        /\ <<state[s], r.event, n>> \in TRANSITIONS
        /\ state' = [state EXCEPT ![s] = n]
        /\ log' = [log EXCEPT ![s] =
                     Append(@, [event |-> r.event, note |-> r.note, by |-> r.by,
                                previousState |-> state[s], nextState |-> n])]
  BY DEF Applied
<1> DEFINE e == [event |-> r.event, note |-> r.note, by |-> r.by,
                 previousState |-> state[s], nextState |-> n]
<1>2. /\ UNCHANGED <<launches, world>>
      /\ \A d \in Calls \ {c} : /\ pc'[d] = pc[d] /\ result'[d] = result[d]
                                /\ adapterOk'[d] = adapterOk[d] /\ observed'[d] = observed[d]
      /\ pc'[c] = next /\ result'[c] = res
      /\ adapterOk'[c] = adapterOk[c] /\ observed'[c] = observed[c]
  BY <1>0 DEF Applied, Goto, TypeOK, outside
<1>3. state'[s] = n /\ \A x \in Scopes \ {s} : state'[x] = state[x] /\ log'[x] = log[x]
  BY <1>0, <1>1 DEF TypeOK
<1>4. log[s] \in Seq(LogEntries) /\ state[s] \in States /\ r.event \in Events /\ rev[c] \in Nat
      /\ Len(log[s]) = rev[c] /\ launches[s] \in Nat /\ world[s] \in BOOLEAN
  BY <1>0 DEF TypeOK, ReceiptType, Applied, RevisionMatches
<1>5. e \in LogEntries
  BY <1>4 DEF LogEntries, ReceiptType
<1>6. log'[s] = Append(log[s], e)
  BY <1>0, <1>1 DEF TypeOK
<1>7. /\ Len(log'[s]) = Len(log[s]) + 1 /\ log'[s] # <<>> /\ log'[s][Len(log'[s])] = e
      /\ \A i \in 1 .. Len(log[s]) : log'[s][i] = log[s][i]
  <2> HIDE DEF e
  <2> QED BY <1>4, <1>5, <1>6
<1>8. HasEvent(s, "RECORD_EFFECT") \/ r.event = "RECORD_EFFECT" => HasEvent(s, "RECORD_EFFECT")'
  <2>1. CASE HasEvent(s, "RECORD_EFFECT")
    <3>1. PICK i \in 1 .. Len(log[s]) : log[s][i].event = "RECORD_EFFECT"
      BY <2>1 DEF HasEvent
    <3>2. i \in 1 .. Len(log'[s])
      BY <1>4, <1>7
    <3>3. log'[s][i] = log[s][i]
      BY <1>7
    <3> QED BY <3>1, <3>2, <3>3 DEF HasEvent
  <2>2. CASE r.event = "RECORD_EFFECT"
    BY <1>4, <1>7, <2>2 DEF HasEvent
  <2> QED BY <2>1, <2>2
<1>9. /\ r.event \notin {"START_EFFECT", "REQUEST_CANCEL", "RECORD_REJECTION", "RECORD_EFFECT"} =>
           HasEvent(s, "RECORD_EFFECT") /\ launches[s] = 1
      /\ next \in AfterRecord => HasEvent(s, "RECORD_EFFECT") \/ r.event = "RECORD_EFFECT"
      /\ next = "started" => r = StartReceipt(c) /\ pc[c] = "reserved"
      /\ r.event = "RECORD_REJECTION" => pc[c] = "rejected" /\ ~world[s]
      /\ res = "cancelled_before_effect" => rev[c] = 0 \/ launches[s] = 0
  BY <1>0, CommitMeets
<1>10. rev[c] = 0 => launches[s] = 0
  BY <1>0, <1>4 DEF IInv, LaunchesInStep
<1>11. /\ state[s] \notin TERMINAL_STATES /\ (state[s] \in Compensated => n \in Compensated)
       /\ n \in RecordedStates => r.event \notin {"START_EFFECT", "REQUEST_CANCEL", "RECORD_REJECTION"}
       /\ r.event = "START_EFFECT" => state[s] = "RESERVED" /\ n = "EFFECT_STARTED"
       /\ r.event = "BEGIN_COMPENSATION" => n = "COMPENSATING"
       /\ n = "VERIFIED" => r.event = "VERIFICATION_PASSED" /\ state[s] \notin Compensated
       /\ n = "COMPENSATED" => r.event = "COMPENSATION_SUCCEEDED"
       /\ n = "EFFECT_REJECTED" => r.event = "RECORD_REJECTION"
       /\ state[s] = "CANCEL_REQUESTED" =>
            r.event \notin {"START_EFFECT", "REQUEST_CANCEL", "RECORD_REJECTION", "RECORD_EFFECT"}
  BY <1>1, <1>4, TableFacts
<1>12. RowTruth(s)'
  <2>1. LET f == log'[s][Len(log'[s])] IN
        <<f.previousState, f.event, f.nextState>> \in TRANSITIONS /\ state'[s] = f.nextState
    <3>1. <<e.previousState, e.event, e.nextState>> \in TRANSITIONS /\ state'[s] = e.nextState
      BY <1>1, <1>3
    <3> HIDE DEF e
    <3> QED BY <1>7, <3>1
  <2>2. n \in RecordedStates => HasEvent(s, "RECORD_EFFECT")'
    BY <1>8, <1>9, <1>11
  <2>3. launches[s] = 0 => ~world[s]
    BY <1>0 DEF RowTruth
  <2>4. Len(log'[s]) = 1 => launches[s] = 0
    BY <1>4, <1>7, <1>10
  <2>5. n = "VERIFIED" => world[s]
    BY <1>0, <1>11 DEF CommitFacts, CallTruth
  <2>6. n \in {"COMPENSATED", "EFFECT_REJECTED"} => ~world[s]
    BY <1>0, <1>9, <1>11 DEF CommitFacts, CallTruth
  <2> QED BY <1>2, <1>3, <2>1, <2>2, <2>3, <2>4, <2>5, <2>6 DEF RowTruth
<1>13. ASSUME NEW x \in Scopes \ {s} PROVE RowTruth(x)'
  <2>1. WorldMove(x)
    BY <1>2 DEF WorldMove, StillMove
  <2> QED BY <1>0, <1>3, <2>1, RowKept
<1>14. CallTruth(c)'
  <2>1. next \in AfterRecord => HasEvent(s, "RECORD_EFFECT")'
    BY <1>8, <1>9
  <2>2. next = "started" => ~world[s]
    <3> SUFFICES ASSUME next = "started" PROVE ~world[s]
      OBVIOUS
    <3>1. r.event = "START_EFFECT"
      BY <1>9 DEF StartReceipt, Receipt
    <3>2. launches[s] = 0
      BY <1>0, <1>11, <3>1 DEF IInv, ReservedIsEmpty, LaunchesInStep
    <3> QED BY <1>0, <3>2 DEF RowTruth
  <2>3. next = "compensate" => n \in Compensated
    BY <1>11 DEF CommitFacts, Compensated
  <2>4. res = "cancelled_before_effect" => launches[s] = 0
    BY <1>9, <1>10
  <2>5. res \in DOMAIN AnsweredState => n = AnsweredState[res]
    <3>1. CASE next = "done"
      BY <1>1, <1>4, <3>1, VerdictFacts DEF CommitFacts
    <3>2. CASE next # "done"
      BY <3>2 DEF CommitFacts, AnsweredState
    <3> QED BY <3>1, <3>2
  <2>6. next \in {"started", "recorded", "beginVerify", "observe", "verifyFailed", "compensate",
                  "resumeObserve", "resumeManual", "done"}
    BY DEF CommitFacts
  <2> QED BY <1>2, <1>3, <2>1, <2>2, <2>3, <2>4, <2>5, <2>6 DEF CallTruth
<1>15. ASSUME NEW d \in Calls \ {c}, ScopeOf[d] = s PROVE CallTruth(d)'
  <2>1. result[d] \notin DOMAIN AnsweredState
    <3> SUFFICES ASSUME result[d] \in DOMAIN AnsweredState PROVE FALSE
      OBVIOUS
    <3>1. state[s] = AnsweredState[result[d]]
      BY <1>0, <1>15 DEF CallTruth
    <3>2. state[s] = "CANCEL_REQUESTED" /\ result[d] = "cancelled_before_effect"
      BY <1>11, <3>1, AnswerFacts
    <3>3. launches[s] = 0
      BY <1>0, <1>15, <3>2 DEF CallTruth
    <3> QED BY <1>9, <1>11, <3>2, <3>3
  <2>2. result[d] # "cancelled_before_effect"
    BY <2>1 DEF AnsweredState
  <2> QED BY <1>0, <1>2, <1>3, <1>8, <1>11, <1>15, <2>1, <2>2 DEF CallTruth
<1>16. ASSUME NEW d \in Calls \ {c}, ScopeOf[d] # s PROVE CallTruth(d)'
  <2>1. WorldMove(ScopeOf[d])
    BY <1>2 DEF WorldMove, StillMove
  <2> QED BY <1>0, <1>2, <1>3, <1>16, <2>1, BystanderKept
<1>17. (\A d \in Calls : CallTruth(d)') /\ (\A x \in Scopes : RowTruth(x)')
  BY <1>12, <1>13, <1>14, <1>15, <1>16
<1> QED BY <1>17, TruthPartsNext

-----------------------------------------------------------------------------
\* The theorems.

\* Every step keeps the invariant.
LEMMA TruthStep ==
  ASSUME IInv, IInv', TruthInv, [Next]_vars
  PROVE  TruthInv'
<1>1. ASSUME NEW c \in Calls, Committing(c) PROVE TruthInv'
  <2>1. PICK r \in ReceiptType, next \in PCs, res \in Results :
          Transition(c, r, next, res) /\ CommitKind(c, r, next) /\ CommitFacts(c, r, next, res)
    BY <1>1, CommittingRests
  <2>2. UNCHANGED <<adapterOk, observed, outside>>
    BY <1>1, CommittingIsTransition
  <2>3. Applied(c, r, next, res) \/ Replayed(c, r, next, res) \/ Refused(c)
    BY <2>1, TransitionCases DEF IInv
  <2> QED BY <2>1, <2>2, <2>3, AppliedKeepsTruth, UnappliedKeepsTruth
<1>2. ASSUME NEW c \in Calls,
             \/ Admit(c) \/ DenyApproval(c) \/ Enter(c) \/ ObservePostState(c)
             \/ ObserveCurrentPostState(c) \/ VerifyCompensation(c) \/ EffectThrows(c)
      PROVE  TruthInv'
  BY <1>2, LookingKeepsTruth
<1>3. ASSUME NEW c \in Calls,
             LaunchEffect(c) \/ EffectReturns(c) \/ AdapterThrows(c) \/ Compensate(c)
      PROVE  TruthInv'
  BY <1>3, EffectKeepsTruth
<1>4. CASE \/ \E c \in Calls : Abort(c)
           \/ Crash \/ UNCHANGED vars
           \/ \E s \in Scopes : EffectLands(s)
  BY <1>4, SurroundingsKeepTruth
<1> QED BY <1>1, <1>2, <1>3, <1>4 DEF Next, CallStep, Committing

\* The invariant holds throughout.
LEMMA TruthInvariance == Spec => []TruthInv
<1>1. IInv /\ TruthInv /\ [Next]_vars /\ IInv' => TruthInv'
  BY TruthStep
<1> QED BY <1>1, InitTruth, Invariance, PTL DEF Spec

\* VERIFIED is written only with the effect recorded and in place, COMPENSATED and
\* EFFECT_REJECTED only without it, for any number of overlapping verifications,
\* resumptions and compensations.
THEOREM LedgerIsTrue == Spec => []LedgerMatchesWorld
BY TruthInvariance, PTL DEF TruthInv

\* A caller that is told "cancelled_before_effect" is told the truth for good:
\* the effect was not launched and never will be.
THEOREM CancellationIsTrue == Spec => []CancelledMeansUntouched
<1>1. TruthInv => CancelledMeansUntouched
  BY ConstantsAssumption
     DEF TruthInv, CancelledUnlaunched, AbsentBeforeReturn, CancelledMeansUntouched
<1> QED BY <1>1, TruthInvariance, PTL

\* A definite answer is the state of the row when it is given and ever after.
THEOREM AnswersStay == Spec => []AnswersMatchLedger
BY TruthInvariance, PTL DEF TruthInv
=============================================================================
