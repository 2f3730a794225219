----------------------- MODULE YeonjangRuntimeProofs -----------------------
(***************************************************************************)
(* Proofs about the runtime of a Yeonjang node, for every number of         *)
(* deliveries, requests, cancellations, crashes and faults: an effect       *)
(* starts once, answers are true, claims have owners, a drained shutdown    *)
(* is quiet, and an accepted cancellation was heard.                        *)
(***************************************************************************)
EXTENDS YeonjangRuntime, TLAPS

-----------------------------------------------------------------------------
\* The inductive invariant.  The lifecycle and the tombstones have no part in
\* it: they shape answers, and keep no effect from being repeated.

CallStates == InCall \cup {"new", "done", "lost"}
CancelStates == {"new", "loaded", "recovering", "probed", "prepared", "finalizing", "storing",
                 "done"}

CallTypes ==
  /\ now \in Nat /\ booted \in BOOLEAN /\ accepting \in BOOLEAN
  /\ closing \in {"no", "closed", "draining", "done"}
  /\ consumed \subseteq Requests /\ halted \subseteq Requests /\ onTheEdge \subseteq Requests
  /\ reconsumed \subseteq Requests
  /\ completed \in [Keys -> CompletedEntries \cup {None}]
  /\ records \in [Keys -> DurableRecords \cup {None}]
  /\ disk \in [Keys -> DurableRecords \cup {None}]
  /\ req \in [Calls -> Requests \cup {None}]
  /\ pc \in [Calls -> CallStates]
  /\ answer \in [Calls -> Answers \cup {None}]
  /\ effects \in [Requests -> Nat]
  /\ outcome \in [Requests -> Responses \cup {None}]
  /\ \A c \in Calls : pc[c] # "new" => req[c] \in Requests

RegistryTypes ==
  /\ crashes \in Nat /\ faults \in Nat /\ latch \in BOOLEAN
  /\ active \in [Commands -> Calls \cup {None}]
  /\ signal \in [Calls -> BOOLEAN]
  /\ cpc \in [Cancels -> CancelStates]
  /\ DOMAIN receipts = CancelIds /\ DOMAIN verdict = Cancels

TypeOK == CallTypes /\ RegistryTypes

\* A call that admission let through, until it is answered.
Admitted == Claiming \cup {"admitted", "looked"}

\* A process that is down serves nobody.
DownServesNone == ~booted => \A c \in Calls : pc[c] \notin InCall

\* The replay guard.  It knows the requests that calls were let through for and
\* those that were answered as cancelled, until they expire.  Unless a delivery
\* was let through after that, at most one call holds the authorization of a
\* request, and none does once the request was answered as cancelled.
AuthorizedOnce ==
  /\ \A r \in halted : /\ r \in consumed \/ now > ExpiresAt[r]
                       /\ \E c \in Calls : pc[c] = "done" /\ req[c] = r
  /\ \A c \in Calls : pc[c] \in Admitted =>
       /\ req[c] \in consumed \/ now > ExpiresAt[req[c]]
       /\ req[c] \in halted => req[c] \in reconsumed
  /\ \A c, d \in Calls : pc[c] \in Admitted /\ pc[d] \in Admitted /\ req[c] = req[d] =>
       c = d \/ req[c] \in reconsumed

\* A claim is in memory under its key, as long as the call that made it, and
\* shared by none.
ClaimIsHeld ==
  /\ \A k \in Keys : completed[k] # None => KeyOf[completed[k].req] = k
  /\ \A c \in Calls :
       pc[c] \in Claiming => completed[KeyOf[req[c]]] = [req |-> req[c], response |-> None]
  /\ \A c, d \in Calls :
       pc[c] \in Claiming /\ pc[d] \in Claiming /\ KeyOf[req[c]] = KeyOf[req[d]] => c = d

\* Around the effect, the file says that its state is unknown.
ReservationIsDurable ==
  \A c \in Calls : pc[c] \in {"reserved", "running", "executed"} =>
    /\ records[KeyOf[req[c]]] = [req |-> req[c], terminal |-> "EffectStateUnknown"]
    /\ disk[KeyOf[req[c]]] = records[KeyOf[req[c]]]

\* What was started is remembered by the file, or can no longer be admitted.
EffectIsRemembered ==
  \A r \in Requests : effects[r] > 0 =>
    \/ r \in onTheEdge
    \/ disk[KeyOf[r]] # None /\ disk[KeyOf[r]].req = r
    \/ /\ now > ExpiresAt[r]
       /\ \A c \in Calls : pc[c] \in Admitted \cup {"verifying"} => req[c] # r

\* A reservation is the first of its request.
ReservedIsFirst ==
  \A c \in Calls : pc[c] = "reserved" => effects[req[c]] = 0 \/ req[c] \in onTheEdge

\* The outcome of an effect is that of its only run, and the worker's answer.
OutcomeIsAnswer ==
  /\ \A r \in Requests : outcome[r] # None => effects[r] > 0
  /\ \A c \in Calls : pc[c] = "running" =>
       /\ outcome[req[c]] = None \/ req[c] \in onTheEdge
       /\ effects[req[c]] > 0
  /\ \A c \in Calls : pc[c] \in {"executed", "finalized", "ended", "recorded"} =>
       answer[c] \in Responses /\ answer[c] = outcome[req[c]]

\* a may be given as the response to r.
Truthful(r, a) == a \in Responses => a = outcome[r] \/ r \in onTheEdge

\* What the stores would answer is true.
EvidenceIsTrue ==
  /\ \A k \in Keys : completed[k] # None => Truthful(completed[k].req, completed[k].response)
  /\ \A k \in Keys : records[k] # None => Truthful(records[k].req, records[k].terminal)
  /\ \A k \in Keys : disk[k] # None => Truthful(disk[k].req, disk[k].terminal)

\* A runtime that is closing admits nobody.
ClosedToAll == closing # "no" => ~accepting

\* A signal belongs to a call that registered, and so does an entry.
SignalIsKept ==
  /\ \A c \in Calls : signal[c] =>
       pc[c] \notin {"new", "verifying", "replaying", "admitted", "looked", "claimed"}
  /\ \A m \in Commands : active[m] # None =>
       pc[active[m]] \notin {"new", "verifying", "replaying", "admitted", "looked", "claimed"}

\* A cancellation whose id no other one has, in a process that never crashed.
Alone(x) == crashes = 0 /\ \A y \in Cancels \ {x} : IdOf[y] # IdOf[x]
Heard(x) == \E c \in Calls : req[c] = TargetOf[x] /\ signal[c]

\* It finds no receipt but its own, and says accepted only after the signal.
AcceptedAfterSignal ==
  \A x \in Cancels : Alone(x) =>
    /\ cpc[x] \in {"new", "loaded", "probed"} => receipts[IdOf[x]] = None
    /\ cpc[x] # "recovering"
    /\ verdict[x] = "Accepted" => Heard(x)

CallInv ==
  /\ DownServesNone /\ AuthorizedOnce /\ ClaimIsHeld /\ ClaimHasOwner
  /\ ReservationIsDurable /\ EffectIsRemembered /\ ReservedIsFirst /\ EffectOnce
  /\ OutcomeIsAnswer /\ EvidenceIsTrue /\ ResponsesAreTrue
  /\ ClosedToAll /\ QuietAfterShutdown

RuntimeInv == TypeOK /\ CallInv /\ SignalIsKept /\ AcceptedAfterSignal

-----------------------------------------------------------------------------
\* What a step of a call does to the stores: every action of the model takes
\* one of these shapes.

still == <<now, booted, accepting, closing, onTheEdge>>
book == <<consumed, completed, records, disk, effects, outcome, halted, reconsumed>>

Moves(c, from, to) ==
  /\ pc[c] \in from /\ pc' = [pc EXCEPT ![c] = to]
  /\ UNCHANGED still

Says(c, a) == a \in Answers /\ answer' = [answer EXCEPT ![c] = a]

\* The receipt of a request, and what is not received.
Verifies(c) ==
  \E r \in Requests :
    /\ Moves(c, {"new"}, "verifying")
    /\ booted /\ now <= ExpiresAt[r]
    /\ req' = [req EXCEPT ![c] = r]
    /\ UNCHANGED <<answer, book>>

TurnsAway(c) ==
  \E r \in Requests :
    /\ Moves(c, {"new"}, "done")
    /\ \E a \in Answers : Says(c, a) /\ Truthful(r, a)
    /\ req' = [req EXCEPT ![c] = r]
    /\ UNCHANGED book

\* The replay guard, for a first delivery and for another.
Admits(c) ==
  /\ Moves(c, {"verifying"}, "admitted")
  /\ req[c] \notin Unexpired /\ consumed' = Unexpired \cup {req[c]}
  /\ reconsumed' = reconsumed \cup {q \in {req[c]} : now > ExpiresAt[q] /\ Preceded(c)}
  /\ UNCHANGED <<req, answer, completed, records, disk, effects, outcome, halted>>

Repeats(c) ==
  /\ \/ Moves(c, {"verifying"}, "replaying") /\ UNCHANGED answer
     \/ Moves(c, {"verifying"}, "done") /\ \E a \in Answers : Says(c, a) /\ Truthful(req[c], a)
  /\ consumed' = Unexpired
  /\ UNCHANGED <<req, completed, records, disk, effects, outcome, halted, reconsumed>>

\* An answer before there is a claim.
AnswersEarly(c) ==
  /\ Moves(c, {"replaying", "admitted", "looked"}, "done")
  /\ \E a \in Answers : Says(c, a) /\ Truthful(req[c], a)
  /\ UNCHANGED <<req, book>>

\* On to the next stage, with nothing written.
Advances(c) ==
  /\ \/ Moves(c, {"admitted"}, "looked") \/ Moves(c, {"claimed"}, "registered")
     \/ Moves(c, {"registered"}, "queued") \/ Moves(c, {"queued"}, "acquired")
     \/ Moves(c, {"acquired"}, "permitted")
     \/ Moves(c, {"finalized"}, "ended") \/ Moves(c, {"ended"}, "recorded")
  /\ UNCHANGED <<req, answer, book>>

Claims(c) ==
  /\ Moves(c, {"looked"}, "claimed")
  /\ completed[KeyOf[req[c]]] = None
  /\ completed' = [completed EXCEPT ![KeyOf[req[c]]] = [req |-> req[c], response |-> None]]
  /\ UNCHANGED <<req, answer, consumed, records, disk, effects, outcome, halted, reconsumed>>

\* A write that failed may have reached the file.
MayReachFile(c) ==
  \E t \in Responses \cup {"EffectStateUnknown"} :
    /\ disk[KeyOf[req[c]]] = None \/ disk[KeyOf[req[c]]].req = req[c]
    /\ Truthful(req[c], t)
    /\ disk' = [disk EXCEPT ![KeyOf[req[c]]] = [req |-> req[c], terminal |-> t]]

\* An error: the claim and the registration are dropped.
Drops(c) ==
  /\ Moves(c, Claiming, "done")
  /\ \E a \in Answers : Says(c, a) /\ Truthful(req[c], a)
  /\ completed' = [completed EXCEPT ![KeyOf[req[c]]] = None]
  /\ halted' = halted \/ halted' = halted \cup {req[c]}
  /\ disk' = disk \/ MayReachFile(c)
  /\ UNCHANGED <<req, consumed, records, effects, outcome, reconsumed>>

Reserves(c) ==
  /\ Moves(c, {"permitted"}, "reserved")
  /\ accepting /\ disk = records /\ disk[KeyOf[req[c]]] = None
  /\ disk' = [disk EXCEPT ![KeyOf[req[c]]] = [req |-> req[c], terminal |-> "EffectStateUnknown"]]
  /\ records' = disk'
  /\ UNCHANGED <<req, answer, consumed, completed, effects, outcome, halted, reconsumed>>

Starts(c) ==
  /\ Moves(c, {"reserved"}, "running")
  /\ effects' = [effects EXCEPT ![req[c]] = @ + 1]
  /\ UNCHANGED <<req, answer, consumed, completed, records, disk, outcome, halted, reconsumed>>

Executes(c) ==
  /\ Moves(c, {"running"}, "executed")
  /\ \E o \in Responses : Says(c, o) /\ outcome' = [outcome EXCEPT ![req[c]] = o]
  /\ UNCHANGED <<req, consumed, completed, records, disk, effects, halted,
                 reconsumed>>

Finalizes(c) ==
  /\ Moves(c, {"executed"}, "finalized")
  /\ disk = records
  /\ disk' = [disk EXCEPT ![KeyOf[req[c]]] = [req |-> req[c], terminal |-> answer[c]]]
  /\ records' = disk'
  /\ UNCHANGED <<req, answer, consumed, completed, effects, outcome, halted, reconsumed>>

Finishes(c) ==
  /\ Moves(c, {"recorded"}, "done")
  /\ completed' = [completed EXCEPT ![KeyOf[req[c]]] = [req |-> req[c], response |-> answer[c]]]
  /\ UNCHANGED <<req, answer, consumed, records, disk, effects, outcome, halted, reconsumed>>

CallShape(c) ==
  \/ Verifies(c) \/ TurnsAway(c) \/ Admits(c) \/ Repeats(c) \/ AnswersEarly(c) \/ Advances(c)
  \/ Claims(c) \/ Drops(c)
  \/ Reserves(c) \/ Starts(c) \/ Executes(c) \/ Finalizes(c) \/ Finishes(c)

-----------------------------------------------------------------------------
\* Facts about states.

\* A request has a key and a command, and a call past its delivery a request.
LEMMA RequestFacts ==
  ASSUME TypeOK
  PROVE  /\ \A r \in Requests : KeyOf[r] \in Keys /\ CommandOf[r] \in Commands
         /\ \A c \in Calls : pc[c] # "new" => req[c] \in Requests
         /\ \A c \in Calls : pc[c] \in Admitted =>
              /\ req[c] \in Requests /\ KeyOf[req[c]] \in Keys /\ CommandOf[req[c]] \in Commands
<1>1. \A c \in Calls : pc[c] \in Admitted => pc[c] # "new"
  BY DEF Admitted, Claiming, WithSlot
<1> QED BY <1>1 DEF TypeOK, CallTypes, Keys, Commands

\* What is no answer is None, and no answer is.
LEMMA AnswerFacts ==
  ASSUME TypeOK, EvidenceIsTrue, NEW r \in Requests
  PROVE  /\ CompletedAnswer(r) \in Answers \cup {None}
         /\ CompletedAnswer(r) = None => completed[KeyOf[r]] = None
         /\ Truthful(r, CompletedAnswer(r))
         /\ DurableAnswer(r) \in Answers \cup {None}
         /\ DurableAnswer(r) = None => records[KeyOf[r]] = None
         /\ Truthful(r, DurableAnswer(r))
<1>1. KeyOf[r] \in Keys
  BY RequestFacts
<1>2. None \notin Answers /\ None \notin Responses
  BY RuntimeAssumption DEF Answers
<1>3. /\ CompletedAnswer(r) \in Answers \cup {None}
      /\ CompletedAnswer(r) = None => completed[KeyOf[r]] = None
      /\ Truthful(r, CompletedAnswer(r))
  <2>1. completed[KeyOf[r]] = None \/ completed[KeyOf[r]] \in CompletedEntries
    BY <1>1 DEF TypeOK, CallTypes
  <2>2. CASE completed[KeyOf[r]] = None
    BY <2>2, <1>2 DEF CompletedAnswer, Truthful
  <2>3. CASE completed[KeyOf[r]] # None
    <3>1. /\ completed[KeyOf[r]].response \in Responses \cup {None}
          /\ Truthful(completed[KeyOf[r]].req, completed[KeyOf[r]].response)
      BY <2>1, <2>3, <1>1 DEF CompletedEntries, EvidenceIsTrue
    <3> QED BY <2>3, <3>1, <1>2 DEF CompletedAnswer, Truthful, Answers, Responses
  <2> QED BY <2>2, <2>3
<1>4. /\ DurableAnswer(r) \in Answers \cup {None}
      /\ DurableAnswer(r) = None => records[KeyOf[r]] = None
      /\ Truthful(r, DurableAnswer(r))
  <2>1. records[KeyOf[r]] = None \/ records[KeyOf[r]] \in DurableRecords
    BY <1>1 DEF TypeOK, CallTypes
  <2>2. CASE records[KeyOf[r]] = None
    BY <2>2, <1>2 DEF DurableAnswer, Truthful
  <2>3. CASE records[KeyOf[r]] # None
    <3>1. /\ records[KeyOf[r]].terminal \in Responses \cup {"EffectStateUnknown"}
          /\ Truthful(records[KeyOf[r]].req, records[KeyOf[r]].terminal)
      BY <2>1, <2>3, <1>1 DEF DurableRecords, EvidenceIsTrue
    <3> QED BY <2>3, <3>1, <1>2 DEF DurableAnswer, Truthful, Answers, Responses
  <2> QED BY <2>2, <2>3
<1> QED BY <1>3, <1>4

-----------------------------------------------------------------------------
\* Every step of a call has a shape.

\* execute, as far as the checks of the receipt.
LEMMA SubmitShape ==
  ASSUME NEW c \in Calls, Submit(c)
  PROVE  Verifies(c) \/ TurnsAway(c)
<1>1. PICK r \in MayDeliver[c] : Submit(c)!(r)
  BY DEF Submit
<1>2. r \in Requests
  BY RuntimeAssumption
<1>3. Truthful(r, "ShuttingDown") /\ Truthful(r, "Expired")
  BY DEF Truthful, Responses
<1>4. "ShuttingDown" \in Answers /\ "Expired" \in Answers
  BY DEF Answers
<1>5. /\ pc[c] \in {"new"} /\ booted /\ req' = [req EXCEPT ![c] = r]
      /\ UNCHANGED <<still, book>>
  BY <1>1 DEF still, book, memory, stores, history
<1>6. CASE now <= ExpiresAt[r] /\ Goto(c, "verifying")
  BY <1>2, <1>5, <1>6 DEF Verifies, Moves, Goto
<1>7. CASE Return(c, "ShuttingDown") \/ Return(c, "Expired")
  BY <1>2, <1>3, <1>4, <1>5, <1>7 DEF TurnsAway, Moves, Return, Says
<1> QED BY <1>1, <1>6, <1>7

\* consume, which lets a call through or has it repeat an answer.
LEMMA ConsumeShape ==
  ASSUME TypeOK, EvidenceIsTrue, NEW c \in Calls, Consume(c)
  PROVE  Admits(c) \/ Repeats(c)
<1>1. pc[c] = "verifying" /\ req[c] \in Requests
  BY RequestFacts DEF Consume
<1>2. UNCHANGED <<still, req, completed, records, disk, effects, outcome, halted>>
  BY DEF Consume, still, stores, unaffected
<1>3. CASE /\ req[c] \notin Unexpired /\ Goto(c, "admitted")
           /\ consumed' = Unexpired \cup {req[c]}
           /\ reconsumed' = reconsumed \cup {q \in {req[c]} : now > ExpiresAt[q] /\ Preceded(c)}
  BY <1>1, <1>2, <1>3 DEF Admits, Moves, Goto
<1>4. CASE /\ ReturnOr(c, CompletedAnswer(req[c]), "replaying")
           /\ consumed' = Unexpired /\ UNCHANGED reconsumed
  <2>1. CASE CompletedAnswer(req[c]) = None
    BY <1>1, <1>2, <1>4, <2>1 DEF Repeats, Moves, ReturnOr, Goto
  <2>2. CASE CompletedAnswer(req[c]) # None
    <3>1. CompletedAnswer(req[c]) \in Answers /\ Truthful(req[c], CompletedAnswer(req[c]))
      BY <1>1, <2>2, AnswerFacts
    <3> HIDE DEF CompletedAnswer
    <3> QED BY <1>1, <1>2, <1>4, <2>2, <3>1 DEF Repeats, Moves, ReturnOr, Return, Says
  <2> QED BY <2>1, <2>2
<1> QED BY <1>3, <1>4 DEF Consume

\* The look at the durable records, for a replay and for the first delivery.
LEMMA LookUpShape ==
  ASSUME TypeOK, EvidenceIsTrue, NEW c \in Calls, Replay(c) \/ LookUp(c)
  PROVE  AnswersEarly(c) \/ Advances(c)
<1>1. pc[c] \in {"replaying", "admitted"} /\ req[c] \in Requests
  BY RequestFacts DEF Replay, LookUp
<1>2. UNCHANGED <<still, req, book>>
  BY DEF Replay, LookUp, still, book, memory, stores, history, unaffected
<1>3. /\ DurableAnswer(req[c]) \in Answers \cup {None}
      /\ Truthful(req[c], DurableAnswer(req[c]))
  BY <1>1, AnswerFacts
<1>4. "EffectStateUnknown" \in Answers /\ Truthful(req[c], "EffectStateUnknown")
  BY DEF Answers, Truthful, Responses
<1>5. CASE ResolveFails(c)
  <2>1. Return(c, "DurableRecoveryUnavailable")
    BY <1>5 DEF ResolveFails
  <2>2. /\ "DurableRecoveryUnavailable" \in Answers
        /\ Truthful(req[c], "DurableRecoveryUnavailable")
    BY DEF Answers, Truthful, Responses
  <2> QED BY <1>1, <1>2, <2>1, <2>2 DEF Return, AnswersEarly, Moves, Says
<1>6. CASE Replay(c) /\ ~ResolveFails(c)
  <2>1. CASE DurableAnswer(req[c]) = None
    BY <1>1, <1>2, <1>4, <1>6, <2>1 DEF Replay, Return, AnswersEarly, Moves, Says
  <2>2. CASE DurableAnswer(req[c]) # None
    BY <1>1, <1>2, <1>3, <1>6, <2>2 DEF Replay, Return, AnswersEarly, Moves, Says
  <2> QED BY <2>1, <2>2
<1>7. CASE LookUp(c) /\ ~ResolveFails(c)
  <2>1. CASE DurableAnswer(req[c]) = None
    BY <1>1, <1>2, <1>7, <2>1 DEF LookUp, ReturnOr, Goto, Advances, Moves
  <2>2. CASE DurableAnswer(req[c]) # None
    BY <1>1, <1>2, <1>3, <1>7, <2>2 DEF LookUp, ReturnOr, Return, AnswersEarly, Moves, Says
  <2> QED BY <2>1, <2>2
<1> QED BY <1>5, <1>6, <1>7

\* The claim, made or refused.
LEMMA ClaimShape ==
  ASSUME TypeOK, EvidenceIsTrue, NEW c \in Calls, Claim(c)
  PROVE  AnswersEarly(c) \/ Claims(c)
<1> DEFINE full == Cardinality({k \in Keys : completed[k] # None}) >= CompletedCapacity
           a == IF completed[KeyOf[req[c]]] = None /\ full THEN "IdempotencyUnavailable"
                ELSE CompletedAnswer(req[c])
<1>1. pc[c] = "looked" /\ req[c] \in Requests
  BY RequestFacts DEF Claim
<1>2. UNCHANGED <<still, req, consumed, records, disk, effects, outcome, halted, reconsumed>>
  BY DEF Claim, still, stores, history, unaffected
<1>3. /\ ReturnOr(c, a, "claimed")
      /\ completed' = IF a = None
                      THEN [completed EXCEPT ![KeyOf[req[c]]] = [req |-> req[c], response |-> None]]
                      ELSE completed
  BY DEF Claim
<1>4. "IdempotencyUnavailable" \in Answers /\ Truthful(req[c], "IdempotencyUnavailable")
  BY DEF Answers, Truthful, Responses
<1>5. None \notin Answers
  BY RuntimeAssumption
<1>6. a \in Answers \cup {None} /\ Truthful(req[c], a) /\ (a = None => completed[KeyOf[req[c]]] = None)
  BY <1>1, <1>4, <1>5, AnswerFacts
<1> HIDE DEF a
<1>7. CASE a = None
  BY <1>1, <1>2, <1>3, <1>6, <1>7 DEF ReturnOr, Goto, Claims, Moves
<1>8. CASE a # None
  BY <1>1, <1>2, <1>3, <1>6, <1>8 DEF ReturnOr, Return, AnswersEarly, Moves, Says, book
<1> QED BY <1>7, <1>8

\* The errors of the code, none of which is a response.
LEMMA ErrorFacts ==
  ASSUME NEW r,
         NEW a \in {"AlreadyActive", "WorkerFailed", "CancelledBeforeExecution", "ResourceBusy",
                    "Backpressure", "ShuttingDown", "DurableRecoveryUnavailable"}
  PROVE  a \in Answers /\ Truthful(r, a)
BY DEF Answers, Truthful, Responses

\* complete_before_execution drops what the call holds.
LEMMA RefusalDrops ==
  ASSUME NEW c \in Calls, pc[c] \in Claiming,
         NEW a \in {"CancelledBeforeExecution", "ResourceBusy", "Backpressure", "ShuttingDown"},
         RefuseToRun(c, a)
  PROVE  Drops(c)
<1>1. a \in Answers /\ Truthful(req[c], a)
  BY ErrorFacts
<1>2. halted' = halted \/ halted' = halted \cup {req[c]}
  BY DEF RefuseToRun
<1>3. UNCHANGED <<still, req, consumed, records, disk, effects, outcome, reconsumed>>
  BY DEF RefuseToRun, still, stores, unaffected
<1> QED BY <1>1, <1>2, <1>3 DEF RefuseToRun, Drops, Moves, Says, Return, Abandon

\* So does an error after the guards exist.
LEMMA FailureDrops ==
  ASSUME NEW c \in Calls, pc[c] \in Claiming, NEW a \in Answers, Truthful(req[c], a),
         Fail(c, a), records' = records, disk' = disk \/ MayReachFile(c)
  PROVE  Drops(c)
<1>1. UNCHANGED <<still, req, consumed, effects, outcome, halted, reconsumed>>
  BY DEF Fail, still, history, unaffected
<1> QED BY <1>1 DEF Fail, Drops, Moves, Says, Return, Abandon

\* The registry: registration and the way to the queue.
LEMMA RegisterShape ==
  ASSUME NEW c \in Calls, Register(c) \/ Enqueue(c)
  PROVE  Advances(c) \/ Drops(c)
<1>1. UNCHANGED <<still, req, consumed, records, disk, effects, outcome, halted, reconsumed>>
  BY DEF Register, Enqueue, still, stores, history, unaffected
<1>2. /\ "AlreadyActive" \in Answers /\ Truthful(req[c], "AlreadyActive")
      /\ "WorkerFailed" \in Answers /\ Truthful(req[c], "WorkerFailed")
  BY ErrorFacts
<1>3. "claimed" \in Claiming /\ "registered" \in Claiming
  BY DEF Claiming
<1>4. CASE Register(c)
  <2>1. pc[c] = "claimed"
    BY <1>4 DEF Register
  <2>2. CASE Return(c, "AlreadyActive") /\ Abandon(c)
    BY <1>1, <1>2, <1>3, <2>1, <2>2 DEF Return, Abandon, Drops, Moves, Says
  <2>3. CASE Goto(c, "registered") /\ UNCHANGED completed
    BY <1>1, <2>1, <2>3 DEF Goto, Advances, Moves, book
  <2> QED BY <1>4, <2>2, <2>3 DEF Register
<1>5. CASE Enqueue(c)
  <2>1. pc[c] = "registered"
    BY <1>5 DEF Enqueue
  <2>2. CASE Return(c, "WorkerFailed") /\ Abandon(c)
    BY <1>1, <1>2, <1>3, <2>1, <2>2 DEF Return, Abandon, Drops, Moves, Says
  <2>3. CASE Goto(c, "queued") /\ UNCHANGED completed
    BY <1>1, <2>1, <2>3 DEF Goto, Advances, Moves, book
  <2> QED BY <1>5, <2>2, <2>3 DEF Enqueue
<1> QED BY <1>4, <1>5

\* Waiting for the slot and for a permit.
LEMMA AcquireShape ==
  ASSUME NEW c \in Calls, Acquire(c) \/ ResourceBusy(c) \/ TakePermit(c)
  PROVE  Advances(c) \/ Drops(c)
<1>1. pc[c] \in {"queued", "acquired"} /\ pc[c] \in Claiming
  BY DEF Acquire, ResourceBusy, TakePermit, Claiming, WithSlot
<1>2. ASSUME \/ pc[c] = "queued" /\ Proceed(c, "acquired")
             \/ pc[c] = "acquired" /\ Proceed(c, "permitted")
      PROVE  Advances(c)
  <2>1. UNCHANGED <<still, req, book>>
    BY <1>2 DEF Proceed, still, book, memory, stores, history, unaffected
  <2> QED BY <1>2, <2>1 DEF Proceed, Goto, Advances, Moves
<1>3. CASE Acquire(c)
  BY <1>1, <1>2, <1>3, RefusalDrops DEF Acquire
<1>4. CASE ResourceBusy(c)
  BY <1>1, <1>4, RefusalDrops DEF ResourceBusy
<1>5. CASE TakePermit(c)
  BY <1>1, <1>2, <1>5, RefusalDrops DEF TakePermit
<1> QED BY <1>3, <1>4, <1>5

\* The reservation, made, refused or lost on its way to the file.
LEMMA ReserveShape ==
  ASSUME TypeOK, EvidenceIsTrue, NEW c \in Calls, Reserve(c)
  PROVE  Reserves(c) \/ Drops(c)
<1> DEFINE r == req[c]
           next == [records EXCEPT ![KeyOf[r]] = [req |-> r, terminal |-> "EffectStateUnknown"]]
<1>1. pc[c] = "permitted" /\ pc[c] \in Claiming /\ r \in Requests
  BY RequestFacts DEF Reserve, Claiming, WithSlot
<1>2. "DurableRecoveryUnavailable" \in Answers /\ Truthful(r, "DurableRecoveryUnavailable")
  BY ErrorFacts
<1>3. None \notin Answers
  BY RuntimeAssumption
<1>4. /\ ReserveAnswer(r) \in Answers \cup {None}
      /\ Truthful(r, ReserveAnswer(r))
      /\ ReserveAnswer(r) = None => records[KeyOf[r]] = None
  BY <1>1, <1>2, <1>3, AnswerFacts DEF ReserveAnswer
<1>5. CASE RefuseToRun(c, "ShuttingDown")
  BY <1>1, <1>5, RefusalDrops
<1>6. CASE ReserveAnswer(r) # None /\ Fail(c, ReserveAnswer(r)) /\ UNCHANGED <<stores, faults>>
  <2>1. records' = records /\ disk' = disk
    BY <1>6 DEF stores
  <2>2. ReserveAnswer(r) \in Answers
    BY <1>4, <1>6
  <2> QED BY <1>1, <1>4, <1>6, <2>1, <2>2, FailureDrops
<1>7. CASE accepting /\ ReserveAnswer(r) = None /\ Commits(next) /\ Goto(c, "reserved")
           /\ UNCHANGED <<memory, life, signal, history, unaffected>>
  <2>1. UNCHANGED <<still, req, consumed, completed, effects, outcome, halted, reconsumed>>
    BY <1>7 DEF still, memory, history, unaffected
  <2>2. records[KeyOf[r]] = None
    BY <1>4, <1>7
  <2> QED BY <1>1, <1>7, <2>1, <2>2 DEF Commits, Goto, Reserves, Moves
<1>8. CASE ReserveAnswer(r) = None /\ CommitFails(next) /\ Fail(c, "DurableRecoveryUnavailable")
  <2>1. records[KeyOf[r]] = None
    BY <1>4, <1>8
  <2>2. Truthful(r, "EffectStateUnknown")
    BY DEF Truthful, Responses
  <2>3. records' = records /\ (disk' = disk \/ (disk = records /\ disk' = next))
    BY <1>8 DEF CommitFails, stores
  <2>4. disk' = disk \/ MayReachFile(c)
    BY <2>1, <2>2, <2>3 DEF MayReachFile
  <2> QED BY <1>1, <1>2, <1>8, <2>3, <2>4, FailureDrops
<1> QED BY <1>5, <1>6, <1>7, <1>8 DEF Reserve

\* The effect itself, and a worker that panics in it.
LEMMA EffectShape ==
  ASSUME NEW c \in Calls, Start(c) \/ Execute(c) \/ WorkerPanic(c)
  PROVE  Starts(c) \/ Executes(c) \/ Drops(c)
<1>1. CASE Start(c)
  <2>1. CASE RunEffect(c)
    <3>1. UNCHANGED <<still, req, answer, consumed, completed, records, disk, outcome, halted,
                      reconsumed>>
      BY <2>1 DEF RunEffect, Goto, still, memory, stores, unaffected
    <3> QED BY <1>1, <2>1, <3>1 DEF Start, RunEffect, Goto, Starts, Moves
  <2>2. CASE Fail(c, "WorkerFailed") /\ UNCHANGED <<stores, faults>>
    <3>1. pc[c] \in Claiming
      BY <1>1 DEF Start, Claiming, WithSlot
    <3> QED BY <2>2, <3>1, ErrorFacts, FailureDrops DEF stores
  <2> QED BY <1>1, <2>1, <2>2 DEF Start
<1>2. CASE Execute(c)
  <2>1. UNCHANGED <<still, req, consumed, completed, records, disk, effects, halted, reconsumed>>
    BY <1>2 DEF Execute, still, memory, stores, unaffected
  <2>2. Responses \subseteq Answers
    BY DEF Answers
  <2> QED BY <1>2, <2>1, <2>2 DEF Execute, Executes, Moves, Says
<1>3. CASE WorkerPanic(c)
  <2>1. "running" \in Claiming
    BY DEF Claiming, WithSlot
  <2> QED BY <1>3, <2>1, ErrorFacts, FailureDrops DEF WorkerPanic, stores
<1> QED BY <1>1, <1>2, <1>3

\* The outcome on its way to the file.
LEMMA FinalizeShape ==
  ASSUME TypeOK, ReservationIsDurable, OutcomeIsAnswer, NEW c \in Calls, Finalize(c)
  PROVE  Finalizes(c) \/ Drops(c)
<1> DEFINE r == req[c]
           next == [records EXCEPT ![KeyOf[r]] = [req |-> r, terminal |-> answer[c]]]
<1>1. pc[c] = "executed" /\ pc[c] \in Claiming /\ r \in Requests
  BY RequestFacts DEF Finalize, Claiming, WithSlot
<1>2. "DurableRecoveryUnavailable" \in Answers /\ Truthful(r, "DurableRecoveryUnavailable")
  BY ErrorFacts
<1>3. CASE Commits(next) /\ Goto(c, "finalized") /\ UNCHANGED <<memory, life, signal, history, unaffected>>
  <2>1. UNCHANGED <<still, req, consumed, completed, effects, outcome, halted, reconsumed>>
    BY <1>3 DEF still, memory, history, unaffected
  <2> QED BY <1>1, <1>3, <2>1 DEF Commits, Goto, Finalizes, Moves
<1>4. CASE CommitFails(next) /\ Fail(c, "DurableRecoveryUnavailable")
  <2>1. disk[KeyOf[r]].req = r
    <3>1. disk[KeyOf[r]] = [req |-> r, terminal |-> "EffectStateUnknown"]
      BY <1>1 DEF ReservationIsDurable
    <3> QED BY <3>1
  <2>2. answer[c] \in Responses /\ Truthful(r, answer[c])
    BY <1>1 DEF OutcomeIsAnswer, Truthful
  <2>3. records' = records /\ (disk' = disk \/ (disk = records /\ disk' = next))
    BY <1>4 DEF CommitFails, stores
  <2>4. disk' = disk \/ MayReachFile(c)
    BY <2>1, <2>2, <2>3 DEF MayReachFile
  <2> QED BY <1>1, <1>2, <1>4, <2>3, <2>4, FailureDrops
<1> QED BY <1>3, <1>4 DEF Finalize

\* The end of the lifecycle, its entry in the index, and the answer.
LEMMA FinishShape ==
  ASSUME TypeOK, NEW c \in Calls, CompleteLifecycle(c) \/ RecordTerminal(c) \/ Finish(c)
  PROVE  Advances(c) \/ Drops(c) \/ Finishes(c)
<1>1. UNCHANGED <<records, disk>> /\ pc[c] \in Claiming
  BY DEF CompleteLifecycle, RecordTerminal, Finish, stores, Claiming, WithSlot
<1>2. CASE CompleteLifecycle(c)
  <2>1. CASE Fail(c, "WorkerFailed")
    BY <1>1, <2>1, ErrorFacts, FailureDrops
  <2>2. CASE Goto(c, "ended") /\ UNCHANGED <<memory, signal, history, unaffected>>
    <3>1. UNCHANGED <<still, req, book>>
      BY <1>1, <2>2 DEF still, book, memory, history, unaffected
    <3> QED BY <1>2, <2>2, <3>1 DEF CompleteLifecycle, Goto, Advances, Moves
  <2> QED BY <1>2, <2>1, <2>2 DEF CompleteLifecycle
<1>3. CASE RecordTerminal(c)
  <2>1. CASE Fail(c, "DurableRecoveryUnavailable")
    BY <1>1, <2>1, ErrorFacts, FailureDrops
  <2>2. CASE /\ Goto(c, "recorded")
             /\ UNCHANGED <<memory, life, signal, receipts, cpc, verdict, history, req, now, booted,
                            crashes, faults>>
    <3>1. UNCHANGED <<still, req, book>>
      BY <1>1, <2>2 DEF still, book, memory, history
    <3> QED BY <1>3, <2>2, <3>1 DEF RecordTerminal, Goto, Advances, Moves
  <2> QED BY <1>3, <2>1, <2>2 DEF RecordTerminal
<1>4. CASE Finish(c)
  <2>1. UNCHANGED <<still, req, consumed, effects, outcome, halted, reconsumed>>
    BY <1>4 DEF Finish, still, history, unaffected
  <2>2. answer' = answer
    BY <1>4 DEF Finish, Return, TypeOK, CallTypes
  <2> QED BY <1>1, <1>4, <2>1, <2>2 DEF Finish, Return, Finishes, Moves
<1> QED BY <1>2, <1>3, <1>4

\* Every step of a call has one of the shapes.
LEMMA CallStepShape ==
  ASSUME TypeOK, CallInv, NEW c \in Calls,
         Submit(c) \/ CallStep(c) \/ ResourceBusy(c) \/ WorkerPanic(c)
  PROVE  CallShape(c)
BY SubmitShape, ConsumeShape, LookUpShape, ClaimShape, RegisterShape, AcquireShape,
   ReserveShape, EffectShape,
   FinalizeShape, FinishShape DEF CallStep, CallShape, CallInv

-----------------------------------------------------------------------------
\* A step of a call preserves the invariant, shape by shape.

\* The stores keep their types.
LEMMA ShapeTypes ==
  ASSUME TypeOK, CallInv, NEW c \in Calls, CallShape(c)
  PROVE  CallTypes'
<1> USE DEF TypeOK, CallTypes
<1>1. c \in Calls /\ (pc[c] # "new" => req[c] \in Requests /\ KeyOf[req[c]] \in Keys)
  BY RequestFacts
<1>2. \A q \in Requests, t \in Responses \cup {"EffectStateUnknown"} :
        [req |-> q, terminal |-> t] \in DurableRecords
  BY DEF DurableRecords
<1>3. \A q \in Requests, t \in Responses \cup {None} :
        [req |-> q, response |-> t] \in CompletedEntries
  BY DEF CompletedEntries
<1>4. {"new", "verifying", "admitted", "replaying", "done", "looked", "registered", "queued", "acquired",
       "permitted", "ended", "recorded", "claimed", "reserved", "running", "executed",
       "finalized"} \subseteq CallStates
  BY DEF CallStates, InCall, Claiming, WithSlot
<1>5. "new" \notin Claiming
  BY DEF Claiming, WithSlot
<1>6. CASE Verifies(c)
  BY <1>4, <1>6 DEF Verifies, Moves, still, book
<1>7. CASE TurnsAway(c)
  BY <1>4, <1>7 DEF TurnsAway, Moves, Says, still, book
<1>8. CASE AnswersEarly(c)
  BY <1>1, <1>4, <1>8 DEF AnswersEarly, Moves, Says, still, book
<1>9. CASE Advances(c)
  BY <1>1, <1>4, <1>9 DEF Advances, Moves, still, book
<1>10. CASE Claims(c)
  BY <1>1, <1>3, <1>4, <1>10 DEF Claims, Moves, still
<1>11. CASE Drops(c)
  <2>1. disk' \in [Keys -> DurableRecords \cup {None}]
    <3>1. CASE disk' = disk
      BY <3>1
    <3>2. CASE MayReachFile(c)
      <4>1. PICK t \in Responses \cup {"EffectStateUnknown"} :
              disk' = [disk EXCEPT ![KeyOf[req[c]]] = [req |-> req[c], terminal |-> t]]
        BY <3>2 DEF MayReachFile
      <4>2. [req |-> req[c], terminal |-> t] \in DurableRecords
        BY <1>1, <1>2, <1>5, <1>11 DEF Drops, Moves
      <4> QED BY <4>1, <4>2
    <3> QED BY <1>11, <3>1, <3>2 DEF Drops
  <2> QED BY <1>1, <1>4, <1>5, <1>11, <2>1 DEF Drops, Moves, Says, still
<1>12. CASE Reserves(c)
  BY <1>1, <1>2, <1>4, <1>12 DEF Reserves, Moves, still
<1>13. CASE Starts(c)
  BY <1>1, <1>4, <1>13 DEF Starts, Moves, still
<1>14. CASE Executes(c)
  BY <1>1, <1>4, <1>14 DEF Executes, Moves, Says, still
<1>15. CASE Finalizes(c)
  <2>1. answer[c] \in Responses
    BY <1>15 DEF Finalizes, Moves, CallInv, OutcomeIsAnswer
  <2> QED BY <1>1, <1>2, <1>4, <1>15, <2>1 DEF Finalizes, Moves, still
<1>16. CASE Finishes(c)
  <2>1. answer[c] \in Responses
    BY <1>16 DEF Finishes, Moves, CallInv, OutcomeIsAnswer
  <2> QED BY <1>1, <1>3, <1>4, <1>16, <2>1 DEF Finishes, Moves, still
<1>17. CASE Admits(c)
  BY <1>1, <1>4, <1>17 DEF Admits, Unexpired, Moves, still
<1>18. CASE Repeats(c)
  BY <1>1, <1>4, <1>18 DEF Repeats, Unexpired, Moves, Says, still
<1> QED BY <1>6, <1>7, <1>8, <1>9, <1>10, <1>11, <1>12, <1>13, <1>14, <1>15, <1>16,
   <1>17, <1>18 DEF CallShape

\* What every shape leaves alone: the other calls, the clock and shutdown.
LEMMA ShapeFrame ==
  ASSUME TypeOK, NEW c \in Calls, CallShape(c)
  PROVE  /\ \A d \in Calls \ {c} : pc'[d] = pc[d] /\ req'[d] = req[d] /\ answer'[d] = answer[d]
         /\ pc[c] # "new" => req' = req
         /\ UNCHANGED still
<1> QED BY DEF CallShape, TypeOK, CallTypes, Verifies, TurnsAway, Admits, Repeats, AnswersEarly,
   Advances, Claims, Drops,
   Reserves, Starts, Executes, Finalizes, Finishes, Moves, Says, still, book

\* How a call gets to where it is.
LEMMA ShapeControl ==
  ASSUME TypeOK, NEW c \in Calls, CallShape(c)
  PROVE  /\ pc'[c] \in Admitted => Admits(c) \/ (pc[c] \in Admitted /\ ~Admits(c))
         /\ pc'[c] \in Claiming => Claims(c) \/ (pc[c] \in Claiming /\ ~Claims(c))
         /\ pc'[c] = "verifying" => Verifies(c)
         /\ pc'[c] \in InCall => booted \/ pc[c] \in InCall
         /\ pc'[c] = "reserved" => Reserves(c)
         /\ pc'[c] = "running" => Starts(c)
         /\ pc'[c] = "executed" => Executes(c)
         /\ pc'[c] = "finalized" => Finalizes(c)
         /\ pc'[c] \in {"ended", "recorded"} => Advances(c) /\ pc[c] \in {"finalized", "ended"}
<1> USE DEF TypeOK, CallTypes, Moves, Admitted, Claiming, WithSlot, InCall
<1>1. CASE Verifies(c) \/ TurnsAway(c)
  BY <1>1 DEF Verifies, TurnsAway
<1>2. CASE Admits(c) \/ Repeats(c)
  BY <1>2 DEF Admits, Repeats
<1>3. CASE pc[c] \notin {"new", "verifying"}
  <2>1. ~Verifies(c) /\ ~TurnsAway(c) /\ ~Admits(c) /\ ~Repeats(c)
    BY <1>3 DEF Verifies, TurnsAway, Admits, Repeats
  <2>2. CASE AnswersEarly(c)
    BY <2>1, <2>2 DEF AnswersEarly
  <2>3. CASE Advances(c)
    <3>1. ~Claims(c)
      BY <2>3 DEF Advances, Claims
    <3> QED BY <2>1, <2>3, <3>1 DEF Advances
  <2>4. CASE Claims(c)
    BY <2>1, <2>4 DEF Claims
  <2>5. CASE Drops(c)
    BY <2>1, <2>5 DEF Drops
  <2>6. CASE Reserves(c)
    BY <2>1, <2>6 DEF Reserves, Claims
  <2>7. CASE Starts(c)
    BY <2>1, <2>7 DEF Starts, Claims
  <2>8. CASE Executes(c)
    BY <2>1, <2>8 DEF Executes, Claims
  <2>9. CASE Finalizes(c)
    BY <2>1, <2>9 DEF Finalizes, Claims
  <2>10. CASE Finishes(c)
    BY <2>1, <2>10 DEF Finishes
  <2> QED BY <2>1, <2>2, <2>3, <2>4, <2>5, <2>6, <2>7, <2>8, <2>9, <2>10 DEF CallShape
<1>4. CASE pc[c] \in {"new", "verifying"}
  <2>1. Verifies(c) \/ TurnsAway(c) \/ Admits(c) \/ Repeats(c)
    BY <1>4 DEF CallShape, AnswersEarly, Advances, Claims, Drops, Reserves, Starts, Executes,
       Finalizes, Finishes
  <2> QED BY <1>1, <1>2, <2>1
<1> QED BY <1>3, <1>4

\* Calls are served by a process that is up.
LEMMA ShapeDown ==
  ASSUME TypeOK, CallInv, NEW c \in Calls, CallShape(c)
  PROVE  DownServesNone'
BY ShapeFrame, ShapeControl DEF CallInv, DownServesNone, still

\* What the replay guard forgets has expired.
LEMMA ForgottenIsExpired ==
  ASSUME TypeOK, NEW r \in Requests, r \notin Unexpired
  PROVE  r \notin consumed \/ now > ExpiresAt[r]
<1>1. ExpiresAt[r] \in Nat /\ now \in Nat
  BY RuntimeAssumption DEF TypeOK, CallTypes
<1> QED BY <1>1 DEF Unexpired

\* It lets one call through for each request, or says that it let another.
LEMMA ShapeAuthorized ==
  ASSUME TypeOK, CallInv, NEW c \in Calls, CallShape(c)
  PROVE  AuthorizedOnce'
<1> DEFINE Known(r) == r \in consumed \/ now > ExpiresAt[r]
<1>1. \A d \in Calls \ {c} : pc'[d] = pc[d] /\ req'[d] = req[d]
  BY ShapeFrame
<1>2. now' = now
  BY ShapeFrame DEF still
<1>3. /\ \A r \in halted : Known(r) /\ \E d \in Calls : pc[d] = "done" /\ req[d] = r
      /\ \A d \in Calls : pc[d] \in Admitted =>
           Known(req[d]) /\ (req[d] \in halted => req[d] \in reconsumed)
      /\ \A d, e \in Calls : pc[d] \in Admitted /\ pc[e] \in Admitted /\ req[d] = req[e] =>
           d = e \/ req[d] \in reconsumed
  BY DEF CallInv, AuthorizedOnce
<1>4. "done" \notin Admitted /\ "verifying" \notin Admitted /\ "new" \notin Admitted
  BY DEF Admitted, Claiming, WithSlot
<1>5. /\ halted \subseteq Requests
      /\ \A d \in Calls : pc[d] \in Admitted => req[d] \in Requests
  BY RequestFacts DEF TypeOK, CallTypes
<1>6. pc[c] # "done"
  BY DEF CallShape, Verifies, TurnsAway, Admits, Repeats, AnswersEarly, Advances, Claims, Drops,
     Reserves, Starts, Executes, Finalizes, Finishes, Moves, Claiming, WithSlot
<1>7. \A d \in Calls : pc[d] = "done" => pc'[d] = "done" /\ req'[d] = req[d]
  BY <1>1, <1>6
<1> DEFINE KnownNow(r) == r \in consumed' \/ now > ExpiresAt[r]
<1>8. \A r \in Requests : Known(r) => KnownNow(r)
  <2>1. CASE consumed' = Unexpired \/ consumed' = Unexpired \cup {req[c]}
    BY <2>1, ForgottenIsExpired
  <2>2. CASE consumed' = consumed
    BY <2>2
  <2> QED BY <2>1, <2>2 DEF CallShape, Verifies, TurnsAway, Admits, Repeats, AnswersEarly,
     Advances,
     Claims, Drops, Reserves, Starts, Executes, Finalizes, Finishes, book
<1>9. CASE Admits(c)
  <2>1. /\ pc[c] = "verifying" /\ pc'[c] = "admitted" /\ req' = req /\ halted' = halted
        /\ req[c] \notin Unexpired /\ req[c] \in consumed'
        /\ reconsumed' = reconsumed \cup {q \in {req[c]} : now > ExpiresAt[q] /\ Preceded(c)}
    BY <1>9 DEF Admits, Moves, TypeOK, CallTypes
  <2>2. req[c] \in Requests
    BY <2>1, RequestFacts
  <2>3. ASSUME Known(req[c]), NEW d \in Calls, req[d] = req[c], pc[d] \notin {"new", "verifying"}
        PROVE  req[c] \in reconsumed'
    <3>1. now > ExpiresAt[req[c]]
      BY <2>1, <2>2, <2>3, ForgottenIsExpired
    <3>2. Preceded(c)
      BY <2>1, <2>3 DEF Preceded
    <3> QED BY <2>1, <3>1, <3>2
  <2>4. req[c] \in halted => req[c] \in reconsumed'
    BY <1>3, <2>3
  <2>5. \A d \in Calls : pc[d] \in Admitted /\ req[d] = req[c] => req[c] \in reconsumed'
    BY <1>3, <1>4, <2>3
  <2> HIDE DEF Known, KnownNow
  <2>6. reconsumed \subseteq reconsumed'
    BY <2>1
  <2>7. KnownNow(req[c])
    BY <2>1 DEF KnownNow
  <2>8. /\ \A r \in halted' : KnownNow(r) /\ \E d \in Calls : pc'[d] = "done" /\ req'[d] = r
        /\ \A d \in Calls : pc'[d] \in Admitted =>
             KnownNow(req'[d]) /\ (req'[d] \in halted' => req'[d] \in reconsumed')
    BY <1>1, <1>3, <1>5, <1>7, <1>8, <2>1, <2>4, <2>6, <2>7
  <2>9. \A d, e \in Calls : pc'[d] \in Admitted /\ pc'[e] \in Admitted /\ req'[d] = req'[e] =>
           d = e \/ req'[d] \in reconsumed'
    BY <1>1, <1>3, <2>1, <2>5, <2>6
  <2> QED BY <1>2, <2>8, <2>9 DEF AuthorizedOnce, KnownNow
<1>10. CASE ~Admits(c)
  <2>1. pc'[c] \in Admitted => pc[c] \in Admitted /\ req'[c] = req[c]
    BY <1>4, <1>10, ShapeControl, ShapeFrame
  <2>2. reconsumed' = reconsumed
    BY <1>10 DEF CallShape, Verifies, TurnsAway, Repeats, AnswersEarly, Advances, Claims, Drops,
       Reserves, Starts, Executes, Finalizes, Finishes, book
  <2> HIDE DEF Known, KnownNow
  <2>3. /\ \A r \in halted : KnownNow(r) /\ \E d \in Calls : pc'[d] = "done" /\ req'[d] = r
        /\ \A d \in Calls : pc'[d] \in Admitted =>
             KnownNow(req'[d]) /\ (req'[d] \in halted => req'[d] \in reconsumed')
        /\ \A d, e \in Calls : pc'[d] \in Admitted /\ pc'[e] \in Admitted /\ req'[d] = req'[e] =>
             d = e \/ req'[d] \in reconsumed'
    BY <1>1, <1>3, <1>5, <1>7, <1>8, <2>1, <2>2
  <2>4. CASE halted' = halted
    BY <1>2, <2>3, <2>4 DEF AuthorizedOnce, KnownNow
  <2>5. CASE Drops(c)
    <3>1. pc[c] \in Admitted /\ pc'[c] = "done" /\ req'[c] = req[c]
      BY <2>5 DEF Drops, Moves, Admitted, TypeOK, CallTypes
    <3>2. halted' \subseteq halted \cup {req[c]}
      BY <2>5 DEF Drops
    <3>3. KnownNow(req[c])
      BY <1>3, <1>5, <1>8, <3>1
    <3>4. \A d \in Calls : pc'[d] \in Admitted /\ req'[d] = req[c] => req[c] \in reconsumed'
      BY <1>1, <1>3, <1>4, <2>2, <3>1
    <3> QED BY <1>2, <2>3, <3>1, <3>2, <3>3, <3>4 DEF AuthorizedOnce, KnownNow
  <2> QED
    BY <1>10, <2>4, <2>5 DEF CallShape, Verifies, TurnsAway, Repeats, AnswersEarly, Advances,
       Claims,
       Reserves, Starts, Executes, Finalizes, Finishes, book
<1> QED BY <1>9, <1>10

\* Claims are made, kept and dropped with their calls.
LEMMA ShapeClaim ==
  ASSUME TypeOK, CallInv, NEW c \in Calls, CallShape(c)
  PROVE  ClaimIsHeld' /\ ClaimHasOwner'
<1>1. \A d \in Calls \ {c} : pc'[d] = pc[d] /\ req'[d] = req[d]
  BY ShapeFrame
<1>2. "new" \notin Claiming /\ "done" \notin Claiming
  BY DEF Claiming, WithSlot
<1>3. \A d \in Calls : pc[d] \in Claiming => req[d] \in Requests /\ KeyOf[req[d]] \in Keys
  BY <1>2, RequestFacts
<1>4. /\ \A d \in Calls :
           pc[d] \in Claiming => completed[KeyOf[req[d]]] = [req |-> req[d], response |-> None]
      /\ \A d, e \in Calls :
           pc[d] \in Claiming /\ pc[e] \in Claiming /\ KeyOf[req[d]] = KeyOf[req[e]] => d = e
  BY DEF CallInv, ClaimIsHeld
<1>5. \A q \in Requests : [req |-> q, response |-> None] # None
  BY RuntimeAssumption DEF CompletedEntries
<1>6. \A k \in Keys : completed[k] # None => KeyOf[completed[k].req] = k
  BY DEF CallInv, ClaimIsHeld
<1>7. CASE Claims(c)
  <2> DEFINE entry == [req |-> req[c], response |-> None]
  <2>1. /\ pc[c] = "looked" /\ pc'[c] = "claimed" /\ "claimed" \in Claiming /\ req'[c] = req[c]
        /\ completed[KeyOf[req[c]]] = None
        /\ completed' = [completed EXCEPT ![KeyOf[req[c]]] = entry]
    BY <1>7 DEF Claims, Moves, Claiming, TypeOK, CallTypes
  <2>2. KeyOf[req[c]] \in Keys
    BY <2>1, RequestFacts
  <2>3. /\ completed'[KeyOf[req[c]]] = entry /\ entry.req = req[c]
        /\ \A k \in Keys : k # KeyOf[req[c]] => completed'[k] = completed[k]
    BY <2>1, <2>2 DEF TypeOK, CallTypes
  <2>4. \A d \in Calls : pc[d] \in Claiming => KeyOf[req[d]] # KeyOf[req[c]]
    BY <1>3, <1>4, <1>5, <2>1
  <2>5. ClaimIsHeld'
    <3>1. \A k \in Keys : completed'[k] # None => KeyOf[completed'[k].req] = k
      BY <1>6, <2>3
    <3> QED BY <1>1, <1>3, <1>4, <2>1, <2>3, <2>4, <3>1 DEF ClaimIsHeld
  <2> HIDE DEF entry
  <2>6. ASSUME NEW k \in Keys, completed'[k] # None, completed'[k].response = None
        PROVE  \E d \in Calls : req'[d] = completed'[k].req /\ pc'[d] \in Claiming
    <3>1. CASE k = KeyOf[req[c]]
      BY <2>1, <2>3, <3>1
    <3>2. CASE k # KeyOf[req[c]]
      <4>1. PICK d \in Calls : req[d] = completed[k].req /\ pc[d] \in Claiming
        BY <2>3, <2>6, <3>2 DEF CallInv, ClaimHasOwner
      <4>2. d # c
        BY <2>1, <4>1 DEF Claiming, WithSlot
      <4> QED BY <1>1, <2>3, <3>2, <4>1, <4>2
    <3> QED BY <3>1, <3>2
  <2> QED BY <2>5, <2>6 DEF ClaimHasOwner
<1>8. CASE Drops(c) \/ Finishes(c)
  <2>1. /\ pc[c] \in Claiming /\ pc'[c] = "done"
    BY <1>8 DEF Drops, Finishes, Moves, Claiming, WithSlot, TypeOK, CallTypes
  <2>2. /\ \A k \in Keys : k # KeyOf[req[c]] => completed'[k] = completed[k]
        /\ completed'[KeyOf[req[c]]] = None \/ completed'[KeyOf[req[c]]].response # None
        /\ completed'[KeyOf[req[c]]] = None \/ completed'[KeyOf[req[c]]].req = req[c]
    <3>1. None \notin Responses
      BY RuntimeAssumption DEF Answers
    <3>2. CASE Drops(c)
      BY <1>3, <2>1, <3>2 DEF Drops, TypeOK, CallTypes
    <3>3. CASE Finishes(c)
      <4>1. answer[c] # None
        BY <3>1, <3>3 DEF Finishes, Moves, CallInv, OutcomeIsAnswer
      <4> DEFINE final == [req |-> req[c], response |-> answer[c]]
      <4>2. final.response # None /\ final.req = req[c]
        BY <4>1
      <4>3. completed' = [completed EXCEPT ![KeyOf[req[c]]] = final]
        BY <3>3 DEF Finishes
      <4> HIDE DEF final
      <4> QED BY <1>3, <2>1, <4>2, <4>3 DEF TypeOK, CallTypes
    <3> QED BY <1>8, <3>2, <3>3
  <2>3. ClaimIsHeld'
    <3>1. \A k \in Keys : completed'[k] # None => KeyOf[completed'[k].req] = k
      BY <1>6, <2>2
    <3> QED BY <1>1, <1>2, <1>3, <1>4, <2>1, <2>2, <3>1 DEF ClaimIsHeld
  <2>4. ASSUME NEW k \in Keys, completed'[k] # None, completed'[k].response = None
        PROVE  \E d \in Calls : req'[d] = completed'[k].req /\ pc'[d] \in Claiming
    <3>1. k # KeyOf[req[c]] /\ completed'[k] = completed[k]
      BY <2>2, <2>4
    <3>2. PICK d \in Calls : req[d] = completed[k].req /\ pc[d] \in Claiming
      BY <2>4, <3>1 DEF CallInv, ClaimHasOwner
    <3>3. d # c
      <4>1. ASSUME d = c PROVE FALSE
        <5>1. KeyOf[completed[k].req] = k
          BY <2>4, <3>1, <1>6
        <5> QED BY <3>1, <3>2, <4>1, <5>1
      <4> QED BY <4>1
    <3> QED BY <1>1, <3>1, <3>2, <3>3
  <2> QED BY <2>3, <2>4 DEF ClaimHasOwner
<1>9. CASE ~Claims(c) /\ ~Drops(c) /\ ~Finishes(c)
  <2>1. completed' = completed
    BY <1>9 DEF CallShape, Verifies, TurnsAway, Admits, Repeats, AnswersEarly, Advances,
       Reserves, Starts,
       Executes, Finalizes, book
  <2>2. pc'[c] \in Claiming => pc[c] \in Claiming /\ req'[c] = req[c]
    BY <1>2, <1>9, ShapeControl, ShapeFrame
  <2>3. pc[c] \in Claiming => pc'[c] \in Claiming /\ req'[c] = req[c]
    <3>1. req'[c] = req[c] \/ pc[c] = "new"
      BY ShapeFrame
    <3> QED BY <1>2, <1>9, <3>1 DEF CallShape, Verifies, TurnsAway, Admits, Repeats,
       AnswersEarly, Advances, Reserves, Starts,
       Executes, Finalizes, Moves, Claiming, WithSlot, TypeOK, CallTypes
  <2>4. ClaimIsHeld'
    BY <1>1, <1>4, <1>6, <2>1, <2>2 DEF ClaimIsHeld
  <2>5. ClaimHasOwner'
    <3>1. \A d \in Calls : pc[d] \in Claiming => pc'[d] \in Claiming /\ req'[d] = req[d]
      BY <1>1, <2>3
    <3> QED BY <2>1, <3>1 DEF CallInv, ClaimHasOwner
  <2> QED BY <2>4, <2>5
<1> QED BY <1>7, <1>8, <1>9

\* A call writes under its own key only, over nothing or its own record.
LEMMA ShapeStores ==
  ASSUME TypeOK, CallInv, NEW c \in Calls, CallShape(c)
  PROVE  /\ \A k \in Keys : \/ disk'[k] = disk[k] /\ records'[k] = records[k]
                            \/ pc[c] \in Claiming /\ k = KeyOf[req[c]]
         /\ \A k \in Keys : \/ disk'[k] = disk[k]
                            \/ /\ disk'[k] # None /\ disk'[k].req = req[c]
                               /\ disk[k] = None \/ disk[k].req = req[c]
<1>1. CASE UNCHANGED <<disk, records>>
  BY <1>1
<1>2. ASSUME pc[c] \in Claiming, NEW t \in Responses \cup {"EffectStateUnknown"},
             disk' = [disk EXCEPT ![KeyOf[req[c]]] = [req |-> req[c], terminal |-> t]],
             records' = records \/ (disk = records /\ records' = disk'),
             disk[KeyOf[req[c]]] = None \/ disk[KeyOf[req[c]]].req = req[c]
      PROVE  /\ \A k \in Keys : \/ disk'[k] = disk[k] /\ records'[k] = records[k]
                                \/ pc[c] \in Claiming /\ k = KeyOf[req[c]]
             /\ \A k \in Keys : \/ disk'[k] = disk[k]
                                \/ /\ disk'[k] # None /\ disk'[k].req = req[c]
                                   /\ disk[k] = None \/ disk[k].req = req[c]
  <2>1. req[c] \in Requests /\ KeyOf[req[c]] \in Keys
    BY <1>2, RequestFacts DEF Admitted
  <2> DEFINE record == [req |-> req[c], terminal |-> t]
  <2>2. record \in DurableRecords /\ record.req = req[c]
    BY <1>2, <2>1 DEF DurableRecords
  <2>3. record # None
    BY <2>2, RuntimeAssumption
  <2>4. disk' = [disk EXCEPT ![KeyOf[req[c]]] = record]
    BY <1>2
  <2> HIDE DEF record
  <2>5. /\ disk'[KeyOf[req[c]]] = record
        /\ \A k \in Keys : k # KeyOf[req[c]] => disk'[k] = disk[k]
    BY <2>1, <2>4 DEF TypeOK, CallTypes
  <2> QED BY <1>2, <2>2, <2>3, <2>5
<1>3. CASE Drops(c)
  <2>1. CASE disk' = disk
    BY <1>1, <1>3, <2>1 DEF Drops
  <2>2. CASE MayReachFile(c)
    BY <1>2, <1>3, <2>2 DEF Drops, Moves, MayReachFile
  <2> QED BY <1>3, <2>1, <2>2 DEF Drops
<1>4. CASE Reserves(c)
  BY <1>2, <1>4 DEF Reserves, Moves, Claiming, WithSlot
<1>5. CASE Finalizes(c)
  <2>1. answer[c] \in Responses
    BY <1>5 DEF Finalizes, Moves, CallInv, OutcomeIsAnswer
  <2>2. disk[KeyOf[req[c]]].req = req[c]
    <3>1. disk[KeyOf[req[c]]] = [req |-> req[c], terminal |-> "EffectStateUnknown"]
      BY <1>5 DEF Finalizes, Moves, CallInv, ReservationIsDurable
    <3> QED BY <3>1
  <2> QED BY <1>2, <1>5, <2>1, <2>2 DEF Finalizes, Moves, Claiming, WithSlot
<1> QED
  BY <1>1, <1>3, <1>4, <1>5 DEF CallShape, Verifies, TurnsAway, Admits, Repeats, AnswersEarly,
     Advances, Claims, Starts,
     Executes, Finishes, book

\* The reservation outlives the effect.
LEMMA ShapeReservation ==
  ASSUME TypeOK, CallInv, NEW c \in Calls, CallShape(c)
  PROVE  ReservationIsDurable'
<1> DEFINE Around == {"reserved", "running", "executed"}
           record(q) == [req |-> q, terminal |-> "EffectStateUnknown"]
<1> SUFFICES ASSUME NEW d \in Calls, pc'[d] \in Around
             PROVE  /\ records'[KeyOf[req'[d]]] = record(req'[d])
                    /\ disk'[KeyOf[req'[d]]] = records'[KeyOf[req'[d]]]
  BY DEF ReservationIsDurable
<1>1. Around \subseteq Claiming /\ "permitted" \in Claiming /\ "new" \notin Claiming
  BY DEF Claiming, WithSlot
<1>2. CASE d # c
  <2>1. pc[d] \in Around /\ req'[d] = req[d] /\ KeyOf[req[d]] \in Keys
    BY <1>1, <1>2, ShapeFrame, RequestFacts
  <2>2. ~(pc[c] \in Claiming /\ KeyOf[req[d]] = KeyOf[req[c]])
    BY <1>1, <1>2, <2>1 DEF CallInv, ClaimIsHeld
  <2>3. disk'[KeyOf[req[d]]] = disk[KeyOf[req[d]]] /\ records'[KeyOf[req[d]]] = records[KeyOf[req[d]]]
    BY <2>1, <2>2, ShapeStores
  <2> QED BY <2>1, <2>3 DEF CallInv, ReservationIsDurable
<1>3. CASE d = c /\ Reserves(c)
  <2>1. pc[c] = "permitted" /\ req' = req
    BY <1>3 DEF Reserves, Moves
  <2>2. KeyOf[req[c]] \in Keys
    BY <2>1, RequestFacts
  <2> QED BY <1>3, <2>1, <2>2 DEF Reserves, TypeOK, CallTypes
<1>4. CASE d = c /\ (Starts(c) \/ Executes(c))
  <2>1. pc[c] \in Around /\ UNCHANGED <<req, records, disk>>
    BY <1>4 DEF Starts, Executes, Moves
  <2> QED BY <1>4, <2>1 DEF CallInv, ReservationIsDurable
<1> QED BY <1>2, <1>3, <1>4, ShapeControl

\* Effects start one at a time.
LEMMA ShapeEffects ==
  ASSUME TypeOK, CallInv, NEW c \in Calls, CallShape(c)
  PROVE  /\ Starts(c) => /\ pc[c] = "reserved" /\ req[c] \in Requests
                         /\ effects'[req[c]] = effects[req[c]] + 1
                         /\ \A r \in Requests \ {req[c]} : effects'[r] = effects[r]
         /\ ~Starts(c) => effects' = effects
<1>1. CASE Starts(c)
  <2>1. req[c] \in Requests
    BY <1>1, RequestFacts DEF Starts, Moves
  <2> QED BY <1>1, <2>1 DEF Starts, Moves, TypeOK, CallTypes
<1>2. CASE ~Starts(c)
  BY <1>2 DEF CallShape, Verifies, TurnsAway, Admits, Repeats, AnswersEarly, Advances, Claims,
     Drops, Reserves, Executes,
     Finalizes, Finishes, book
<1> QED BY <1>1, <1>2

\* The file remembers a request as long as it could be admitted.
LEMMA ShapeRemembered ==
  ASSUME TypeOK, CallInv, NEW c \in Calls, CallShape(c)
  PROVE  EffectIsRemembered'
<1> SUFFICES ASSUME NEW r \in Requests, effects'[r] > 0
             PROVE  \/ r \in onTheEdge'
                    \/ disk'[KeyOf[r]] # None /\ disk'[KeyOf[r]].req = r
                    \/ /\ now' > ExpiresAt[r]
                       /\ \A d \in Calls : pc'[d] \in Admitted \cup {"verifying"} => req'[d] # r
  BY DEF EffectIsRemembered
<1>1. onTheEdge' = onTheEdge /\ now' = now
  BY ShapeFrame DEF still
<1>2. KeyOf[r] \in Keys
  BY RequestFacts
<1>3. CASE Starts(c) /\ r = req[c]
  <2>1. disk'[KeyOf[r]] = [req |-> r, terminal |-> "EffectStateUnknown"]
    BY <1>3 DEF Starts, Moves, CallInv, ReservationIsDurable
  <2>2. [req |-> r, terminal |-> "EffectStateUnknown"] \in DurableRecords
    BY DEF DurableRecords
  <2> QED BY <2>1, <2>2, RuntimeAssumption
<1>4. CASE effects[r] > 0
  <2>1. CASE disk[KeyOf[r]] # None /\ disk[KeyOf[r]].req = r
    BY <1>2, <2>1, ShapeStores
  <2>2. CASE /\ now > ExpiresAt[r]
             /\ \A d \in Calls : pc[d] \in Admitted \cup {"verifying"} => req[d] # r
    <3>1. ASSUME pc'[c] \in Admitted \cup {"verifying"} PROVE req'[c] # r
      <4>1. CASE Verifies(c)
        <5>1. PICK q \in Requests : now <= ExpiresAt[q] /\ req'[c] = q
          BY <4>1 DEF Verifies, TypeOK, CallTypes
        <5>2. q # r
          BY <2>2, <5>1, RuntimeAssumption DEF TypeOK, CallTypes
        <5> QED BY <5>1, <5>2
      <4>2. CASE ~Verifies(c)
        <5>1. pc[c] \in Admitted \cup {"verifying"} /\ pc[c] # "new"
          BY <3>1, <4>2, ShapeControl DEF Admits, Moves, Admitted, Claiming, WithSlot
        <5> QED BY <2>2, <5>1, ShapeFrame
      <4> QED BY <4>1, <4>2
    <3>2. \A d \in Calls : pc'[d] \in Admitted \cup {"verifying"} => req'[d] # r
      BY <2>2, <3>1, ShapeFrame
    <3> QED BY <1>1, <2>2, <3>2
  <2> QED BY <1>1, <1>4, <2>1, <2>2 DEF CallInv, EffectIsRemembered
<1> QED BY <1>3, <1>4, ShapeEffects

\* A reservation finds no trace of an effect, and an effect starts with one.
LEMMA ShapeOnce ==
  ASSUME TypeOK, CallInv, NEW c \in Calls, CallShape(c)
  PROVE  ReservedIsFirst' /\ EffectOnce'
<1>1. onTheEdge' = onTheEdge
  BY ShapeFrame DEF still
<1>2. ASSUME NEW d \in Calls, pc'[d] = "reserved"
      PROVE  effects'[req'[d]] = 0 \/ req'[d] \in onTheEdge
  <2>1. CASE d = c
    <3>1. Reserves(c)
      BY <1>2, <2>1, ShapeControl
    <3>2. /\ pc[c] = "permitted" /\ req' = req /\ disk[KeyOf[req[c]]] = None /\ effects' = effects
      BY <3>1 DEF Reserves, Moves
    <3>3. req[c] \in Requests /\ pc[c] \in Admitted
      BY <3>2, RequestFacts DEF Admitted, Claiming, WithSlot
    <3>4. effects[req[c]] > 0 => req[c] \in onTheEdge
      BY <3>2, <3>3 DEF CallInv, EffectIsRemembered
    <3>5. effects[req[c]] \in Nat
      BY <3>3 DEF TypeOK, CallTypes
    <3> QED BY <2>1, <3>2, <3>4, <3>5
  <2>2. CASE d # c
    <3>1. pc[d] = "reserved" /\ req'[d] = req[d]
      BY <1>2, <2>2, ShapeFrame
    <3>2. req[d] \in Requests /\ "reserved" \in Claiming
      BY <3>1, RequestFacts DEF Claiming, WithSlot
    <3>3. Starts(c) => req[c] # req[d]
      BY <2>2, <3>1, <3>2, ShapeEffects DEF CallInv, ClaimIsHeld
    <3>4. effects'[req[d]] = effects[req[d]]
      BY <3>2, <3>3, ShapeEffects
    <3> QED BY <3>1, <3>4 DEF CallInv, ReservedIsFirst
  <2> QED BY <2>1, <2>2
<1>3. ASSUME NEW r \in Requests PROVE effects'[r] <= 1 \/ r \in onTheEdge
  <2>1. CASE Starts(c) /\ r = req[c]
    BY <2>1, ShapeEffects DEF CallInv, ReservedIsFirst
  <2>2. CASE ~(Starts(c) /\ r = req[c])
    BY <2>2, ShapeEffects DEF CallInv, EffectOnce
  <2> QED BY <2>1, <2>2
<1> QED BY <1>1, <1>2, <1>3 DEF ReservedIsFirst, EffectOnce

\* The same of the state after a step.
StaysTrue(r, a) == a \in Responses => a = outcome'[r] \/ r \in onTheEdge'

\* Outcomes are set by the effect, once: what was true stays true.
LEMMA ShapeTruth ==
  ASSUME TypeOK, CallInv, NEW c \in Calls, CallShape(c)
  PROVE  /\ \A r \in Requests, a \in Answers \cup {None} : Truthful(r, a) => StaysTrue(r, a)
         /\ ~Executes(c) => outcome' = outcome
         /\ Executes(c) => /\ pc[c] = "running" /\ req[c] \in Requests /\ answer'[c] \in Responses
                           /\ outcome'[req[c]] = answer'[c]
                           /\ \A r \in Requests \ {req[c]} : outcome'[r] = outcome[r]
<1>1. onTheEdge' = onTheEdge
  BY ShapeFrame DEF still
<1>2. ~Executes(c) => outcome' = outcome
  BY DEF CallShape, Verifies, TurnsAway, Admits, Repeats, AnswersEarly, Advances, Claims, Drops,
     Reserves, Starts,
     Finalizes, Finishes, book
<1>3. ASSUME Executes(c)
      PROVE  /\ pc[c] = "running" /\ req[c] \in Requests /\ answer'[c] \in Responses
             /\ outcome'[req[c]] = answer'[c]
             /\ \A r \in Requests \ {req[c]} : outcome'[r] = outcome[r]
  <2>1. pc[c] = "running" /\ req[c] \in Requests
    BY <1>3, RequestFacts DEF Executes, Moves
  <2> QED BY <1>3, <2>1 DEF Executes, Says, TypeOK, CallTypes
<1>4. ASSUME NEW r \in Requests, NEW a \in Answers \cup {None}, Truthful(r, a)
      PROVE  StaysTrue(r, a)
  <2>1. CASE Executes(c) /\ r = req[c]
    <3>1. outcome[r] = None \/ r \in onTheEdge
      BY <1>3, <2>1 DEF CallInv, OutcomeIsAnswer
    <3>2. None \notin Responses
      BY RuntimeAssumption DEF Answers
    <3> QED BY <1>1, <1>4, <3>1, <3>2 DEF Truthful, StaysTrue
  <2>2. CASE ~(Executes(c) /\ r = req[c])
    BY <1>1, <1>2, <1>3, <1>4, <2>2 DEF Truthful, StaysTrue
  <2> QED BY <2>1, <2>2
<1> QED BY <1>2, <1>3, <1>4

\* The worker's answer is the outcome until the call returns it.
LEMMA ShapeOutcome ==
  ASSUME TypeOK, CallInv, NEW c \in Calls, CallShape(c)
  PROVE  OutcomeIsAnswer'
<1> DEFINE After == {"executed", "finalized", "ended", "recorded"}
<1>1. onTheEdge' = onTheEdge
  BY ShapeFrame DEF still
<1>2. \A r \in Requests : effects[r] > 0 => effects'[r] > 0
  BY ShapeEffects DEF TypeOK, CallTypes
<1>3. After \cup {"running"} \subseteq Claiming
  BY DEF Claiming, WithSlot
<1>4. \A d \in Calls \ {c} : pc'[d] = pc[d] /\ req'[d] = req[d] /\ answer'[d] = answer[d]
  BY ShapeFrame
<1>5. \A d \in Calls \ {c} : pc[d] \in Claiming => req[d] \in Requests /\ outcome'[req[d]] = outcome[req[d]]
  <2> SUFFICES ASSUME NEW d \in Calls \ {c}, pc[d] \in Claiming
               PROVE  req[d] \in Requests /\ outcome'[req[d]] = outcome[req[d]]
    OBVIOUS
  <2>1. req[d] \in Requests
    BY RequestFacts DEF Admitted
  <2>2. Executes(c) => req[c] # req[d]
    BY <1>3, ShapeTruth DEF CallInv, ClaimIsHeld
  <2> QED BY <2>1, <2>2, ShapeTruth
<1>6. ASSUME NEW r \in Requests, outcome'[r] # None PROVE effects'[r] > 0
  BY <1>2, <1>6, ShapeTruth DEF CallInv, OutcomeIsAnswer
<1>7. ASSUME NEW d \in Calls, pc'[d] = "running"
      PROVE  (outcome'[req'[d]] = None \/ req'[d] \in onTheEdge') /\ effects'[req'[d]] > 0
  <2>1. CASE d = c
    <3>1. Starts(c)
      BY <1>7, <2>1, ShapeControl
    <3>2. req' = req /\ outcome' = outcome
      BY <3>1 DEF Starts
    <3>3. pc[c] = "reserved" /\ req[c] \in Requests /\ effects'[req[c]] = effects[req[c]] + 1
      BY <3>1, ShapeEffects
    <3>4. effects[req[c]] \in Nat
      BY <3>3 DEF TypeOK, CallTypes
    <3>5. outcome[req[c]] = None \/ req[c] \in onTheEdge
      BY <3>3, <3>4 DEF CallInv, ReservedIsFirst, OutcomeIsAnswer
    <3> QED BY <1>1, <2>1, <3>2, <3>3, <3>4, <3>5
  <2>2. CASE d # c
    BY <1>1, <1>2, <1>3, <1>4, <1>5, <1>7, <2>2 DEF CallInv, OutcomeIsAnswer
  <2> QED BY <2>1, <2>2
<1>8. ASSUME NEW d \in Calls, pc'[d] \in After
      PROVE  answer'[d] \in Responses /\ answer'[d] = outcome'[req'[d]]
  <2>1. CASE d = c
    <3>1. CASE Executes(c)
      <4>1. req' = req
        BY <3>1 DEF Executes
      <4> QED BY <2>1, <3>1, <4>1, ShapeTruth
    <3>2. CASE Finalizes(c) \/ (Advances(c) /\ pc[c] \in {"finalized", "ended"})
      <4>1. pc[c] \in After /\ UNCHANGED <<req, answer, outcome>>
        BY <3>2 DEF Finalizes, Advances, Moves, book
      <4> QED BY <2>1, <4>1 DEF CallInv, OutcomeIsAnswer
    <3> QED BY <1>8, <2>1, <3>1, <3>2, ShapeControl
  <2>2. CASE d # c
    BY <1>3, <1>4, <1>5, <1>8, <2>2 DEF CallInv, OutcomeIsAnswer
  <2> QED BY <2>1, <2>2
<1> QED BY <1>6, <1>7, <1>8 DEF OutcomeIsAnswer


\* What is written to the stores is true, and so is what is answered.
LEMMA ShapeEvidence ==
  ASSUME TypeOK, CallInv, NEW c \in Calls, CallShape(c)
  PROVE  EvidenceIsTrue'
<1>1. \A r \in Requests, a \in Answers \cup {None} : Truthful(r, a) => StaysTrue(r, a)
  BY ShapeTruth
<1>2. Responses \subseteq Answers /\ "EffectStateUnknown" \in Answers
  BY DEF Answers
<1>3. \A r \in Requests : Truthful(r, None) /\ Truthful(r, "EffectStateUnknown")
  BY RuntimeAssumption DEF Truthful, Answers, Responses
<1>4. \A r \in Requests : KeyOf[r] \in Keys
  BY RequestFacts
<1>5. /\ pc[c] \in Claiming => req[c] \in Requests
      /\ pc[c] = "looked" => req[c] \in Requests
  BY RequestFacts DEF Admitted
<1>6. pc[c] \in {"executed", "recorded"} => answer[c] \in Responses /\ Truthful(req[c], answer[c])
  BY DEF CallInv, OutcomeIsAnswer, Truthful
<1>7. ASSUME NEW k \in Keys, completed'[k] # None
      PROVE  StaysTrue(completed'[k].req, completed'[k].response)
  <2>1. CASE completed'[k] = completed[k]
    <3>1. completed[k] \in CompletedEntries /\ Truthful(completed[k].req, completed[k].response)
      BY <1>7, <2>1 DEF TypeOK, CallTypes, CallInv, EvidenceIsTrue
    <3>2. completed[k].req \in Requests /\ completed[k].response \in Answers \cup {None}
      BY <1>2, <3>1 DEF CompletedEntries
    <3> QED BY <1>1, <2>1, <3>1, <3>2
  <2>2. CASE completed'[k] # completed[k]
    <3>1. \E a \in Responses \cup {None} :
             /\ req[c] \in Requests /\ Truthful(req[c], a)
             /\ completed' = [completed EXCEPT ![KeyOf[req[c]]] = [req |-> req[c], response |-> a]]
      <4>1. Claims(c) \/ Finishes(c) \/ Drops(c)
        BY <2>2 DEF CallShape, Verifies, TurnsAway, Admits, Repeats, AnswersEarly, Advances,
           Reserves, Starts, Executes,
           Finalizes, book
      <4>2. CASE Claims(c)
        BY <1>3, <1>5, <4>2 DEF Claims, Moves
      <4>3. CASE Finishes(c)
        BY <1>5, <1>6, <4>3 DEF Finishes, Moves, Claiming, WithSlot
      <4>4. CASE Drops(c)
        <5>1. pc[c] \in Claiming /\ KeyOf[req[c]] \in Keys
          BY <1>4, <1>5, <4>4 DEF Drops, Moves
        <5>2. completed'[k] = None \/ completed'[k] = completed[k]
          BY <4>4, <5>1 DEF Drops, TypeOK, CallTypes
        <5> QED BY <1>7, <2>2, <5>2
      <4> QED BY <4>1, <4>2, <4>3, <4>4
    <3>2. PICK a \in Responses \cup {None} :
             /\ req[c] \in Requests /\ Truthful(req[c], a)
             /\ completed' = [completed EXCEPT ![KeyOf[req[c]]] = [req |-> req[c], response |-> a]]
      BY <3>1
    <3> DEFINE entry == [req |-> req[c], response |-> a]
    <3>3. entry.req = req[c] /\ entry.response = a
      OBVIOUS
    <3>4. completed' = [completed EXCEPT ![KeyOf[req[c]]] = entry]
      BY <3>2
    <3> HIDE DEF entry
    <3>5. completed'[k] = entry
      BY <1>4, <2>2, <3>2, <3>4 DEF TypeOK, CallTypes
    <3>6. StaysTrue(req[c], a)
      BY <1>1, <1>2, <3>2
    <3> QED BY <3>3, <3>5, <3>6
  <2> QED BY <2>1, <2>2
<1>8. ASSUME NEW old \in DurableRecords, Truthful(old.req, old.terminal)
      PROVE  StaysTrue(old.req, old.terminal)
  <2>1. old.req \in Requests /\ old.terminal \in Answers \cup {None}
    BY <1>2 DEF DurableRecords
  <2> QED BY <1>1, <1>8, <2>1
<1>9. /\ \A k \in Keys : records[k] # None => StaysTrue(records[k].req, records[k].terminal)
      /\ \A k \in Keys : disk[k] # None => StaysTrue(disk[k].req, disk[k].terminal)
  BY <1>8 DEF TypeOK, CallTypes, CallInv, EvidenceIsTrue
<1>10. \/ UNCHANGED <<disk, records>>
       \/ \E t \in Responses \cup {"EffectStateUnknown"} :
            /\ req[c] \in Requests /\ Truthful(req[c], t)
            /\ disk' = [disk EXCEPT ![KeyOf[req[c]]] = [req |-> req[c], terminal |-> t]]
            /\ records' = records \/ records' = disk'
  <2>1. CASE Drops(c)
    BY <1>5, <2>1 DEF Drops, Moves, MayReachFile
  <2>2. CASE Reserves(c)
    BY <1>3, <1>5, <2>2 DEF Reserves, Moves, Claiming, WithSlot
  <2>3. CASE Finalizes(c)
    BY <1>5, <1>6, <2>3 DEF Finalizes, Moves, Claiming, WithSlot
  <2> QED BY <2>1, <2>2, <2>3 DEF CallShape, Verifies, TurnsAway, Admits, Repeats, AnswersEarly,
     Advances, Claims, Starts,
     Executes, Finishes, book
<1>11. /\ \A k \in Keys : records'[k] # None => StaysTrue(records'[k].req, records'[k].terminal)
       /\ \A k \in Keys : disk'[k] # None => StaysTrue(disk'[k].req, disk'[k].terminal)
  <2>1. CASE UNCHANGED <<disk, records>>
    BY <1>9, <2>1
  <2>2. CASE ~UNCHANGED <<disk, records>>
    <3>1. PICK t \in Responses \cup {"EffectStateUnknown"} :
            /\ req[c] \in Requests /\ Truthful(req[c], t)
            /\ disk' = [disk EXCEPT ![KeyOf[req[c]]] = [req |-> req[c], terminal |-> t]]
            /\ records' = records \/ records' = disk'
      BY <1>10, <2>2
    <3> DEFINE record == [req |-> req[c], terminal |-> t]
    <3>2. record.req = req[c] /\ record.terminal = t
      OBVIOUS
    <3>3. disk' = [disk EXCEPT ![KeyOf[req[c]]] = record]
      BY <3>1
    <3> HIDE DEF record
    <3>4. \A k \in Keys : disk'[k] = disk[k] \/ disk'[k] = record
      BY <3>3 DEF TypeOK, CallTypes
    <3>5. StaysTrue(record.req, record.terminal)
      BY <1>1, <1>2, <3>1, <3>2
    <3> QED BY <1>9, <3>1, <3>4, <3>5
  <2> QED BY <2>1, <2>2
<1> QED BY <1>7, <1>11 DEF EvidenceIsTrue, StaysTrue, Truthful

\* What is answered is true.
LEMMA ShapeAnswers ==
  ASSUME TypeOK, CallInv, NEW c \in Calls, CallShape(c)
  PROVE  ResponsesAreTrue'
<1>1. \A r \in Requests, a \in Answers \cup {None} : Truthful(r, a) => StaysTrue(r, a)
  BY ShapeTruth
<1> SUFFICES ASSUME NEW d \in Calls, pc'[d] = "done", answer'[d] \in Responses
             PROVE  StaysTrue(req'[d], answer'[d])
  BY DEF ResponsesAreTrue, StaysTrue
<1>2. answer'[d] \in Answers
  BY DEF Answers
<1>3. CASE d # c
  <2>1. pc[d] = "done" /\ req'[d] = req[d] /\ answer'[d] = answer[d] /\ req[d] \in Requests
    BY <1>3, ShapeFrame, RequestFacts
  <2>2. Truthful(req[d], answer[d])
    BY <2>1 DEF CallInv, ResponsesAreTrue, Truthful
  <2> QED BY <1>1, <1>2, <2>1, <2>2
<1>4. CASE d = c
  <2>1. req'[c] \in Requests
    BY <1>4, ShapeTypes DEF CallTypes
  <2>2. Truthful(req'[c], answer'[c])
    <3>1. CASE TurnsAway(c)
      <4>1. PICK r \in Requests :
              /\ \E a \in Answers : Says(c, a) /\ Truthful(r, a)
              /\ req' = [req EXCEPT ![c] = r]
        BY <1>4, <3>1 DEF TurnsAway, Moves, TypeOK, CallTypes
      <4> QED BY <4>1 DEF Says, TypeOK, CallTypes
    <3>2. CASE AnswersEarly(c) \/ Repeats(c)
      BY <1>4, <3>2 DEF AnswersEarly, Repeats, Moves, Says, TypeOK, CallTypes
    <3>3. CASE Drops(c)
      BY <3>3 DEF Drops, Says, TypeOK, CallTypes
    <3>4. CASE Finishes(c)
      BY <3>4 DEF Finishes, Moves, CallInv, OutcomeIsAnswer, Truthful
    <3> QED BY <1>4, <3>1, <3>2, <3>3, <3>4 DEF CallShape, Verifies, Admits, Advances, Claims,
       Reserves, Starts,
       Executes, Finalizes, Moves, TypeOK, CallTypes
  <2> QED BY <1>1, <1>2, <1>4, <2>1, <2>2
<1> QED BY <1>3, <1>4

\* A drained runtime gets no worker back.
LEMMA ShapeShutdown ==
  ASSUME TypeOK, CallInv, NEW c \in Calls, CallShape(c)
  PROVE  ClosedToAll' /\ QuietAfterShutdown'
<1>1. closing' = closing /\ accepting' = accepting
  BY ShapeFrame DEF still
<1>2. ClosedToAll'
  BY <1>1 DEF CallInv, ClosedToAll
<1>3. ASSUME closing = "done", NEW d \in Calls,
             pc'[d] \in {"reserved", "running", "executed", "finalized", "ended", "recorded"}
      PROVE  FALSE
  <2>1. \A e \in Calls : pc[e] \notin {"reserved", "running", "executed", "finalized", "ended", "recorded"}
    BY <1>3 DEF CallInv, QuietAfterShutdown
  <2>2. ~accepting
    BY <1>3 DEF CallInv, ClosedToAll
  <2>3. d = c
    BY <1>3, <2>1, ShapeFrame
  <2> QED BY <1>3, <2>1, <2>2, <2>3, ShapeControl DEF Reserves, Starts, Executes, Finalizes, Moves
<1> QED BY <1>1, <1>2, <1>3 DEF QuietAfterShutdown

\* The whole of the invariant on the side of the calls.
LEMMA ShapeInv ==
  ASSUME TypeOK, CallInv, NEW c \in Calls, CallShape(c)
  PROVE  CallTypes' /\ CallInv'
BY ShapeTypes, ShapeDown, ShapeAuthorized, ShapeClaim, ShapeReservation, ShapeRemembered,
   ShapeOnce,
   ShapeOutcome, ShapeEvidence, ShapeAnswers, ShapeShutdown DEF CallInv

-----------------------------------------------------------------------------
\* Everything else, on the side of the calls.

core == <<now, booted, accepting, closing, req, pc, answer, onTheEdge, book>>

\* The invariant reads nothing else.
LEMMA CoreStutter ==
  ASSUME TypeOK, CallInv, UNCHANGED core
  PROVE  CallTypes' /\ CallInv'
<1> USE DEF core, book
<1>1. CallTypes'
  BY DEF TypeOK, CallTypes
<1>2. DownServesNone' /\ AuthorizedOnce' /\ ClaimIsHeld' /\ ClaimHasOwner' /\ ReservationIsDurable'
  BY DEF CallInv, DownServesNone, AuthorizedOnce, ClaimIsHeld, ClaimHasOwner, ReservationIsDurable
<1>3. EffectIsRemembered' /\ ReservedIsFirst' /\ EffectOnce' /\ OutcomeIsAnswer'
  BY DEF CallInv, EffectIsRemembered, ReservedIsFirst, EffectOnce, OutcomeIsAnswer
<1>4. EvidenceIsTrue' /\ ResponsesAreTrue' /\ ClosedToAll' /\ QuietAfterShutdown'
  BY DEF CallInv, EvidenceIsTrue, Truthful, ResponsesAreTrue, ClosedToAll, QuietAfterShutdown
<1> QED BY <1>1, <1>2, <1>3, <1>4 DEF CallInv

\* The steps of a shutdown and of the clock.
LEMMA ShutdownStep ==
  ASSUME TypeOK, CallInv, StopAccepting \/ LatchShutdown \/ Drained \/ Tick
  PROVE  CallTypes' /\ CallInv'
<1>1. UNCHANGED <<booted, req, pc, answer, onTheEdge, book>> /\ now' \in Nat /\ now' >= now
  BY DEF StopAccepting, LatchShutdown, Drained, Tick, calls, stores, environment, history, memory,
     book, TypeOK, CallTypes
<1>2. /\ accepting' \in BOOLEAN /\ closing' \in {"no", "closed", "draining", "done"}
      /\ closing' # "no" => ~accepting'
  <2> USE DEF TypeOK, CallTypes, CallInv, ClosedToAll
  <2>1. CASE StopAccepting
    BY <2>1 DEF StopAccepting
  <2>2. CASE LatchShutdown
    <3>1. closing = "closed" /\ closing' = "draining" /\ accepting' = accepting
      BY <2>2 DEF LatchShutdown
    <3> QED BY <3>1
  <2>3. CASE Drained
    <3>1. closing = "draining" /\ closing' = "done" /\ accepting' = accepting
      BY <2>3 DEF Drained
    <3> QED BY <3>1
  <2>4. CASE Tick
    BY <2>4 DEF Tick, memory
  <2> QED BY <2>1, <2>2, <2>3, <2>4
<1>3. QuietAfterShutdown'
  <2>1. CASE closing' = "done" /\ closing = "done"
    BY <1>1, <2>1 DEF CallInv, QuietAfterShutdown
  <2>2. CASE Drained
    BY <1>1, <2>2 DEF Drained, WithPermit, WithSlot, QuietAfterShutdown
  <2> QED BY <2>1, <2>2 DEF StopAccepting, LatchShutdown, Tick, memory, QuietAfterShutdown
<1> USE DEF book
<1>4. CallTypes'
  BY <1>1, <1>2 DEF TypeOK, CallTypes
<1>5. DownServesNone' /\ ClaimIsHeld' /\ ClaimHasOwner' /\ ReservationIsDurable'
  BY <1>1 DEF CallInv, DownServesNone, ClaimIsHeld, ClaimHasOwner, ReservationIsDurable
<1>6. EffectIsRemembered' /\ AuthorizedOnce'
  <2>1. \A r \in Requests : now > ExpiresAt[r] => now' > ExpiresAt[r]
    BY <1>1, RuntimeAssumption DEF TypeOK, CallTypes
  <2>2. /\ halted \subseteq Requests
        /\ \A c \in Calls : pc[c] \in Admitted => req[c] \in Requests
    BY RequestFacts DEF TypeOK, CallTypes
  <2> QED BY <1>1, <2>1, <2>2 DEF CallInv, EffectIsRemembered, AuthorizedOnce
<1>7. ReservedIsFirst' /\ EffectOnce' /\ OutcomeIsAnswer'
  BY <1>1 DEF CallInv, ReservedIsFirst, EffectOnce, OutcomeIsAnswer
<1>8. EvidenceIsTrue' /\ ResponsesAreTrue'
  BY <1>1 DEF CallInv, EvidenceIsTrue, Truthful, ResponsesAreTrue
<1> QED BY <1>2, <1>3, <1>4, <1>5, <1>6, <1>7, <1>8 DEF CallInv, ClosedToAll

\* A crash: nobody is served any more, and the memory is empty.
LEMMA CrashStep ==
  ASSUME TypeOK, CallInv, Crash
  PROVE  CallTypes' /\ CallInv'
<1>1. /\ UNCHANGED <<req, records, disk, now, effects, outcome, onTheEdge>>
      /\ consumed' = {} /\ halted' = {} /\ reconsumed' = {} /\ completed' = [k \in Keys |-> None]
      /\ booted' = FALSE /\ accepting' = TRUE /\ closing' = "no"
      /\ pc' = [d \in Calls |-> IF pc[d] \in InCall THEN "lost" ELSE pc[d]]
      /\ answer' = [d \in Calls |-> IF pc[d] \in InCall THEN None ELSE answer[d]]
  BY DEF Crash, stores
<1>2. "lost" \notin InCall /\ "lost" \in CallStates /\ Admitted \subseteq InCall /\ Claiming \subseteq InCall
  BY DEF InCall, Claiming, WithSlot, Admitted, CallStates
<1>3. \A d \in Calls : pc'[d] \notin InCall /\ (pc'[d] = "new" => pc[d] = "new")
  BY <1>1, <1>2
<1>4. \A d \in Calls : pc'[d] = "done" => pc[d] = "done" /\ answer'[d] = answer[d]
  <2>1. "done" \notin InCall
    BY DEF InCall, Claiming, WithSlot
  <2> QED BY <1>1, <2>1
<1>5. CallTypes'
  <2>1. pc' \in [Calls -> CallStates] /\ answer' \in [Calls -> Answers \cup {None}]
    BY <1>1, <1>2 DEF TypeOK, CallTypes
  <2>2. \A d \in Calls : pc'[d] # "new" => req'[d] \in Requests
    <3>1. \A d \in Calls : pc[d] = "new" => pc'[d] = "new"
      <4>1. "new" \notin InCall
        BY DEF InCall, Claiming, WithSlot
      <4> QED BY <1>1, <4>1
    <3> QED BY <1>1, <3>1 DEF TypeOK, CallTypes
  <2> QED BY <1>1, <2>1, <2>2 DEF TypeOK, CallTypes
<1>6. /\ {"reserved", "running", "executed", "finalized", "ended", "recorded"} \subseteq InCall
  BY DEF InCall, Claiming, WithSlot
<1>7. DownServesNone' /\ AuthorizedOnce' /\ ClaimIsHeld' /\ ClaimHasOwner' /\ ReservationIsDurable'
  BY <1>1, <1>2, <1>3, <1>6 DEF DownServesNone, AuthorizedOnce, ClaimIsHeld, ClaimHasOwner,
     ReservationIsDurable
<1>8. EffectIsRemembered'
  BY <1>1, <1>2, <1>3 DEF CallInv, EffectIsRemembered
<1>9. ReservedIsFirst' /\ EffectOnce' /\ OutcomeIsAnswer'
  BY <1>1, <1>3, <1>6 DEF CallInv, ReservedIsFirst, EffectOnce, OutcomeIsAnswer
<1>10. EvidenceIsTrue' /\ ResponsesAreTrue'
  BY <1>1, <1>4 DEF CallInv, EvidenceIsTrue, Truthful, ResponsesAreTrue
<1>11. ClosedToAll' /\ QuietAfterShutdown'
  BY <1>1 DEF ClosedToAll, QuietAfterShutdown
<1> QED BY <1>5, <1>7, <1>8, <1>9, <1>10, <1>11 DEF CallInv

\* A restart: retention forgets what has expired, or is about to.
LEMMA BootStep ==
  ASSUME TypeOK, CallInv, Boot
  PROVE  CallTypes' /\ CallInv'
<1>1. PICK gone \in SUBSET Prunable :
        /\ disk' = [k \in Keys |-> IF k \in gone THEN None ELSE disk[k]]
        /\ records' = disk'
        /\ onTheEdge' = onTheEdge \cup {disk[k].req : k \in {g \in gone : ExpiresAt[disk[g].req] = now}}
  BY DEF Boot
<1>2. /\ ~booted /\ booted' = TRUE
      /\ UNCHANGED <<accepting, closing, consumed, completed, req, pc, answer, now, effects, outcome, halted,
                     reconsumed>>
  BY DEF Boot, memory, calls
<1>3. \A d \in Calls : pc[d] \notin InCall
  BY <1>2 DEF CallInv, DownServesNone
<1>4. /\ Admitted \subseteq InCall
      /\ {"verifying", "reserved", "running", "executed", "finalized", "ended", "recorded"}
           \subseteq InCall
  BY DEF InCall, Claiming, WithSlot, Admitted
<1>5. \A k \in gone : /\ k \in Keys /\ disk[k] \in DurableRecords /\ disk[k].req \in Requests
                      /\ ExpiresAt[disk[k].req] \in Nat /\ ExpiresAt[disk[k].req] <= now
  BY RuntimeAssumption DEF Prunable, TypeOK, CallTypes, DurableRecords
<1>6. onTheEdge \subseteq onTheEdge' /\ onTheEdge' \subseteq Requests
  BY <1>1, <1>5 DEF TypeOK, CallTypes
<1>7. CallTypes'
  BY <1>1, <1>2, <1>6 DEF TypeOK, CallTypes
<1>8. DownServesNone' /\ AuthorizedOnce' /\ ClaimIsHeld' /\ ClaimHasOwner' /\ ReservationIsDurable'
  BY <1>2, <1>3, <1>4 DEF CallInv, DownServesNone, AuthorizedOnce, ClaimIsHeld, ClaimHasOwner,
     ReservationIsDurable
<1>9. EffectIsRemembered'
  <2> SUFFICES ASSUME NEW r \in Requests, effects[r] > 0
               PROVE  \/ r \in onTheEdge'
                      \/ disk'[KeyOf[r]] # None /\ disk'[KeyOf[r]].req = r
                      \/ /\ now > ExpiresAt[r]
                         /\ \A d \in Calls : pc[d] \in Admitted \cup {"verifying"} => req[d] # r
    BY <1>2 DEF EffectIsRemembered
  <2>1. KeyOf[r] \in Keys
    BY RequestFacts
  <2>2. CASE disk[KeyOf[r]] # None /\ disk[KeyOf[r]].req = r
    <3>1. CASE KeyOf[r] \notin gone
      BY <1>1, <2>1, <2>2, <3>1
    <3>2. CASE KeyOf[r] \in gone /\ ExpiresAt[r] = now
      BY <1>1, <2>2, <3>2
    <3>3. CASE KeyOf[r] \in gone /\ ExpiresAt[r] # now
      <4>1. now > ExpiresAt[r]
        BY <1>5, <2>2, <3>3 DEF TypeOK, CallTypes
      <4> QED BY <1>3, <1>4, <4>1
    <3> QED BY <3>1, <3>2, <3>3
  <2> QED BY <1>6, <2>2 DEF CallInv, EffectIsRemembered
<1>10. ReservedIsFirst' /\ EffectOnce' /\ OutcomeIsAnswer'
  BY <1>2, <1>3, <1>4, <1>6 DEF CallInv, ReservedIsFirst, EffectOnce, OutcomeIsAnswer
<1>11. EvidenceIsTrue' /\ ResponsesAreTrue'
  <2>1. \A k \in Keys : disk'[k] # None => disk'[k] = disk[k] /\ records'[k] = disk[k]
    BY <1>1
  <2>2. records' = disk'
    BY <1>1
  <2>3. \A r, a : Truthful(r, a) => StaysTrue(r, a)
    BY <1>2, <1>6 DEF Truthful, StaysTrue
  <2>4. /\ \A k \in Keys : completed'[k] # None => StaysTrue(completed'[k].req, completed'[k].response)
        /\ \A k \in Keys : disk'[k] # None => StaysTrue(disk'[k].req, disk'[k].terminal)
    BY <1>2, <2>1, <2>3 DEF CallInv, EvidenceIsTrue
  <2>5. EvidenceIsTrue'
    BY <2>2, <2>4 DEF EvidenceIsTrue, Truthful, StaysTrue
  <2>6. ResponsesAreTrue'
    BY <1>2, <1>6 DEF CallInv, ResponsesAreTrue
  <2> QED BY <2>5, <2>6
<1>12. ClosedToAll' /\ QuietAfterShutdown'
  BY <1>2 DEF CallInv, ClosedToAll, QuietAfterShutdown
<1> QED BY <1>7, <1>8, <1>9, <1>10, <1>11, <1>12 DEF CallInv

-----------------------------------------------------------------------------
\* The registry, the signals and the cancellations.

\* Before a call registers, nothing can signal it.
Early == {"new", "verifying", "replaying", "admitted", "looked", "claimed"}

\* What a step of a call does to the registry.
RegistryShape(c) ==
  /\ UNCHANGED <<crashes, latch, receipts, cpc, verdict>>
  /\ faults' = faults \/ faults' = faults + 1
  /\ \/ UNCHANGED <<active, signal>>
     \/ UNCHANGED signal /\ \E m \in Commands : active' = [active EXCEPT ![m] = None]
     \/ /\ pc[c] = "claimed" /\ pc' = [pc EXCEPT ![c] = "registered"]
        /\ signal' = [signal EXCEPT ![c] = latch]
        /\ \E m \in Commands : active' = [active EXCEPT ![m] = c]

\* Only registration puts a call into the registry, and gives it a signal.
LEMMA CallStepRegistry ==
  ASSUME TypeOK, NEW c \in Calls, Submit(c) \/ CallStep(c) \/ ResourceBusy(c) \/ WorkerPanic(c)
  PROVE  RegistryShape(c)
<1> USE DEF RegistryShape, cancelling, unaffected, memory
<1>1. pc[c] # "new" => CommandOf[req[c]] \in Commands
  BY RequestFacts
<1>2. ASSUME pc[c] # "new", NEW a, RefuseToRun(c, a) PROVE RegistryShape(c)
  BY <1>1, <1>2 DEF RefuseToRun
<1>3. ASSUME pc[c] # "new", NEW a, Fail(c, a), faults' = faults \/ faults' = faults + 1
      PROVE  RegistryShape(c)
  BY <1>1, <1>3 DEF Fail, Unregister
<1>4. CASE Submit(c) \/ Consume(c)
  BY <1>4 DEF Submit, Consume
<1>5. CASE Replay(c) \/ LookUp(c) \/ Claim(c)
  BY <1>5 DEF Replay, LookUp, ResolveFails, Claim
<1>6. CASE Register(c)
  BY <1>1, <1>6 DEF Register, Goto
<1>7. CASE Enqueue(c)
  BY <1>7 DEF Enqueue
<1>8. CASE Acquire(c) \/ TakePermit(c) \/ ResourceBusy(c)
  <2>1. pc[c] # "new"
    BY <1>8 DEF Acquire, TakePermit, ResourceBusy
  <2>2. ASSUME NEW to, Proceed(c, to) PROVE RegistryShape(c)
    BY <2>2 DEF Proceed
  <2> QED BY <1>2, <1>8, <2>1, <2>2 DEF Acquire, TakePermit, ResourceBusy
<1>9. CASE Reserve(c)
  <2>1. pc[c] # "new"
    BY <1>9 DEF Reserve
  <2>2. CASE RefuseToRun(c, "ShuttingDown")
    BY <1>2, <2>1, <2>2
  <2>3. CASE Fail(c, ReserveAnswer(req[c])) /\ UNCHANGED faults
    BY <1>3, <2>1, <2>3
  <2>4. CASE Fail(c, "DurableRecoveryUnavailable") /\ (faults' = faults \/ faults' = faults + 1)
    BY <1>3, <2>1, <2>4
  <2>5. CASE UNCHANGED faults /\ UNCHANGED <<memory, life, signal, history, unaffected>>
    BY <2>5
  <2> QED BY <1>9, <2>2, <2>3, <2>4, <2>5 DEF Reserve, Commits, CommitFails
<1>10. CASE Start(c) \/ Execute(c)
  <2>1. CASE RunEffect(c)
    BY <2>1 DEF RunEffect
  <2>2. CASE Start(c) /\ Fail(c, "WorkerFailed") /\ UNCHANGED faults
    BY <1>3, <2>2 DEF Start
  <2>3. CASE Execute(c)
    BY <2>3 DEF Execute
  <2> QED BY <1>10, <2>1, <2>2, <2>3 DEF Start
<1>11. CASE WorkerPanic(c)
  BY <1>3, <1>11 DEF WorkerPanic
<1>12. CASE Finalize(c)
  <2>1. pc[c] # "new"
    BY <1>12 DEF Finalize
  <2>2. CASE Fail(c, "DurableRecoveryUnavailable") /\ (faults' = faults \/ faults' = faults + 1)
    BY <1>3, <2>1, <2>2
  <2>3. CASE UNCHANGED faults /\ UNCHANGED <<memory, life, signal, history, unaffected>>
    BY <2>3
  <2> QED BY <1>12, <2>2, <2>3 DEF Finalize, Commits, CommitFails
<1>13. CASE CompleteLifecycle(c) \/ RecordTerminal(c)
  <2>1. pc[c] # "new" /\ (faults' = faults \/ faults' = faults + 1)
    BY <1>13 DEF CompleteLifecycle, RecordTerminal
  <2>2. CASE Fail(c, "WorkerFailed") \/ Fail(c, "DurableRecoveryUnavailable")
    BY <1>3, <2>1, <2>2
  <2>3. CASE UNCHANGED <<memory, signal, history, unaffected>>
    BY <2>1, <2>3
  <2>4. CASE UNCHANGED <<memory, signal, receipts, cpc, verdict, crashes>>
    BY <2>1, <2>4
  <2> QED BY <1>13, <2>2, <2>3, <2>4 DEF CompleteLifecycle, RecordTerminal
<1>14. CASE Finish(c)
  BY <1>1, <1>14 DEF Finish, Unregister
<1> QED BY <1>4, <1>5, <1>6, <1>7, <1>8, <1>9, <1>10, <1>11, <1>12, <1>13, <1>14 DEF CallStep

\* A step of a call loses no signal.
LEMMA CallKeepsSignals ==
  ASSUME RuntimeInv, NEW c \in Calls, CallShape(c), RegistryShape(c)
  PROVE  RegistryTypes' /\ SignalIsKept' /\ AcceptedAfterSignal'
<1> USE DEF RuntimeInv
<1>1. \A d \in Calls \ {c} : pc'[d] = pc[d] /\ req'[d] = req[d]
  BY ShapeFrame
<1>2. pc[c] # "new" => req' = req
  BY ShapeFrame
<1>3. pc[c] \notin Early => pc'[c] \notin Early
  BY DEF CallShape, Verifies, TurnsAway, Admits, Repeats, AnswersEarly, Advances, Claims, Drops,
     Reserves, Starts, Executes, Finalizes, Finishes, Moves, Early, TypeOK, CallTypes
<1>4. /\ \A d \in Calls : signal[d] => pc[d] \notin Early
      /\ \A m \in Commands : active[m] # None => pc[active[m]] \notin Early
  BY DEF SignalIsKept, Early
<1>5. \A d \in Calls : pc[d] \notin Early => pc'[d] \notin Early /\ req'[d] = req[d]
  BY <1>1, <1>2, <1>3 DEF Early
<1>6. RegistryTypes'
  BY DEF RegistryShape, RegistryTypes, TypeOK
<1>7. \A d \in Calls : signal[d] => signal'[d] /\ req'[d] = req[d]
  BY <1>4, <1>5 DEF RegistryShape, RegistryTypes, TypeOK, Early
<1>8. SignalIsKept'
  <2>1. CASE UNCHANGED <<active, signal>>
    <3>1. \A m \in Commands : active[m] # None => active[m] \in Calls
      BY DEF TypeOK, RegistryTypes
    <3> QED BY <1>4, <1>5, <2>1, <3>1 DEF SignalIsKept, Early
  <2>2. CASE UNCHANGED signal /\ \E m \in Commands : active' = [active EXCEPT ![m] = None]
    <3>1. \A m \in Commands : active'[m] # None => active'[m] = active[m] /\ active[m] \in Calls
      BY <2>2 DEF TypeOK, RegistryTypes
    <3> QED BY <1>4, <1>5, <2>2, <3>1 DEF SignalIsKept, Early
  <2>3. CASE /\ pc' = [pc EXCEPT ![c] = "registered"] /\ signal' = [signal EXCEPT ![c] = latch]
             /\ \E m \in Commands : active' = [active EXCEPT ![m] = c]
    <3>1. \A m \in Commands :
            active'[m] # None => active'[m] = c \/ (active'[m] = active[m] /\ active[m] \in Calls)
      BY <2>3 DEF TypeOK, RegistryTypes
    <3>2. pc'[c] = "registered" /\ \A d \in Calls \ {c} : signal'[d] = signal[d]
      BY <2>3 DEF TypeOK, CallTypes, RegistryTypes
    <3> QED BY <1>4, <1>5, <3>1, <3>2 DEF SignalIsKept, Early
  <2> QED BY <2>1, <2>2, <2>3 DEF RegistryShape
<1>9. AcceptedAfterSignal'
  <2>1. UNCHANGED <<crashes, receipts, cpc, verdict>>
    BY DEF RegistryShape
  <2>2. \A x \in Cancels : Heard(x) => Heard(x)'
    BY <1>7 DEF Heard
  <2> QED BY <2>1, <2>2 DEF AcceptedAfterSignal, Alone
<1> QED BY <1>6, <1>8, <1>9

\* A step of a cancellation moves its own program counter, verdict and receipt.
CancelShape(x) ==
  /\ UNCHANGED <<crashes, latch, active>>
  /\ faults' = faults \/ faults' = faults + 1
  /\ \E s \in CancelStates : cpc' = [cpc EXCEPT ![x] = s]
  /\ DOMAIN verdict' = Cancels /\ DOMAIN receipts' = CancelIds
  /\ \A y \in Cancels \ {x} : verdict'[y] = verdict[y]
  /\ \A i \in CancelIds \ {IdOf[x]} : receipts'[i] = receipts[i]
  /\ UNCHANGED signal \/ \E m \in Commands : /\ active[m] \in Calls
                                             /\ signal' = [signal EXCEPT ![active[m]] = TRUE]

\* The invariant of x itself after the step.
OwnTurn(x) ==
  Alone(x) =>
    /\ cpc'[x] \in {"new", "loaded", "probed"} => receipts'[IdOf[x]] = None
    /\ cpc'[x] # "recovering"
    /\ verdict'[x] = "Accepted" =>
         verdict[x] = "Accepted" \/ \E c \in Calls : req[c] = TargetOf[x] /\ signal'[c]

\* Put writes the receipt of x, and no other.
LEMMA PutFacts ==
  ASSUME TypeOK, NEW x \in Cancels, UNCHANGED receipts \/ \E o : Put(x, o)
  PROVE  /\ DOMAIN receipts' = CancelIds
         /\ \A i \in CancelIds \ {IdOf[x]} : receipts'[i] = receipts[i]
BY DEF Put, TypeOK, RegistryTypes

\* So do the answers.
LEMMA ReplyFacts ==
  ASSUME TypeOK, NEW x \in Cancels,
         NEW s \in CancelStates, NEW v, CGoto(x, s) \/ Holding(x, s, v) \/ Reply(x, v)
  PROVE  /\ \E t \in CancelStates : cpc' = [cpc EXCEPT ![x] = t]
         /\ DOMAIN verdict' = Cancels
         /\ \A y \in Cancels \ {x} : verdict'[y] = verdict[y]
         /\ CGoto(x, s) => verdict' = verdict /\ cpc'[x] = s
         /\ Holding(x, s, v) => verdict'[x] = v /\ cpc'[x] = s
         /\ Reply(x, v) => verdict'[x] = v /\ cpc'[x] = "done"
BY DEF CGoto, Holding, Reply, TypeOK, RegistryTypes, CancelStates

\* The receipt of an earlier delivery, or none.
LEMMA LoadReceiptShape ==
  ASSUME TypeOK, AcceptedAfterSignal, NEW x \in Cancels, LoadReceipt(x)
  PROVE  CancelShape(x) /\ OwnTurn(x)
<1>1. UNCHANGED <<receipts, faults, crashes, latch, active, signal>> /\ cpc[x] = "new"
  BY DEF LoadReceipt, aside, memory, calls
<1>2. PICK s, v :
        /\ s \in CancelStates
        /\ CGoto(x, s) \/ Reply(x, v)
        /\ receipts[IdOf[x]] = None => CGoto(x, "loaded") \/ (Reply(x, v) /\ v # "Accepted")
  <2>1. CASE receipts[IdOf[x]] # None
    BY <2>1 DEF LoadReceipt, CancelStates
  <2>2. CASE receipts[IdOf[x]] = None
    BY <2>2 DEF LoadReceipt, CancelStates
  <2> QED BY <2>1, <2>2
<1>3. CancelShape(x)
  BY <1>1, <1>2, ReplyFacts, PutFacts DEF CancelShape
<1>4. OwnTurn(x)
  <2> SUFFICES ASSUME Alone(x) PROVE OwnTurn(x)
    BY DEF OwnTurn
  <2>1. receipts[IdOf[x]] = None
    BY <1>1 DEF AcceptedAfterSignal
  <2>2. "loaded" \in CancelStates
    BY DEF CancelStates
  <2> QED BY <1>1, <1>2, <2>1, <2>2, ReplyFacts DEF OwnTurn
<1> QED BY <1>3, <1>4

\* A prepared receipt, found by a cancellation that did not prepare it.
LEMMA RecoverReceiptShape ==
  ASSUME TypeOK, AcceptedAfterSignal, NEW x \in Cancels, RecoverReceipt(x)
  PROVE  CancelShape(x) /\ OwnTurn(x)
<1>1. /\ UNCHANGED <<crashes, latch, active, signal>> /\ cpc[x] = "recovering"
      /\ faults' = faults \/ faults' = faults + 1
      /\ Reply(x, "Accepted") \/ Reply(x, "DurableUnavailable")
  BY DEF RecoverReceipt, ReceiptNotWritten, aside, memory, calls
<1>2. UNCHANGED receipts \/ \E o : Put(x, o)
  BY DEF RecoverReceipt, ReceiptNotWritten
<1>3. "done" \in CancelStates
  BY DEF CancelStates
<1> QED BY <1>1, <1>2, <1>3, ReplyFacts, PutFacts DEF CancelShape, OwnTurn, AcceptedAfterSignal

\* The probe answers, or goes on; it never accepts.
LEMMA ProbeTargetShape ==
  ASSUME TypeOK, AcceptedAfterSignal, NEW x \in Cancels, ProbeTarget(x)
  PROVE  CancelShape(x) /\ OwnTurn(x)
<1>1. UNCHANGED <<receipts, faults, crashes, latch, active, signal>> /\ cpc[x] = "loaded"
  BY DEF ProbeTarget, aside, memory, calls
<1>2. "storing" \in CancelStates /\ "probed" \in CancelStates
  BY DEF CancelStates
<1>3. \/ Probe(x) # "Accepted" /\ (Reply(x, Probe(x)) \/ Holding(x, "storing", Probe(x)))
      \/ CGoto(x, "probed")
  BY DEF ProbeTarget
<1> QED BY <1>1, <1>2, <1>3, ReplyFacts, PutFacts DEF CancelShape, OwnTurn, AcceptedAfterSignal

\* Prepared, or no receipt at all.
LEMMA PrepareShape ==
  ASSUME TypeOK, AcceptedAfterSignal, NEW x \in Cancels, Prepare(x)
  PROVE  CancelShape(x) /\ OwnTurn(x)
<1>1. /\ UNCHANGED <<crashes, latch, active, signal>> /\ cpc[x] = "probed"
      /\ faults' = faults \/ faults' = faults + 1
  BY DEF Prepare, ReceiptNotWritten, aside, memory, calls
<1>2. UNCHANGED receipts \/ \E o : Put(x, o)
  BY DEF Prepare, ReceiptNotWritten
<1>3. "prepared" \in CancelStates
  BY DEF CancelStates
<1>4. PICK v : \/ CGoto(x, "prepared")
               \/ Reply(x, v) /\ (receipts[IdOf[x]] = None => v = "DurableUnavailable")
  <2>1. CASE receipts[IdOf[x]] = None
    BY <2>1 DEF Prepare, ReceiptNotWritten
  <2>2. CASE receipts[IdOf[x]] # None
    BY <2>2 DEF Prepare, ReceiptNotWritten
  <2> QED BY <2>1, <2>2
<1>5. CancelShape(x)
  BY <1>1, <1>2, <1>3, <1>4, ReplyFacts, PutFacts DEF CancelShape
<1>6. OwnTurn(x)
  <2> SUFFICES ASSUME Alone(x) PROVE OwnTurn(x)
    BY DEF OwnTurn
  <2>1. receipts[IdOf[x]] = None
    BY <1>1 DEF AcceptedAfterSignal
  <2> QED BY <1>3, <1>4, <2>1, ReplyFacts DEF OwnTurn
<1> QED BY <1>5, <1>6

\* The request to the registry: accepted together with the signal.
LEMMA CancelShapes ==
  ASSUME TypeOK, NEW x \in Cancels, Cancel(x)
  PROVE  CancelShape(x) /\ OwnTurn(x)
<1> DEFINE v == Requested(x)
           m == CommandOf[TargetOf[x]]
<1>1. /\ UNCHANGED <<receipts, faults, crashes, latch, active>>
      /\ \/ Reply(x, IF v = "NotActive" THEN "Rejected" ELSE v) /\ v # "Accepted"
         \/ Holding(x, "finalizing", v)
      /\ IF v = "Accepted" THEN signal' = [signal EXCEPT ![active[m]] = TRUE] ELSE UNCHANGED signal
  BY DEF Cancel, memory, environment
<1>2. m \in Commands
  BY RuntimeAssumption, RequestFacts
<1>3. v = "Accepted" => active[m] \in Calls /\ req[active[m]] = TargetOf[x]
  <2>1. Inactive(x) # "Accepted"
    BY DEF Inactive
  <2>2. v = "Accepted" => Bound(x)
    BY <2>1 DEF Requested
  <2>3. active[m] \in Calls \cup {None}
    BY <1>2 DEF TypeOK, RegistryTypes
  <2> QED BY <2>2, <2>3 DEF Bound, Owner
<1>4. "finalizing" \in CancelStates
  BY DEF CancelStates
<1> HIDE DEF v, m
<1>5. CancelShape(x)
  BY <1>1, <1>2, <1>3, <1>4, ReplyFacts, PutFacts DEF CancelShape
<1>6. OwnTurn(x)
  <2>1. v = "Accepted" => \E c \in Calls : req[c] = TargetOf[x] /\ signal'[c]
    BY <1>1, <1>3 DEF TypeOK, RegistryTypes
  <2>2. cpc'[x] \in {"done", "finalizing"} /\ (verdict'[x] = "Accepted" => v = "Accepted")
    BY <1>1, <1>4, ReplyFacts
  <2> QED BY <2>1, <2>2 DEF OwnTurn
<1> QED BY <1>5, <1>6

\* The last write of a receipt says what the registry said.
LEMMA FinalReceiptShape ==
  ASSUME TypeOK, NEW x \in Cancels, FinalizeReceipt(x) \/ StoreReceipt(x)
  PROVE  CancelShape(x) /\ OwnTurn(x)
<1>1. /\ UNCHANGED <<crashes, latch, active, signal>>
      /\ faults' = faults \/ faults' = faults + 1
  BY DEF FinalizeReceipt, StoreReceipt, ReceiptNotWritten, aside, memory, calls
<1>2. UNCHANGED receipts \/ \E o : Put(x, o)
  BY DEF FinalizeReceipt, StoreReceipt, ReceiptNotWritten
<1>3. Reply(x, verdict[x]) \/ Reply(x, "DurableUnavailable")
  BY DEF FinalizeReceipt, StoreReceipt, ReceiptNotWritten
<1>4. "done" \in CancelStates
  BY DEF CancelStates
<1> QED BY <1>1, <1>2, <1>3, <1>4, ReplyFacts, PutFacts DEF CancelShape, OwnTurn

\* No step of a cancellation touches what the calls rely on.
LEMMA CancelLeavesCore ==
  ASSUME NEW x \in Cancels, LoadReceipt(x) \/ CancelStep(x)
  PROVE  UNCHANGED core
BY DEF LoadReceipt, CancelStep, RecoverReceipt, ProbeTarget, Prepare, Cancel, FinalizeReceipt,
   StoreReceipt, aside, memory, calls, stores, environment, history, core, book

\* A cancellation is accepted when its target has the signal.
LEMMA CancelKeepsSignals ==
  ASSUME RuntimeInv, NEW x \in Cancels, LoadReceipt(x) \/ CancelStep(x)
  PROVE  RegistryTypes' /\ SignalIsKept' /\ AcceptedAfterSignal'
<1> USE DEF RuntimeInv
<1>1. CancelShape(x) /\ OwnTurn(x)
  BY LoadReceiptShape, RecoverReceiptShape, ProbeTargetShape, PrepareShape, CancelShapes,
     FinalReceiptShape DEF CancelStep
<1>2. UNCHANGED <<pc, req>>
  BY CancelLeavesCore DEF core
<1>3. RegistryTypes'
  <2>1. cpc' \in [Cancels -> CancelStates]
    BY <1>1 DEF CancelShape, TypeOK, RegistryTypes
  <2>2. signal' \in [Calls -> BOOLEAN]
    BY <1>1 DEF CancelShape, TypeOK, RegistryTypes
  <2>3. faults' \in Nat
    BY <1>1 DEF CancelShape, TypeOK, RegistryTypes
  <2>4. UNCHANGED <<crashes, latch, active>> /\ DOMAIN verdict' = Cancels /\ DOMAIN receipts' = CancelIds
    BY <1>1 DEF CancelShape
  <2> QED BY <2>1, <2>2, <2>3, <2>4 DEF TypeOK, RegistryTypes
<1>4. \A c \in Calls : signal[c] => signal'[c]
  BY <1>1 DEF CancelShape, TypeOK, RegistryTypes
<1>5. SignalIsKept'
  <2>1. CASE UNCHANGED signal
    BY <1>1, <1>2, <2>1 DEF CancelShape, SignalIsKept
  <2>2. CASE \E m \in Commands : /\ active[m] \in Calls
                                 /\ signal' = [signal EXCEPT ![active[m]] = TRUE]
    <3>1. PICK m \in Commands : active[m] \in Calls /\ signal' = [signal EXCEPT ![active[m]] = TRUE]
      BY <2>2
    <3>2. active[m] # None
      BY <3>1, RuntimeAssumption
    <3>3. \A c \in Calls : signal'[c] => signal[c] \/ c = active[m]
      BY <3>1 DEF TypeOK, RegistryTypes
    <3> QED BY <1>1, <1>2, <3>1, <3>2, <3>3 DEF CancelShape, SignalIsKept
  <2> QED BY <1>1, <2>1, <2>2 DEF CancelShape
<1>6. AcceptedAfterSignal'
  <2>1. \A y \in Cancels : Heard(y) => \E c \in Calls : req[c] = TargetOf[y] /\ signal'[c]
    BY <1>4 DEF Heard
  <2>2. crashes' = crashes /\ \A y \in Cancels \ {x} : cpc'[y] = cpc[y]
    BY <1>1 DEF CancelShape, TypeOK, RegistryTypes
  <2> SUFFICES ASSUME NEW y \in Cancels, Alone(y)
               PROVE  /\ cpc'[y] \in {"new", "loaded", "probed"} => receipts'[IdOf[y]] = None
                      /\ cpc'[y] # "recovering"
                      /\ verdict'[y] = "Accepted" => \E c \in Calls : req[c] = TargetOf[y] /\ signal'[c]
    BY <1>2, <2>2 DEF AcceptedAfterSignal, Alone, Heard
  <2>3. CASE y = x
    BY <1>1, <2>1, <2>3 DEF OwnTurn, AcceptedAfterSignal
  <2>4. CASE y # x
    <3>1. IdOf[y] # IdOf[x] /\ IdOf[y] \in CancelIds
      BY <2>4 DEF Alone, CancelIds
    <3>2. receipts'[IdOf[y]] = receipts[IdOf[y]] /\ verdict'[y] = verdict[y] /\ cpc'[y] = cpc[y]
      BY <1>1, <2>2, <2>4, <3>1 DEF CancelShape
    <3> QED BY <2>1, <3>2 DEF AcceptedAfterSignal
  <2> QED BY <2>3, <2>4
<1> QED BY <1>3, <1>5, <1>6

\* Shutdown, crash, restart and clock.
LEMMA OthersKeepSignals ==
  ASSUME RuntimeInv, StopAccepting \/ LatchShutdown \/ Drained \/ Crash \/ Boot \/ Tick
  PROVE  RegistryTypes' /\ SignalIsKept' /\ AcceptedAfterSignal'
<1> USE DEF RuntimeInv
<1>1. CASE StopAccepting \/ Drained \/ Boot \/ Tick
  <2>1. UNCHANGED <<crashes, faults, latch, active, signal, pc, req, cpc, receipts, verdict>>
    BY <1>1 DEF StopAccepting, Drained, Boot, Tick, calls, cancelling, environment, memory
  <2> QED BY <2>1 DEF TypeOK, RegistryTypes, SignalIsKept, AcceptedAfterSignal, Alone, Heard
<1>2. CASE LatchShutdown
  <2>1. UNCHANGED <<crashes, faults, active, pc, req, cpc, receipts, verdict>> /\ latch' = TRUE
    BY <1>2 DEF LatchShutdown, cancelling, environment
  <2>2. PICK owners \in SUBSET {c \in Calls : \E m \in Commands : active[m] = c} :
           signal' = [c \in Calls |-> signal[c] \/ c \in owners]
    BY <1>2 DEF LatchShutdown
  <2>3. \A c \in Calls : signal[c] => signal'[c]
    BY <2>2
  <2>4. \A c \in Calls : signal'[c] =>
          pc[c] \notin {"new", "verifying", "replaying", "admitted", "looked", "claimed"}
    <3>1. \A c \in owners : c \in Calls /\ \E m \in Commands : active[m] = c /\ active[m] # None
      BY RuntimeAssumption
    <3> QED BY <2>2, <3>1 DEF SignalIsKept
  <2>5. RegistryTypes'
    BY <2>1, <2>2 DEF TypeOK, RegistryTypes
  <2>6. SignalIsKept'
    BY <2>1, <2>4 DEF SignalIsKept
  <2>7. AcceptedAfterSignal'
    BY <2>1, <2>3 DEF AcceptedAfterSignal, Alone, Heard
  <2> QED BY <2>5, <2>6, <2>7
<1>3. CASE Crash
  <2>1. /\ crashes' = crashes + 1 /\ latch' = FALSE /\ UNCHANGED <<faults, receipts>>
        /\ active' = [m \in Commands |-> None] /\ signal' = [c \in Calls |-> FALSE]
        /\ cpc' = [x \in Cancels |-> IF cpc[x] = "done" THEN "done" ELSE "new"]
        /\ verdict' = [x \in Cancels |-> IF cpc[x] = "done" THEN verdict[x] ELSE None]
    BY <1>3 DEF Crash
  <2>2. RegistryTypes'
    <3>1. "done" \in CancelStates /\ "new" \in CancelStates
      BY DEF CancelStates
    <3>2. cpc' \in [Cancels -> CancelStates] /\ DOMAIN verdict' = Cancels
      BY <2>1, <3>1
    <3>3. crashes' \in Nat /\ faults' \in Nat /\ latch' \in BOOLEAN /\ DOMAIN receipts' = CancelIds
      <4>1. crashes' = crashes + 1 /\ latch' = FALSE /\ UNCHANGED <<faults, receipts>>
        BY <2>1
      <4>2. crashes' \in Nat /\ faults' \in Nat /\ DOMAIN receipts' = CancelIds
        BY <4>1 DEF TypeOK, RegistryTypes
      <4> QED BY <4>1, <4>2
    <3>4. active' \in [Commands -> Calls \cup {None}] /\ signal' \in [Calls -> BOOLEAN]
      BY <2>1
    <3> QED BY <3>2, <3>3, <3>4 DEF RegistryTypes
  <2>3. SignalIsKept'
    BY <2>1 DEF SignalIsKept
  <2>4. crashes' # 0
    BY <2>1 DEF TypeOK, RegistryTypes
  <2>5. AcceptedAfterSignal'
    BY <2>4 DEF AcceptedAfterSignal, Alone
  <2> QED BY <2>2, <2>3, <2>5
<1> QED BY <1>1, <1>2, <1>3

-----------------------------------------------------------------------------
\* The theorems.

\* A node that starts satisfies the invariant.
LEMMA RuntimeInit ==
  Init => RuntimeInv
<1> SUFFICES ASSUME Init PROVE RuntimeInv
  OBVIOUS
<1>1. "new" \in CallStates /\ "new" \in CancelStates /\ "new" \notin Admitted
  BY DEF CallStates, CancelStates, Admitted, Claiming, WithSlot
<1>2. "new" \notin InCall /\ "new" \notin Claiming
  BY DEF InCall, Claiming, WithSlot
<1>3. CallTypes
  BY <1>1 DEF Init, CallTypes
<1>4. RegistryTypes
  BY <1>1 DEF Init, RegistryTypes
<1>5. DownServesNone /\ AuthorizedOnce /\ ClaimIsHeld /\ ClaimHasOwner /\ ReservationIsDurable
  BY <1>1, <1>2 DEF Init, DownServesNone, AuthorizedOnce, ClaimIsHeld, ClaimHasOwner,
     ReservationIsDurable
<1>6. EffectIsRemembered /\ ReservedIsFirst /\ EffectOnce /\ OutcomeIsAnswer
  BY DEF Init, EffectIsRemembered, ReservedIsFirst, EffectOnce, OutcomeIsAnswer
<1>7. EvidenceIsTrue /\ ResponsesAreTrue /\ ClosedToAll /\ QuietAfterShutdown
  BY DEF Init, EvidenceIsTrue, ResponsesAreTrue, ClosedToAll, QuietAfterShutdown
<1>8. SignalIsKept
  BY DEF Init, SignalIsKept
<1>9. AcceptedAfterSignal
  <2>1. None # "Accepted"
    BY RuntimeAssumption DEF Verdicts
  <2>2. \A x \in Cancels : IdOf[x] \in CancelIds
    BY DEF CancelIds
  <2> QED BY <2>1, <2>2 DEF Init, AcceptedAfterSignal
<1> QED BY <1>3, <1>4, <1>5, <1>6, <1>7, <1>8, <1>9 DEF RuntimeInv, CallInv, TypeOK

\* Every step preserves it.
LEMMA RuntimeNext ==
  RuntimeInv /\ [Next]_vars => RuntimeInv'
<1> SUFFICES ASSUME RuntimeInv, [Next]_vars PROVE RuntimeInv'
  OBVIOUS
<1>1. TypeOK /\ CallInv
  BY DEF RuntimeInv
<1>2. ASSUME NEW c \in Calls, Submit(c) \/ CallStep(c) \/ ResourceBusy(c) \/ WorkerPanic(c)
      PROVE  RuntimeInv'
  <2>1. CallShape(c)
    BY <1>1, <1>2, CallStepShape
  <2>2. RegistryShape(c)
    BY <1>1, <1>2, CallStepRegistry
  <2> QED BY <1>1, <2>1, <2>2, ShapeInv, CallKeepsSignals DEF RuntimeInv, TypeOK
<1>3. ASSUME NEW x \in Cancels, LoadReceipt(x) \/ CancelStep(x)
      PROVE  RuntimeInv'
  BY <1>1, <1>3, CancelLeavesCore, CoreStutter, CancelKeepsSignals DEF RuntimeInv, TypeOK
<1>4. CASE StopAccepting \/ LatchShutdown \/ Drained \/ Crash \/ Boot \/ Tick
  BY <1>1, <1>4, ShutdownStep, CrashStep, BootStep, OthersKeepSignals DEF RuntimeInv, TypeOK
<1>5. CASE UNCHANGED vars
  <2>1. UNCHANGED <<core, crashes, faults, latch, active, signal, cpc, receipts, verdict>>
    BY <1>5 DEF vars, memory, calls, cancelling, stores, environment, history, core, book
  <2>2. CallTypes' /\ CallInv'
    BY <1>1, <2>1, CoreStutter
  <2>3. RegistryTypes'
    BY <1>1, <2>1 DEF TypeOK, RegistryTypes
  <2>4. SignalIsKept' /\ AcceptedAfterSignal'
    BY <2>1 DEF RuntimeInv, core, SignalIsKept, AcceptedAfterSignal, Alone, Heard
  <2> QED BY <2>2, <2>3, <2>4 DEF RuntimeInv, TypeOK
<1> QED BY <1>2, <1>3, <1>4, <1>5 DEF Next

\* RuntimeInv holds in every state a node can reach.
THEOREM RuntimeInvariant ==
  Spec => []RuntimeInv
<1> QED BY RuntimeInit, RuntimeNext, PTL DEF Spec

\* However often a request is delivered, replayed or retried, before and after
\* crashes, failed writes and retention, RuntimeSupervisor starts its effect at
\* most once, unless its record was pruned as it expired.
THEOREM EffectsStartOnce ==
  Spec => []EffectOnce
<1>1. RuntimeInv => EffectOnce
  BY DEF RuntimeInv, CallInv
<1> QED BY <1>1, RuntimeInvariant, PTL

\* Every response, fresh, cached or recovered from the durable record, is how
\* the effect of its request ended.
THEOREM ResponsesAreOutcomes ==
  Spec => []ResponsesAreTrue
<1>1. RuntimeInv => ResponsesAreTrue
  BY DEF RuntimeInv, CallInv
<1> QED BY <1>1, RuntimeInvariant, PTL

\* CompletedClaimCleanup leaves no key in progress: an open claim has a call.
THEOREM ClaimsHaveOwners ==
  Spec => []ClaimHasOwner
<1>1. RuntimeInv => ClaimHasOwner
  BY DEF RuntimeInv, CallInv
<1> QED BY <1>1, RuntimeInvariant, PTL

\* A shutdown that drained its permits leaves no worker, and none starts.
THEOREM ShutdownIsQuiet ==
  Spec => []QuietAfterShutdown
<1>1. RuntimeInv => QuietAfterShutdown
  BY DEF RuntimeInv, CallInv
<1> QED BY <1>1, RuntimeInvariant, PTL

\* A cancellation that is alone with its id and answered as accepted, before
\* any crash, has set the signal of a call that delivers its target.
THEOREM AcceptedCancelsAreHeard ==
  Spec => []AcceptedIsHeard
<1>1. RuntimeInv => AcceptedIsHeard
  BY DEF RuntimeInv, AcceptedAfterSignal, AcceptedIsHeard, Alone, Heard
<1> QED BY <1>1, RuntimeInvariant, PTL

\* What a step does to a request that was answered as cancelled before
\* execution, and not consumed again after it expired.
LEMMA HaltedStaysHalted ==
  ASSUME RuntimeInv, [Next]_vars
  PROVE  \A r \in halted \ reconsumed : r \in halted' => effects'[r] = effects[r]
<1>1. TypeOK /\ CallInv
  BY DEF RuntimeInv
<1>2. halted \subseteq Requests
  BY <1>1 DEF TypeOK, CallTypes
<1>3. ASSUME NEW c \in Calls, Submit(c) \/ CallStep(c) \/ ResourceBusy(c) \/ WorkerPanic(c)
      PROVE  \A r \in halted \ reconsumed : effects'[r] = effects[r]
  <2>1. CallShape(c)
    BY <1>1, <1>3, CallStepShape
  <2>2. Starts(c) => req[c] \notin halted \ reconsumed
    <3>1. "reserved" \in Admitted
      BY DEF Admitted, Claiming, WithSlot
    <3> QED BY <1>1, <3>1 DEF Starts, Moves, CallInv, AuthorizedOnce
  <2> QED BY <1>1, <1>2, <2>1, <2>2, ShapeEffects
<1>4. ASSUME NEW x \in Cancels, LoadReceipt(x) \/ CancelStep(x)
      PROVE  effects' = effects
  BY <1>4, CancelLeavesCore DEF core, book
<1>5. CASE StopAccepting \/ LatchShutdown \/ Drained \/ Crash \/ Boot \/ Tick \/ UNCHANGED vars
  <2>1. effects' = effects
    BY <1>5 DEF StopAccepting, LatchShutdown, Drained, Crash, Boot, Tick, vars, history
  <2> QED BY <2>1
<1> QED BY <1>3, <1>4, <1>5 DEF Next

\* Once a call was answered as cancelled before execution, this process never
\* starts the effect of its request, whatever is delivered again, unless a
\* second delivery was checked before the authorization expired and consumed it
\* after.
THEOREM CancelledRequestsNeverStart ==
  Spec => CancelledNeverStarts
<1>1. RuntimeInv /\ [Next]_vars => [\A r \in halted \ reconsumed : r \in halted' => effects'[r] = effects[r]]_vars
  BY HaltedStaysHalted
<1> QED BY <1>1, RuntimeInvariant, PTL DEF Spec, CancelledNeverStarts
=============================================================================
