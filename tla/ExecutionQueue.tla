--------------------------- MODULE ExecutionQueue ---------------------------
(***************************************************************************)
(* The execution queue of root runs: one entry per request group, holding   *)
(* the promise of the last run and the number of runs not yet released.     *)
(* Unlike the other keyed queues it is bounded: a run is refused when as    *)
(* many runs as the budget allows are waiting behind the first.             *)
(*                                                                         *)
(* An entry is an object; it is named after the run that created it.        *)
(***************************************************************************)
EXTENDS Integers, FiniteSets

CONSTANTS
  Runs,
  NoRun,
  Groups,
  GroupOf,      \* the request group of a run
  MaxPending    \* budget of interactive_run

ASSUME ExecutionAssumption ==
  /\ IsFiniteSet(Runs)
  /\ GroupOf \in [Runs -> Groups]
  /\ NoRun \notin Runs
  /\ MaxPending \in Nat

VARIABLES
  phase,        \* where a run is
  after,        \* the run it is chained behind
  threw,        \* runs whose promise is rejected
  object,       \* the entry it was chained into
  entry,        \* requestGroupExecutionQueues
  tailOf,       \* state.tail of an entry
  outstanding,  \* state.outstanding of an entry
  ticket,       \* the order in which runs were admitted; 0 before
  admissions

vars == <<phase, after, threw, object, entry, tailOf, outstanding, ticket, admissions>>

Phases == {"new", "queued", "running", "settled", "released", "rejected"}

Init ==
  /\ phase = [r \in Runs |-> "new"]
  /\ after = [r \in Runs |-> NoRun]
  /\ threw = {}
  /\ object = [r \in Runs |-> NoRun]
  /\ entry = [g \in Groups |-> NoRun]
  /\ tailOf = [r \in Runs |-> NoRun]
  /\ outstanding = [r \in Runs |-> 0]
  /\ ticket = [r \in Runs |-> 0]
  /\ admissions = 0

-----------------------------------------------------------------------------

\* The first run of an entry does not wait and is not counted.
Full(g) == entry[g] # NoRun /\ outstanding[entry[g]] - 1 >= MaxPending

Reject(r) ==
  /\ phase[r] = "new"
  /\ Full(GroupOf[r])
  /\ phase' = [phase EXCEPT ![r] = "rejected"]
  /\ UNCHANGED <<after, threw, object, entry, tailOf, outstanding, ticket, admissions>>

Admit(r) ==
  LET g == GroupOf[r]
      o == IF entry[g] # NoRun THEN entry[g] ELSE r
  IN
  /\ phase[r] = "new"
  /\ ~Full(g)
  /\ phase' = [phase EXCEPT ![r] = "queued"]
  /\ after' = [after EXCEPT ![r] = tailOf[o]]
  /\ threw' = threw
  /\ object' = [object EXCEPT ![r] = o]
  /\ entry' = [entry EXCEPT ![g] = o]
  /\ tailOf' = [tailOf EXCEPT ![o] = r]
  /\ outstanding' = [outstanding EXCEPT ![o] = @ + 1]
  /\ admissions' = admissions + 1
  /\ ticket' = [ticket EXCEPT ![r] = admissions + 1]

Unchained(r) == TRUE
MayStartAfterSuccess(r) == after[r] # NoRun => phase[after[r]] = "released" /\ after[r] \notin threw

\* A rejection of the previous promise is caught: it starts the run as well.
MayStart(r) == after[r] # NoRun => phase[after[r]] = "released"

Start(r) ==
  /\ phase[r] = "queued"
  /\ MayStart(r)
  /\ phase' = [phase EXCEPT ![r] = "running"]
  /\ UNCHANGED <<after, threw, object, entry, tailOf, outstanding, ticket, admissions>>

\* The run's task returns, or throws and is answered with the stored run; reading
\* the stored run may throw too.
Settle(r) ==
  /\ phase[r] = "running"
  /\ phase' = [phase EXCEPT ![r] = "settled"]
  /\ threw' \in {threw, threw \union {r}}
  /\ UNCHANGED <<after, object, entry, tailOf, outstanding, ticket, admissions>>

EntryKept(r, left) == entry

EntryAfterRelease(r, left) ==
  IF entry[GroupOf[r]] = object[r] /\ left = 0
  THEN [entry EXCEPT ![GroupOf[r]] = NoRun]
  ELSE entry

Release(r) ==
  LET left == IF outstanding[object[r]] > 0 THEN outstanding[object[r]] - 1 ELSE 0 IN
  /\ phase[r] = "settled"
  /\ phase' = [phase EXCEPT ![r] = "released"]
  /\ outstanding' = [outstanding EXCEPT ![object[r]] = left]
  /\ entry' = EntryAfterRelease(r, left)
  /\ UNCHANGED <<after, threw, object, tailOf, ticket, admissions>>

QueueStep(r) == Start(r) \/ Settle(r) \/ Release(r)

Next == \E r \in Runs : Reject(r) \/ Admit(r) \/ QueueStep(r)

Spec == Init /\ [][Next]_vars

\* Microtasks run, and the driver of a run returns.
FairSpec == Spec /\ \A r \in Runs : WF_vars(QueueStep(r))

-----------------------------------------------------------------------------

Unreleased(g) == {r \in Runs : GroupOf[r] = g /\ phase[r] \in {"queued", "running", "settled"}}

\* Every variable stays within its type.
TypeOK ==
  /\ phase \in [Runs -> Phases]
  /\ after \in [Runs -> Runs \union {NoRun}]
  /\ threw \subseteq Runs
  /\ object \in [Runs -> Runs \union {NoRun}]
  /\ entry \in [Groups -> Runs \union {NoRun}]
  /\ tailOf \in [Runs -> Runs \union {NoRun}]
  /\ outstanding \in [Runs -> Nat]
  /\ ticket \in [Runs -> Nat]
  /\ admissions \in Nat

\* The queue seen as one of the unbounded keyed queues: a refused run never
\* arrives, and the tail of a group is that of its entry.
SQ == INSTANCE SerialQueue WITH
  Tasks <- Runs, NoTask <- NoRun, Keys <- Groups, KeyOf <- GroupOf,
  phase <- [r \in Runs |-> IF phase[r] = "rejected" THEN "new" ELSE phase[r]],
  tail <- [g \in Groups |-> IF entry[g] = NoRun THEN NoRun ELSE tailOf[entry[g]]],
  arrivals <- admissions

\* The counted entries behave as the promise map does: deleting an entry when
\* its counter is zero is deleting it when the last promise of the group is
\* settled, so that the runs of a request group execute one at a time and in the
\* order of their admission, whatever arrives while an entry is being emptied.
ImplementsSerialQueue == SQ!Spec

\* The counter of the group's entry is the number of its unreleased runs, and
\* the entry is gone when there are none: hasRequestGroupExecutionQueue, from
\* which a new run learns whether it waits, is exact, and refusals end.
OutstandingIsExact ==
  \A g \in Groups :
    IF entry[g] = NoRun THEN Unreleased(g) = {}
    ELSE outstanding[entry[g]] = Cardinality(Unreleased(g)) /\ Unreleased(g) # {}

\* A run that was admitted is executed and released, as long as runs return.
AdmittedIsReleased == \A r \in Runs : phase[r] = "queued" ~> phase[r] = "released"
=============================================================================
