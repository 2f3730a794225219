---------------------------- MODULE SerialQueue ----------------------------
(***************************************************************************)
(* The queues that serialise work by key: session intake, run recovery,     *)
(* schedule execution, delayed runs and provider sends of a session.  Each  *)
(* is a Map from the key to the promise of the last task; a new task chains *)
(* itself behind that promise, and a task that ends deletes the entry only  *)
(* if the entry is still its own promise.                                   *)
(*                                                                         *)
(* A promise is named after the task it belongs to.  A task that has        *)
(* settled is released in a later microtask, by its finally handler; only   *)
(* then is its promise settled and its successor started.                   *)
(***************************************************************************)
EXTENDS Integers, FiniteSets

CONSTANTS
  Tasks,
  NoTask,
  Keys,
  KeyOf         \* the session, run or schedule a task belongs to

ASSUME QueueAssumption ==
  /\ KeyOf \in [Tasks -> Keys]
  /\ NoTask \notin Tasks

VARIABLES
  phase,        \* where a task is
  after,        \* the task whose promise a task is chained behind
  threw,        \* tasks whose promise is rejected
  tail,         \* the Map: the last promise of a key
  ticket,       \* the place of a task in the order of arrival; 0 before
  arrivals      \* how many tasks have arrived

queueVars == <<phase, after, threw, tail, ticket, arrivals>>

Phases == {"new", "queued", "running", "settled", "released"}

Init ==
  /\ phase = [t \in Tasks |-> "new"]
  /\ after = [t \in Tasks |-> NoTask]
  /\ threw = {}
  /\ tail = [k \in Keys |-> NoTask]
  /\ ticket = [t \in Tasks |-> 0]
  /\ arrivals = 0

-----------------------------------------------------------------------------

Enqueue(t) ==
  /\ phase[t] = "new"
  /\ phase' = [phase EXCEPT ![t] = "queued"]
  /\ after' = [after EXCEPT ![t] = tail[KeyOf[t]]]
  /\ tail' = [tail EXCEPT ![KeyOf[t]] = t]
  /\ arrivals' = arrivals + 1
  /\ threw' = threw
  /\ ticket' = [ticket EXCEPT ![t] = arrivals + 1]

\* A rejection of the previous promise is caught: it starts the task as well.
MayStart(t) == after[t] # NoTask => phase[after[t]] = "released"

Start(t) ==
  /\ phase[t] = "queued"
  /\ MayStart(t)
  /\ phase' = [phase EXCEPT ![t] = "running"]
  /\ UNCHANGED <<after, threw, tail, ticket, arrivals>>

\* The task returns or throws.
Settle(t) ==
  /\ phase[t] = "running"
  /\ phase' = [phase EXCEPT ![t] = "settled"]
  /\ threw' \in {threw, threw \union {t}}
  /\ UNCHANGED <<after, tail, ticket, arrivals>>

TailAfterAnyRelease(t) == [tail EXCEPT ![KeyOf[t]] = NoTask]
TailNeverCleared(t) == tail

TailAfterRelease(t) ==
  IF tail[KeyOf[t]] = t THEN [tail EXCEPT ![KeyOf[t]] = NoTask] ELSE tail

Release(t) ==
  /\ phase[t] = "settled"
  /\ phase' = [phase EXCEPT ![t] = "released"]
  /\ tail' = TailAfterRelease(t)
  /\ UNCHANGED <<after, threw, ticket, arrivals>>

QueueStep(t) == Start(t) \/ Settle(t) \/ Release(t)

Next == \E t \in Tasks : Enqueue(t) \/ QueueStep(t)

Spec == Init /\ [][Next]_queueVars

-----------------------------------------------------------------------------

Active(t) == phase[t] \in {"running", "settled"}
Arrived(t) == phase[t] # "new"
Before(u, t) == KeyOf[u] = KeyOf[t] /\ Arrived(u) /\ Arrived(t) /\ ticket[u] < ticket[t]

\* Every variable stays within its type.
TypeOK ==
  /\ phase \in [Tasks -> Phases]
  /\ after \in [Tasks -> Tasks \union {NoTask}]
  /\ threw \subseteq Tasks
  /\ tail \in [Keys -> Tasks \union {NoTask}]
  /\ ticket \in [Tasks -> Nat]
  /\ arrivals \in Nat

\* Tasks of a key run one at a time and in the order in which they arrived,
\* across every interleaving of arrivals with the handlers that end a task and
\* clear the map.
SerialInOrder ==
  \A t, u \in Tasks : (Active(t) \/ phase[t] = "released") /\ Before(u, t) => phase[u] = "released"

\* The map has an entry for a key exactly while a task of the key has arrived
\* and is not released: has...Queue() is exact, and no entry outlives its work.
EntryWhileBusy ==
  \A k \in Keys :
    tail[k] # NoTask <=>
      \E t \in Tasks : KeyOf[t] = k /\ phase[t] \in {"queued", "running", "settled"}

=============================================================================
