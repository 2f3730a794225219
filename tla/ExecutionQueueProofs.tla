------------------------ MODULE ExecutionQueueProofs ------------------------
(***************************************************************************)
(* The execution queue of request groups keeps exact counters and           *)
(* implements the keyed promise queue, for any number of runs and groups    *)
(* and any budget.                                                          *)
(*                                                                         *)
(* The queue deletes an entry by its counter where the others compare       *)
(* promises.  The two agree because a released run leaves the counter at    *)
(* zero exactly if it is the tail of its group, which holds because runs    *)
(* are released in order: the invariant of the promise queue, under the     *)
(* refinement mapping, is therefore part of the inductive invariant here.   *)
(***************************************************************************)
EXTENDS ExecutionQueue, FiniteSetTheorems, TLAPS

\* The promise queue with its proofs, under the refinement mapping of SQ.
Chain == INSTANCE SerialQueueProofs WITH
  Tasks <- Runs, NoTask <- NoRun, Keys <- Groups, KeyOf <- GroupOf,
  phase <- [r \in Runs |-> IF phase[r] = "rejected" THEN "new" ELSE phase[r]],
  tail <- [g \in Groups |-> IF entry[g] = NoRun THEN NoRun ELSE tailOf[entry[g]]],
  arrivals <- admissions

Pending == {"queued", "running", "settled"}

\* A run that was not admitted has no entry object of its own.
UnadmittedIsBlank ==
  \A r \in Runs : phase[r] \in {"new", "rejected"} => tailOf[r] = NoRun /\ outstanding[r] = 0

\* Unreleased runs are counted by the entry of their group, and by no other.
CountedByEntry ==
  /\ \A r \in Runs : phase[r] \in Pending =>
       object[r] = entry[GroupOf[r]] /\ entry[GroupOf[r]] # NoRun
  /\ \A g \in Groups : entry[g] # NoRun => GroupOf[entry[g]] = g

ExecutionInv ==
  TypeOK /\ UnadmittedIsBlank /\ CountedByEntry /\ OutstandingIsExact /\ Chain!QueueInv

\* The assumption of the promise queue, for runs and groups.
LEMMA ChainAssumption == Chain!QueueAssumption
BY ExecutionAssumption DEF Chain!QueueAssumption

\* The unreleased runs of a group are finitely many.
LEMMA UnreleasedFinite ==
  \A g : IsFiniteSet(Unreleased(g)) /\ Cardinality(Unreleased(g)) \in Nat
<1> TAKE g
<1>1. Unreleased(g) \subseteq Runs
  BY DEF Unreleased
<1> QED BY <1>1, ExecutionAssumption, FS_Subset, FS_CardinalityType

\* An entry that is there has a run as its tail.
LEMMA EntryHasTail ==
  ASSUME ExecutionInv, NEW g \in Groups, entry[g] # NoRun
  PROVE  /\ entry[g] \in Runs
         /\ tailOf[entry[g]] \in Unreleased(g)
         /\ \A r \in Unreleased(g) : ticket[r] <= ticket[tailOf[entry[g]]]
<1>1. PICK u \in Unreleased(g) : TRUE
  BY DEF ExecutionInv, OutstandingIsExact
<1>2. u \in Runs /\ GroupOf[u] = g /\ phase[u] \in Pending
  BY <1>1 DEF Unreleased, Pending
<1>3. TypeOK /\ entry[g] \in Runs
  BY DEF ExecutionInv, TypeOK
<1>4. tailOf[entry[g]] # NoRun
  <2>1. /\ [x \in Runs |-> IF phase[x] = "rejected" THEN "new" ELSE phase[x]][u] = phase[u]
        /\ [h \in Groups |-> IF entry[h] = NoRun THEN NoRun ELSE tailOf[entry[h]]][g]
             = tailOf[entry[g]]
        /\ phase[u] # "new" /\ phase[u] # "released"
    BY <1>2 DEF Pending
  <2>2. Chain!Arrived(u)
    BY <2>1 DEF Chain!Arrived
  <2>3. Chain!TailIsLatest
    BY DEF ExecutionInv, Chain!QueueInv
  <2> QED BY <1>2, <2>1, <2>2, <2>3 DEF Chain!TailIsLatest
<1>5. tailOf[entry[g]] \in Runs
  BY <1>3, <1>4 DEF TypeOK
<1>6. GroupOf[tailOf[entry[g]]] = g /\ phase[tailOf[entry[g]]] \in Pending
  BY <1>4, <1>5 DEF ExecutionInv, Chain!QueueInv, Chain!TailIsLatest, Pending
<1>7. ASSUME NEW r \in Unreleased(g) PROVE ticket[r] <= ticket[tailOf[entry[g]]]
  <2>1. r \in Runs /\ GroupOf[r] = g /\ phase[r] \in Pending
    BY DEF Unreleased, Pending
  <2> QED BY <1>4, <2>1 DEF ExecutionInv, Chain!QueueInv, Chain!TailIsLatest, Chain!Arrived, Pending
<1> QED BY <1>3, <1>5, <1>6, <1>7 DEF Unreleased, Pending

-----------------------------------------------------------------------------
\* Every step is a step of the promise queue, or invisible to it.

\* Empty queues are an empty promise map.
LEMMA InitRefines == Init => Chain!Init
BY ExecutionAssumption DEF Init, Chain!Init

\* A refused run never arrives.
LEMMA RejectRefines ==
  ASSUME ExecutionInv, NEW r \in Runs, Reject(r)
  PROVE  UNCHANGED Chain!queueVars
BY DEF ExecutionInv, TypeOK, Reject, Chain!queueVars

\* An admitted run is chained behind the tail of its group's entry.
LEMMA AdmitRefines ==
  ASSUME ExecutionInv, NEW r \in Runs, Admit(r)
  PROVE  Chain!Enqueue(r)
<1> DEFINE g == GroupOf[r]
           o == IF entry[g] # NoRun THEN entry[g] ELSE r
<1>1. TypeOK /\ g \in Groups /\ r # NoRun /\ o \in Runs /\ o # NoRun
  BY ExecutionAssumption DEF ExecutionInv, TypeOK
<1>2. /\ phase[r] = "new" /\ phase' = [phase EXCEPT ![r] = "queued"]
      /\ after' = [after EXCEPT ![r] = tailOf[o]] /\ threw' = threw
      /\ entry' = [entry EXCEPT ![g] = o] /\ tailOf' = [tailOf EXCEPT ![o] = r]
      /\ admissions' = admissions + 1 /\ ticket' = [ticket EXCEPT ![r] = admissions + 1]
  BY DEF Admit
<1>3. tailOf[o] = IF entry[g] = NoRun THEN NoRun ELSE tailOf[entry[g]]
  BY <1>1, <1>2 DEF ExecutionInv, UnadmittedIsBlank
<1>4. ASSUME NEW h \in Groups, h # g
      PROVE  /\ entry'[h] = entry[h]
             /\ entry[h] # NoRun => tailOf'[entry[h]] = tailOf[entry[h]]
  <2>1. entry[h] # NoRun => entry[h] # o
    <3>1. CASE entry[g] # NoRun
      BY <1>1, <1>4, <3>1 DEF ExecutionInv, CountedByEntry
    <3>2. CASE entry[g] = NoRun
      BY <1>1, <1>4, <3>2 DEF ExecutionInv, CountedByEntry
    <3> QED BY <3>1, <3>2
  <2> QED BY <1>1, <1>2, <1>4, <2>1 DEF TypeOK
<1>5. entry'[g] = o /\ tailOf'[o] = r
  BY <1>1, <1>2 DEF TypeOK
<1>6. [h \in Groups |-> IF entry[h] = NoRun THEN NoRun ELSE tailOf[entry[h]]]'
        = [[h \in Groups |-> IF entry[h] = NoRun THEN NoRun ELSE tailOf[entry[h]]] EXCEPT ![g] = r]
  BY <1>1, <1>4, <1>5
<1>7. [x \in Runs |-> IF phase[x] = "rejected" THEN "new" ELSE phase[x]]'
        = [[x \in Runs |-> IF phase[x] = "rejected" THEN "new" ELSE phase[x]] EXCEPT ![r] = "queued"]
  BY <1>1, <1>2 DEF TypeOK
<1> QED BY <1>1, <1>2, <1>3, <1>6, <1>7 DEF Chain!Enqueue

\* A run starts when the run it is chained behind is released.
LEMMA StartRefines ==
  ASSUME ExecutionInv, NEW r \in Runs, Start(r)
  PROVE  Chain!Start(r)
<1>1. TypeOK /\ phase[r] = "queued" /\ phase' = [phase EXCEPT ![r] = "running"]
      /\ UNCHANGED <<after, threw, entry, tailOf, ticket, admissions>>
  BY DEF ExecutionInv, Start
<1>2. [x \in Runs |-> IF phase[x] = "rejected" THEN "new" ELSE phase[x]]'
        = [[x \in Runs |-> IF phase[x] = "rejected" THEN "new" ELSE phase[x]] EXCEPT ![r] = "running"]
  BY <1>1 DEF TypeOK
<1>3. Chain!MayStart(r)
  BY <1>1 DEF Start, MayStart, Chain!MayStart, TypeOK
<1> QED BY <1>1, <1>2, <1>3 DEF Chain!Start

\* A run ends, with or without an exception.
LEMMA SettleRefines ==
  ASSUME ExecutionInv, NEW r \in Runs, Settle(r)
  PROVE  Chain!Settle(r)
<1>1. TypeOK /\ phase[r] = "running" /\ phase' = [phase EXCEPT ![r] = "settled"]
      /\ threw' \in {threw, threw \union {r}}
      /\ UNCHANGED <<after, entry, tailOf, ticket, admissions>>
  BY DEF ExecutionInv, Settle
<1>2. [x \in Runs |-> IF phase[x] = "rejected" THEN "new" ELSE phase[x]]'
        = [[x \in Runs |-> IF phase[x] = "rejected" THEN "new" ELSE phase[x]] EXCEPT ![r] = "settled"]
  BY <1>1 DEF TypeOK
<1> QED BY <1>1, <1>2 DEF Chain!Settle

\* The counter of an entry reaches zero when its tail is released, and only then.
LEMMA LastIsTail ==
  ASSUME ExecutionInv, NEW r \in Runs, phase[r] = "settled"
  PROVE  LET g == GroupOf[r] IN
         /\ g \in Groups /\ object[r] = entry[g] /\ entry[g] \in Runs
         /\ outstanding[object[r]] = Cardinality(Unreleased(g))
         /\ outstanding[object[r]] > 0
         /\ Cardinality(Unreleased(g) \ {r}) = outstanding[object[r]] - 1
         /\ outstanding[object[r]] - 1 = 0 <=> Unreleased(g) \ {r} = {}
         /\ outstanding[object[r]] - 1 = 0 <=> tailOf[entry[g]] = r
<1> DEFINE g == GroupOf[r]
           w == tailOf[entry[g]]
<1>1. TypeOK /\ g \in Groups /\ object[r] = entry[g] /\ entry[g] # NoRun
  BY ExecutionAssumption DEF ExecutionInv, CountedByEntry, Pending
<1>2. outstanding[object[r]] = Cardinality(Unreleased(g)) /\ r \in Unreleased(g)
  BY <1>1 DEF ExecutionInv, OutstandingIsExact, Unreleased
<1>3. IsFiniteSet(Unreleased(g)) /\ Cardinality(Unreleased(g)) \in Nat
  BY UnreleasedFinite
<1>4. /\ IsFiniteSet(Unreleased(g) \ {r})
      /\ Cardinality(Unreleased(g) \ {r}) = Cardinality(Unreleased(g)) - 1
      /\ Cardinality(Unreleased(g) \ {r}) \in Nat
  BY <1>2, <1>3, FS_RemoveElement, FS_CardinalityType
<1>5. Cardinality(Unreleased(g) \ {r}) = 0 <=> Unreleased(g) \ {r} = {}
  BY <1>4, FS_EmptySet
<1>6. entry[g] \in Runs /\ w \in Unreleased(g)
      /\ \A u \in Unreleased(g) : ticket[u] <= ticket[w]
  BY <1>1, EntryHasTail
<1>7. w = r => Unreleased(g) \ {r} = {}
  <2> SUFFICES ASSUME w = r, NEW u \in Unreleased(g), u # r PROVE FALSE
    OBVIOUS
  <2>1. u \in Runs /\ GroupOf[u] = g /\ phase[u] \in Pending
    BY DEF Unreleased, Pending
  <2>2. ticket[u] \in Nat /\ ticket[r] \in Nat /\ ticket[u] <= ticket[r]
    BY <1>1, <1>6, <2>1 DEF TypeOK
  <2>3. ticket[u] # ticket[r]
    BY <2>1 DEF ExecutionInv, Chain!QueueInv, Chain!Tickets, Chain!Arrived
  <2>4. Chain!Before(u, r)
    BY <2>1, <2>2, <2>3 DEF Chain!Before, Chain!Arrived, Pending
  <2>5. Chain!Active(r)
    BY DEF Chain!Active
  <2> QED BY <2>1, <2>4, <2>5 DEF ExecutionInv, Chain!QueueInv, Chain!SerialInOrder, Pending
<1>8. Unreleased(g) \ {r} = {} => w = r
  BY <1>6
<1> QED BY <1>1, <1>2, <1>3, <1>4, <1>5, <1>6, <1>7, <1>8

\* The entry whose counter reaches zero is the one whose tail is released.
LEMMA ReleaseRefines ==
  ASSUME ExecutionInv, NEW r \in Runs, Release(r)
  PROVE  Chain!Release(r)
<1> DEFINE g == GroupOf[r]
           left == outstanding[object[r]] - 1
<1>1. TypeOK /\ phase[r] = "settled" /\ phase' = [phase EXCEPT ![r] = "released"]
      /\ UNCHANGED <<after, threw, tailOf, ticket, admissions>>
  BY DEF ExecutionInv, Release
<1>2. /\ g \in Groups /\ object[r] = entry[g] /\ entry[g] \in Runs /\ entry[g] # NoRun
      /\ outstanding[object[r]] > 0 /\ (left = 0 <=> tailOf[entry[g]] = r)
  BY <1>1, LastIsTail, ExecutionAssumption
<1>3. entry' = IF tailOf[entry[g]] = r THEN [entry EXCEPT ![g] = NoRun] ELSE entry
  BY <1>2 DEF Release, EntryAfterRelease
<1>4. [h \in Groups |-> IF entry[h] = NoRun THEN NoRun ELSE tailOf[entry[h]]]'
        = IF tailOf[entry[g]] = r
          THEN [[h \in Groups |-> IF entry[h] = NoRun THEN NoRun ELSE tailOf[entry[h]]]
                  EXCEPT ![g] = NoRun]
          ELSE [h \in Groups |-> IF entry[h] = NoRun THEN NoRun ELSE tailOf[entry[h]]]
  BY <1>1, <1>2, <1>3 DEF TypeOK
<1>5. [x \in Runs |-> IF phase[x] = "rejected" THEN "new" ELSE phase[x]]'
        = [[x \in Runs |-> IF phase[x] = "rejected" THEN "new" ELSE phase[x]] EXCEPT ![r] = "released"]
  BY <1>1 DEF TypeOK
<1> QED BY <1>1, <1>2, <1>4, <1>5 DEF Chain!Release, Chain!TailAfterRelease

\* A step of the execution queue is a step of the promise queue or a stutter.
LEMMA StepRefines ==
  ASSUME ExecutionInv, [Next]_vars
  PROVE  [Chain!Next]_(Chain!queueVars)
<1>1. CASE UNCHANGED vars
  BY <1>1 DEF vars, Chain!queueVars
<1>2. ASSUME NEW r \in Runs, Reject(r) PROVE UNCHANGED Chain!queueVars
  BY <1>2, RejectRefines
<1>3. ASSUME NEW r \in Runs, Admit(r) PROVE Chain!Next
  BY <1>3, AdmitRefines DEF Chain!Next
<1>4. ASSUME NEW r \in Runs, Start(r) PROVE Chain!Next
  BY <1>4, StartRefines DEF Chain!Next, Chain!QueueStep
<1>5. ASSUME NEW r \in Runs, Settle(r) PROVE Chain!Next
  BY <1>5, SettleRefines DEF Chain!Next, Chain!QueueStep
<1>6. ASSUME NEW r \in Runs, Release(r) PROVE Chain!Next
  BY <1>6, ReleaseRefines DEF Chain!Next, Chain!QueueStep
<1> QED BY <1>1, <1>2, <1>3, <1>4, <1>5, <1>6 DEF Next, QueueStep

-----------------------------------------------------------------------------
\* The invariant is inductive.

\* Empty queues satisfy the invariant.
LEMMA InitInv == Init => ExecutionInv
<1> SUFFICES ASSUME Init PROVE ExecutionInv
  OBVIOUS
<1>1. TypeOK
  BY DEF Init, TypeOK, Phases
<1>2. UnadmittedIsBlank /\ CountedByEntry /\ OutstandingIsExact
  BY ExecutionAssumption
  DEF Init, UnadmittedIsBlank, CountedByEntry, OutstandingIsExact, Unreleased, Pending
<1>3. Chain!QueueInv
  BY InitRefines, ChainAssumption, Chain!InitInv
<1> QED BY <1>1, <1>2, <1>3 DEF ExecutionInv

\* A refusal, a start and a settlement change no counter and no entry.
LEMMA QuietStep ==
  ASSUME ExecutionInv, NEW r \in Runs, Reject(r) \/ Start(r) \/ Settle(r)
  PROVE  TypeOK' /\ UnadmittedIsBlank' /\ CountedByEntry' /\ OutstandingIsExact'
<1>1. TypeOK /\ UnadmittedIsBlank /\ CountedByEntry /\ OutstandingIsExact
  BY DEF ExecutionInv
<1>2. /\ UNCHANGED <<after, object, entry, tailOf, outstanding, ticket, admissions>>
      /\ \A x \in Runs : x # r => phase'[x] = phase[x]
      /\ \/ phase[r] = "new" /\ phase'[r] = "rejected"
         \/ phase[r] \in Pending /\ phase'[r] \in Pending
  BY <1>1 DEF Reject, Start, Settle, TypeOK, Pending
<1>3. TypeOK'
  BY <1>1 DEF Reject, Start, Settle, TypeOK, Phases
<1>4. UnadmittedIsBlank'
  BY <1>1, <1>2 DEF UnadmittedIsBlank, Pending
<1>5. CountedByEntry'
  BY <1>1, <1>2, ExecutionAssumption DEF CountedByEntry, Pending
<1>6. \A g \in Groups : Unreleased(g)' = Unreleased(g)
  BY <1>2 DEF Unreleased, Pending
<1>7. OutstandingIsExact'
  BY <1>1, <1>2, <1>6 DEF OutstandingIsExact
<1> QED BY <1>3, <1>4, <1>5, <1>7

\* An admission counts the run into the entry of its group.
LEMMA AdmitStep ==
  ASSUME ExecutionInv, NEW r \in Runs, Admit(r)
  PROVE  TypeOK' /\ UnadmittedIsBlank' /\ CountedByEntry' /\ OutstandingIsExact'
<1> DEFINE g == GroupOf[r]
           o == IF entry[g] # NoRun THEN entry[g] ELSE r
<1>1. TypeOK /\ UnadmittedIsBlank /\ CountedByEntry /\ OutstandingIsExact
  BY DEF ExecutionInv
<1>2. g \in Groups /\ r # NoRun /\ o \in Runs /\ o # NoRun
  BY <1>1, ExecutionAssumption DEF TypeOK
<1>3. /\ phase[r] = "new" /\ phase' = [phase EXCEPT ![r] = "queued"]
      /\ after' = [after EXCEPT ![r] = tailOf[o]] /\ threw' = threw
      /\ object' = [object EXCEPT ![r] = o]
      /\ entry' = [entry EXCEPT ![g] = o] /\ tailOf' = [tailOf EXCEPT ![o] = r]
      /\ outstanding' = [outstanding EXCEPT ![o] = @ + 1]
      /\ admissions' = admissions + 1 /\ ticket' = [ticket EXCEPT ![r] = admissions + 1]
  BY DEF Admit
<1>4. TypeOK'
  BY <1>1, <1>2, <1>3 DEF TypeOK, Phases
<1>5. /\ \A x \in Runs : phase'[x] = IF x = r THEN "queued" ELSE phase[x]
      /\ \A x \in Runs : object'[x] = IF x = r THEN o ELSE object[x]
      /\ \A h \in Groups : entry'[h] = IF h = g THEN o ELSE entry[h]
      /\ \A x \in Runs : x # o => tailOf'[x] = tailOf[x] /\ outstanding'[x] = outstanding[x]
      /\ outstanding'[o] = outstanding[o] + 1
  BY <1>1, <1>2, <1>3 DEF TypeOK
<1>6. GroupOf[o] = g
  BY <1>1, <1>2 DEF CountedByEntry
<1>7. entry[g] # NoRun => Unreleased(g) # {}
  BY <1>1, <1>2 DEF OutstandingIsExact
<1>8. phase[o] \notin {"new", "rejected"} \/ o = r
  <2> SUFFICES ASSUME o # r, phase[o] \in {"new", "rejected"} PROVE FALSE
    OBVIOUS
  <2>1. o = entry[g] /\ tailOf[o] = NoRun
    BY <1>1, <1>2 DEF UnadmittedIsBlank
  <2>2. tailOf[o] \in Runs
    BY <1>2, <2>1, EntryHasTail DEF Unreleased
  <2> QED BY <2>1, <2>2, ExecutionAssumption
<1>9. UnadmittedIsBlank'
  BY <1>1, <1>5, <1>8 DEF UnadmittedIsBlank
<1>10. CountedByEntry'
  <2>1. ASSUME NEW x \in Runs, phase'[x] \in Pending
        PROVE  object'[x] = entry'[GroupOf[x]] /\ entry'[GroupOf[x]] # NoRun
    <3>1. GroupOf[x] \in Groups
      BY ExecutionAssumption
    <3> QED BY <1>1, <1>2, <1>5, <2>1, <3>1 DEF CountedByEntry
  <2>2. ASSUME NEW h \in Groups, entry'[h] # NoRun
        PROVE  GroupOf[entry'[h]] = h
    BY <1>1, <1>5, <1>6, <2>2 DEF CountedByEntry
  <2> QED BY <2>1, <2>2 DEF CountedByEntry
<1>11. OutstandingIsExact'
  <2>1. Unreleased(g)' = Unreleased(g) \cup {r} /\ r \notin Unreleased(g)
    BY <1>3, <1>5 DEF Unreleased
  <2>2. Cardinality(Unreleased(g)') = Cardinality(Unreleased(g)) + 1
    BY <2>1, UnreleasedFinite, FS_AddElement
  <2>3. outstanding[o] = Cardinality(Unreleased(g))
    <3>1. CASE entry[g] # NoRun
      BY <1>1, <1>2, <3>1 DEF OutstandingIsExact
    <3>2. CASE entry[g] = NoRun
      BY <1>1, <1>2, <1>3, <3>2, FS_EmptySet DEF OutstandingIsExact, UnadmittedIsBlank
    <3> QED BY <3>1, <3>2
  <2>4. outstanding'[entry'[g]] = Cardinality(Unreleased(g)') /\ Unreleased(g)' # {}
        /\ entry'[g] # NoRun
    BY <1>2, <1>5, <2>1, <2>2, <2>3
  <2>5. ASSUME NEW h \in Groups, h # g
        PROVE  IF entry'[h] = NoRun THEN Unreleased(h)' = {}
               ELSE outstanding'[entry'[h]] = Cardinality(Unreleased(h)') /\ Unreleased(h)' # {}
    <3>1. Unreleased(h)' = Unreleased(h) /\ entry'[h] = entry[h]
      BY <1>5, <2>5 DEF Unreleased
    <3>2. entry[h] # NoRun => entry[h] \in Runs /\ entry[h] # o
      BY <1>1, <1>6, <2>5 DEF CountedByEntry, TypeOK
    <3> QED BY <1>1, <1>5, <3>1, <3>2 DEF OutstandingIsExact
  <2> QED BY <2>4, <2>5 DEF OutstandingIsExact
<1> QED BY <1>4, <1>9, <1>10, <1>11

\* A release takes the run out of the counter, and the entry of an empty group
\* out of the map.
LEMMA ReleaseStep ==
  ASSUME ExecutionInv, NEW r \in Runs, Release(r)
  PROVE  TypeOK' /\ UnadmittedIsBlank' /\ CountedByEntry' /\ OutstandingIsExact'
<1> DEFINE g == GroupOf[r]
           left == outstanding[object[r]] - 1
<1>1. TypeOK /\ UnadmittedIsBlank /\ CountedByEntry /\ OutstandingIsExact
  BY DEF ExecutionInv
<1>2. phase[r] = "settled" /\ phase' = [phase EXCEPT ![r] = "released"]
      /\ UNCHANGED <<after, threw, object, tailOf, ticket, admissions>>
  BY DEF Release
<1>3. /\ g \in Groups /\ object[r] = entry[g] /\ entry[g] \in Runs /\ entry[g] # NoRun
      /\ outstanding[object[r]] > 0 /\ Cardinality(Unreleased(g) \ {r}) = left
      /\ (left = 0 <=> Unreleased(g) \ {r} = {})
  BY <1>2, LastIsTail, ExecutionAssumption
<1>4. /\ outstanding' = [outstanding EXCEPT ![entry[g]] = left]
      /\ entry' = IF left = 0 THEN [entry EXCEPT ![g] = NoRun] ELSE entry
  BY <1>3 DEF Release, EntryAfterRelease
<1>5. left \in Nat
  BY <1>1, <1>3 DEF TypeOK
<1>6. TypeOK'
  BY <1>1, <1>2, <1>3, <1>4, <1>5 DEF TypeOK, Phases
<1>7. /\ \A x \in Runs : phase'[x] = IF x = r THEN "released" ELSE phase[x]
      /\ \A x \in Runs : outstanding'[x] = IF x = entry[g] THEN left ELSE outstanding[x]
      /\ \A h \in Groups : entry'[h] = IF h = g /\ left = 0 THEN NoRun ELSE entry[h]
  BY <1>1, <1>2, <1>3, <1>4 DEF TypeOK
<1>8. phase[entry[g]] \notin {"new", "rejected"}
  <2>1. tailOf[entry[g]] \in Runs
    BY <1>3, EntryHasTail DEF Unreleased
  <2> QED BY <1>1, <1>3, <2>1, ExecutionAssumption DEF UnadmittedIsBlank
<1>9. UnadmittedIsBlank'
  BY <1>1, <1>2, <1>7, <1>8 DEF UnadmittedIsBlank
<1>10. /\ Unreleased(g)' = Unreleased(g) \ {r}
       /\ \A h \in Groups : h # g => Unreleased(h)' = Unreleased(h)
  BY <1>2, <1>7 DEF Unreleased
<1>11. CountedByEntry'
  <2>1. ASSUME NEW x \in Runs, phase'[x] \in Pending
        PROVE  object'[x] = entry'[GroupOf[x]] /\ entry'[GroupOf[x]] # NoRun
    <3>1. GroupOf[x] \in Groups /\ x # r /\ phase[x] \in Pending
      BY <1>7, <2>1, ExecutionAssumption DEF Pending
    <3>2. ~(GroupOf[x] = g /\ left = 0)
      BY <1>3, <3>1 DEF Unreleased, Pending
    <3> QED BY <1>1, <1>2, <1>7, <3>1, <3>2 DEF CountedByEntry
  <2>2. ASSUME NEW h \in Groups, entry'[h] # NoRun
        PROVE  GroupOf[entry'[h]] = h
    BY <1>1, <1>7, <2>2 DEF CountedByEntry
  <2> QED BY <2>1, <2>2 DEF CountedByEntry
<1>12. OutstandingIsExact'
  <2>1. ASSUME NEW h \in Groups, h # g
        PROVE  IF entry'[h] = NoRun THEN Unreleased(h)' = {}
               ELSE outstanding'[entry'[h]] = Cardinality(Unreleased(h)') /\ Unreleased(h)' # {}
    <3>1. entry[h] # NoRun => entry[h] \in Runs /\ entry[h] # entry[g]
      BY <1>1, <1>3, <2>1 DEF CountedByEntry, TypeOK
    <3> QED BY <1>1, <1>7, <1>10, <2>1, <3>1 DEF OutstandingIsExact
  <2>2. IF entry'[g] = NoRun THEN Unreleased(g)' = {}
        ELSE outstanding'[entry'[g]] = Cardinality(Unreleased(g)') /\ Unreleased(g)' # {}
    BY <1>3, <1>7, <1>10
  <2> QED BY <2>1, <2>2 DEF OutstandingIsExact
<1> QED BY <1>6, <1>9, <1>11, <1>12

\* Every step keeps the invariant.
LEMMA InvStep ==
  ASSUME ExecutionInv, [Next]_vars
  PROVE  ExecutionInv'
<1>1. Chain!QueueInv'
  <2>1. [Chain!Next]_(Chain!queueVars)
    BY StepRefines
  <2> QED BY <2>1, ChainAssumption, Chain!NextKeepsInv DEF ExecutionInv
<1>2. CASE UNCHANGED vars
  <2>1. TypeOK' /\ UnadmittedIsBlank' /\ CountedByEntry' /\ OutstandingIsExact'
    <3>1. TypeOK' /\ UnadmittedIsBlank' /\ CountedByEntry'
      BY <1>2 DEF ExecutionInv, vars, TypeOK, UnadmittedIsBlank, CountedByEntry
    <3>2. \A g : Unreleased(g)' = Unreleased(g)
      BY <1>2 DEF vars, Unreleased
    <3>3. OutstandingIsExact'
      BY <1>2, <3>2 DEF ExecutionInv, vars, OutstandingIsExact
    <3> QED BY <3>1, <3>3
  <2> QED BY <1>1, <2>1 DEF ExecutionInv
<1>3. ASSUME NEW r \in Runs, Reject(r) \/ Admit(r) \/ QueueStep(r)
      PROVE  TypeOK' /\ UnadmittedIsBlank' /\ CountedByEntry' /\ OutstandingIsExact'
  BY <1>3, QuietStep, AdmitStep, ReleaseStep DEF QueueStep
<1> QED BY <1>1, <1>2, <1>3 DEF Next, ExecutionInv

\* The inductive invariant holds throughout.
LEMMA Invariance == Spec => []ExecutionInv
BY InitInv, InvStep, PTL DEF Spec

\* The counter of a group's entry is the number of its unreleased runs and the
\* entry goes with the last of them, for any runs, groups and budget.
THEOREM CountersAreExact == Spec => []OutstandingIsExact
<1>1. ExecutionInv => OutstandingIsExact
  BY DEF ExecutionInv
<1> QED BY <1>1, Invariance, PTL

\* The counted queue of request groups implements the keyed promise queue.
THEOREM ImplementsPromiseQueue == Spec => ImplementsSerialQueue
<1>1. Init => SQ!Init
  BY ExecutionAssumption DEF Init, SQ!Init
<1>2. ExecutionInv /\ [Next]_vars => [SQ!Next]_(SQ!queueVars)
  <2>1. Chain!queueVars = SQ!queueVars /\ Chain!queueVars' = SQ!queueVars'
    BY DEF Chain!queueVars, SQ!queueVars
  <2>2. ASSUME NEW r \in Runs PROVE Chain!Enqueue(r) => SQ!Enqueue(r)
    BY DEF Chain!Enqueue, SQ!Enqueue
  <2>3. ASSUME NEW r \in Runs PROVE Chain!Start(r) => SQ!Start(r)
    BY DEF Chain!Start, SQ!Start, Chain!MayStart, SQ!MayStart
  <2>4. ASSUME NEW r \in Runs PROVE Chain!Settle(r) => SQ!Settle(r)
    BY DEF Chain!Settle, SQ!Settle
  <2>5. ASSUME NEW r \in Runs PROVE Chain!Release(r) => SQ!Release(r)
    BY DEF Chain!Release, SQ!Release, Chain!TailAfterRelease, SQ!TailAfterRelease
  <2>6. Chain!Next => SQ!Next
    BY <2>2, <2>3, <2>4, <2>5 DEF Chain!Next, SQ!Next, Chain!QueueStep, SQ!QueueStep
  <2> QED BY <2>1, <2>6, StepRefines
<1> QED BY <1>1, <1>2, Invariance, PTL DEF Spec, ImplementsSerialQueue, SQ!Spec

\* Runs of a request group execute one at a time and in the order in which they
\* were admitted.
THEOREM GroupRunsInOrder == Spec => [](Chain!SerialInOrder)
<1>1. ExecutionInv => Chain!SerialInOrder
  BY DEF ExecutionInv, Chain!QueueInv
<1> QED BY <1>1, Invariance, PTL
=============================================================================
