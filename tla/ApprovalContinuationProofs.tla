--------------------- MODULE ApprovalContinuationProofs ---------------------
(***************************************************************************)
(* What an approval permits, and how often, for any number of calls, runs,  *)
(* lapsed leases and outages.                                               *)
(*                                                                         *)
(* The properties of ApprovalContinuation are not inductive.  ApprovalInv   *)
(* adds what ties the places of a call to each other: the registry row, the *)
(* two in-memory maps, the grant, the continuation and the runner's hand.   *)
(* The heart of it is Budget: an allow_once row starts with one invocation  *)
(* to spend, and a claim, a claim in the runner's hand, a grant that will   *)
(* not claim and an unspent row are each one that is still to come.  A step *)
(* only moves that one from place to place; a lapsed lease adds one.        *)
(***************************************************************************)
EXTENDS ApprovalContinuation, FiniteSetTheorems, TLAPS

Statuses == {"none", "requested", "approved_once", "approved_run", "denied",
             "expired", "superseded", "consumed"}
Decisions == {"none", "allow_once", "allow_run", "deny"}
Places == {"idle", "waiting", "granted", "executing", "done", "denied", "refused",
           "recorded", "lost"}
Rows == [status : {"none", "pending", "claimed"} \union Terminal,
         owner : {"none", "dispatcher", "recovery", "gone"},
         lapsed : BOOLEAN, createdAt : Nat]
Holding == {"holding", "executing", "handoff"}
Optional == Dispatches \union {NoDispatch}

\* Every variable stays within its type.
TypeOK ==
  /\ kind \in Assignments
  /\ status \in [Dispatches -> Statuses]
  /\ decision \in [Dispatches -> Decisions]
  /\ late \subseteq Dispatches
  /\ cont \in [Dispatches -> Rows]
  /\ pc \in [Dispatches -> Places]
  /\ grant \in [Dispatches -> Optional]
  /\ carries \subseteq Dispatches
  /\ waiter \in [Runs -> Optional]
  /\ callback \in [Runs -> Optional]
  /\ displaced \subseteq Dispatches
  /\ runner \in {"none", "summary", "exiting"} \union Holding
  /\ inHand \in Optional
  /\ stopped \in BOOLEAN
  /\ up \in BOOLEAN
  /\ invocations \in [Dispatches -> Nat]
  /\ lapses \in [Dispatches -> Nat]

\* A call that has not asked has no row, and one whose row is open waits for it
\* or was lost with its process.
RowsFollowCalls ==
  \A d \in Dispatches :
    /\ pc[d] = "idle" => status[d] = "none"
    /\ status[d] = "requested" => pc[d] \in {"waiting", "lost"}
    /\ pc[d] \in {"idle", "waiting"} => d \notin carries

\* What was spent was allowed, and only what was spent is continued or invoked.
SpentWasAllowed ==
  \A a \in Dispatches :
    /\ status[a] \in Approved \union {"consumed"} => decision[a] \in Allowing
    /\ cont[a].status # "none" => status[a] = "consumed"
    /\ invocations[a] > 0 => status[a] = "consumed"
    /\ cont[a].lapsed => lapses[a] > 0

\* A grant is a spent row; a continuation is carried by its own call only, and an
\* allow_once row is granted to one call.
GrantsAreSpent ==
  /\ \A d \in Dispatches :
       /\ grant[d] # NoDispatch => status[grant[d]] = "consumed"
       /\ pc[d] \in {"granted", "executing"} => grant[d] # NoDispatch
       /\ d \in carries => grant[d] = d /\ cont[d].status # "none"
  /\ \A d, e \in Dispatches :
       grant[d] = grant[e] /\ grant[d] # NoDispatch /\ decision[grant[d]] = "allow_once" => d = e

\* The runner holds a continuation that exists.
RunnerHolds ==
  runner \in Holding => inHand # NoDispatch /\ cont[inHand].status # "none"

\* The two maps agree and lead to a waiting call; a call that waits without being
\* in them was displaced, and so was one whose continuation it does not carry.
MapsLeadToWaiters ==
  /\ waiter = callback
  /\ \A r \in Runs : callback[r] # NoDispatch => pc[callback[r]] = "waiting" /\ RunOf[callback[r]] = r
  /\ \A d \in Dispatches : pc[d] = "waiting" => callback[RunOf[d]] = d \/ d \in displaced
  /\ \A d \in Dispatches :
       pc[d] \in {"waiting", "denied"} /\ cont[d].status # "none" => d \in displaced

\* What an allow_once row may still pay for: a claim, an invocation the runner is
\* about to make, a grant that will not claim, a later call that reuses the row.
ClaimLeft(a) == IF Claimable(cont[a]) THEN 1 ELSE 0
InHandLeft(a) == IF runner = "holding" /\ inHand = a THEN 1 ELSE 0
GrantLeft(a) == IF \E d \in Dispatches : pc[d] = "granted" /\ grant[d] = a /\ ~Claims(d) THEN 1 ELSE 0
ReuseLeft(a) == IF status[a] \in Approved THEN 1 ELSE 0
Extra(a) == IF kind[a].delivery THEN 1 ELSE 0

Budget ==
  \A a \in Dispatches :
    decision[a] = "allow_once" =>
      invocations[a] + ClaimLeft(a) + InHandLeft(a) + GrantLeft(a) + ReuseLeft(a)
        <= 1 + lapses[a] + Extra(a)

ApprovalInv ==
  /\ TypeOK /\ RowsFollowCalls /\ SpentWasAllowed /\ GrantsAreSpent /\ RunnerHolds
  /\ MapsLeadToWaiters /\ ExecutorOwnsClaim /\ Budget

-----------------------------------------------------------------------------
\* The operations on a row of the queue.

\* The fields of a row.
LEMMA RowFields ==
  ASSUME NEW row \in Rows
  PROVE  /\ row.status \in {"none", "pending", "claimed"} \union Terminal
         /\ row.owner \in {"none", "dispatcher", "recovery", "gone"}
         /\ row.lapsed \in BOOLEAN
BY DEF Rows

\* Claiming a row names its owner and starts a new lease.
LEMMA ClaimedRow ==
  ASSUME NEW row \in Rows, NEW w \in {"dispatcher", "recovery"}
  PROVE  /\ Claimed(row, w) \in Rows
         /\ Claimed(row, w).status = "claimed" /\ Claimed(row, w).owner = w
         /\ Claimed(row, w).lapsed = FALSE
         /\ ~Claimable(Claimed(row, w))
BY DEF Claimed, Rows, Claimable

\* Settling a row either changes nothing or ends the caller's own claim.
LEMMA SettledRow ==
  ASSUME NEW row \in Rows, NEW w \in {"dispatcher", "recovery"}, NEW outcome \in Terminal
  PROVE  /\ Settled(row, w, outcome) \in Rows
         /\ \/ Settled(row, w, outcome) = row
            \/ /\ row.status = "claimed" /\ row.owner = w
               /\ Settled(row, w, outcome).status = outcome
               /\ Settled(row, w, outcome).lapsed = FALSE
               /\ ~Claimable(Settled(row, w, outcome))
BY DEF Settled, Rows, Claimable, Terminal

\* Disowning rows only changes the owner of those that had one of the owners.
LEMMA DisownedRows ==
  ASSUME NEW c \in [Dispatches -> Rows], NEW owners, NEW a \in Dispatches
  PROVE  /\ Disowned(c, owners) \in [Dispatches -> Rows]
         /\ Disowned(c, owners)[a].status = c[a].status
         /\ Disowned(c, owners)[a].lapsed = c[a].lapsed
         /\ c[a].owner \notin owners => Disowned(c, owners)[a] = c[a]
         /\ Claimable(Disowned(c, owners)[a]) = Claimable(c[a])
BY DEF Disowned, Rows, Claimable

\* A new continuation is pending and belongs to nobody.
LEMMA EnqueuedRow ==
  /\ Enqueued \in Rows
  /\ Enqueued.status = "pending" /\ Enqueued.lapsed = FALSE /\ Claimable(Enqueued)
<1>1. Cardinality({a \in Dispatches : cont[a].status # "none"}) \in Nat
  BY ConstantsAssumption, FS_Subset, FS_CardinalityType
<1> QED BY <1>1 DEF Enqueued, Rows, Claimable

\* A pass of the runner ends, or holds the row it claimed.
LEMMA DrainCases ==
  ASSUME NEW c \in [Dispatches -> Rows], NEW halted \in BOOLEAN, Drain(c, halted)
  PROVE  \E chosen \in Optional :
           /\ chosen # NoDispatch => Claimable(c[chosen])
           /\ cont' = [b \in Dispatches |->
                         IF b = chosen THEN Claimed(c[b], "recovery") ELSE c[b]]
           /\ runner' = IF chosen = NoDispatch THEN "summary" ELSE "holding"
           /\ inHand' = chosen
<1>1. CASE cont' = c /\ runner' = "summary" /\ inHand' = NoDispatch
  <2>1. c = [b \in Dispatches |-> IF b = NoDispatch THEN Claimed(c[b], "recovery") ELSE c[b]]
    BY ConstantsAssumption
  <2> QED BY <1>1, <2>1 DEF Optional
<1>2. ASSUME NEW a \in Dispatches, Claimable(c[a]),
             cont' = [c EXCEPT ![a] = Claimed(c[a], "recovery")],
             runner' = "holding", inHand' = a
      PROVE  \E chosen \in Optional :
               /\ chosen # NoDispatch => Claimable(c[chosen])
               /\ cont' = [b \in Dispatches |->
                             IF b = chosen THEN Claimed(c[b], "recovery") ELSE c[b]]
               /\ runner' = IF chosen = NoDispatch THEN "summary" ELSE "holding"
               /\ inHand' = chosen
  <2>1. a # NoDispatch /\ a \in Optional
    BY ConstantsAssumption DEF Optional
  <2>2. cont' = [b \in Dispatches |-> IF b = a THEN Claimed(c[b], "recovery") ELSE c[b]]
    BY <1>2
  <2> QED BY <1>2, <2>1, <2>2
<1> QED BY <1>1, <1>2 DEF Drain

-----------------------------------------------------------------------------
\* The inductive invariant holds in the initial state.

\* An empty database and a fresh process satisfy the invariant.
LEMMA InitInv == Init => ApprovalInv
<1> SUFFICES ASSUME Init PROVE ApprovalInv
  OBVIOUS
<1>1. NoContinuation \in Rows /\ NoContinuation.status = "none" /\ NoContinuation.lapsed = FALSE
  BY DEF NoContinuation, Rows
<1>2. TypeOK
  BY <1>1 DEF Init, TypeOK, Statuses, Decisions, Places, Optional, Holding
<1>3. RowsFollowCalls /\ SpentWasAllowed /\ GrantsAreSpent /\ RunnerHolds
  BY <1>1 DEF Init, RowsFollowCalls, SpentWasAllowed, GrantsAreSpent, RunnerHolds, Holding, Approved
<1>4. MapsLeadToWaiters /\ ExecutorOwnsClaim /\ Budget
  BY <1>1, ConstantsAssumption DEF Init, MapsLeadToWaiters, ExecutorOwnsClaim, HoldsLive, HoldsRecovery, Budget
<1> QED BY <1>2, <1>3, <1>4 DEF ApprovalInv
-----------------------------------------------------------------------------
\* The runner of the recovery supervisor.

\* What a settled, disowned or untouched queue keeps of the queue before it.
Tamed(c) ==
  \A b \in Dispatches :
    /\ c[b].status # "none" <=> cont[b].status # "none"
    /\ c[b].lapsed => cont[b].lapsed
    /\ Claimable(c[b]) => Claimable(cont[b])
    /\ cont[b].owner = "dispatcher" => c[b] = cont[b]

\* A pass that goes on with a tamed queue, and claims a row of it or none, keeps
\* the invariant: what it claims was claimable before, so no live call owns it.
LEMMA PassKeepsInv ==
  ASSUME ApprovalInv, NEW c \in [Dispatches -> Rows], Tamed(c), NEW chosen \in Optional,
         chosen # NoDispatch => Claimable(c[chosen]),
         cont' = [b \in Dispatches |-> IF b = chosen THEN Claimed(c[b], "recovery") ELSE c[b]],
         IF chosen = NoDispatch THEN runner' \in {"none", "summary", "exiting"} ELSE runner' = "holding",
         inHand' = chosen, up' \in BOOLEAN, stopped' \in BOOLEAN,
         UNCHANGED <<kind, registry, lapses, dispatch, waiters, invocations>>
  PROVE  ApprovalInv'
<1>1. /\ TypeOK /\ RowsFollowCalls /\ SpentWasAllowed /\ GrantsAreSpent /\ RunnerHolds
      /\ MapsLeadToWaiters /\ ExecutorOwnsClaim /\ Budget
  BY DEF ApprovalInv
<1>2. UNCHANGED <<kind, status, decision, late, lapses, pc, grant, carries, waiter, callback, displaced, invocations>>
  BY DEF registry, dispatch, waiters
<1>3. ASSUME NEW b \in Dispatches
      PROVE  /\ cont'[b] \in Rows
             /\ cont'[b].status # "none" <=> cont[b].status # "none"
             /\ cont'[b].lapsed => cont[b].lapsed
             /\ b # chosen => cont'[b] = c[b]
             /\ b = chosen => /\ cont'[b].status = "claimed" /\ cont'[b].owner = "recovery"
                              /\ ~Claimable(cont'[b]) /\ Claimable(cont[b])
  <2>1. CASE b = chosen
    <3>1. c[b] \in Rows /\ Claimable(c[b]) /\ b # NoDispatch /\ cont'[b] = Claimed(c[b], "recovery")
      BY <2>1, ConstantsAssumption
    <3>2. cont[b].status # "none"
      BY <3>1, <1>1, RowFields DEF Tamed, Claimable
    <3> QED BY <2>1, <3>1, <3>2, ClaimedRow DEF Tamed
  <2>2. CASE b # chosen
    BY <2>2 DEF Tamed
  <2> QED BY <2>1, <2>2
<1>4. TypeOK'
  <2>1. cont' \in [Dispatches -> Rows]
    BY <1>3
  <2> QED BY <1>1, <1>2, <2>1 DEF TypeOK, Holding
<1>5. RowsFollowCalls' /\ SpentWasAllowed' /\ GrantsAreSpent'
  BY <1>1, <1>2, <1>3 DEF RowsFollowCalls, SpentWasAllowed, GrantsAreSpent
<1>6. RunnerHolds'
  BY <1>3 DEF RunnerHolds, Holding, Optional
<1>7. MapsLeadToWaiters'
  BY <1>1, <1>2, <1>3 DEF MapsLeadToWaiters
<1>8. ExecutorOwnsClaim'
  <2> SUFFICES ASSUME NEW a \in Dispatches, lapses[a] = 0
               PROVE  /\ HoldsLive(a)' => cont'[a].status = "claimed" /\ cont'[a].owner = "dispatcher"
                      /\ HoldsRecovery(a)' => cont'[a].status = "claimed" /\ cont'[a].owner = "recovery"
    BY <1>2 DEF ExecutorOwnsClaim
  <2>1. ASSUME HoldsLive(a)'
        PROVE  cont'[a].status = "claimed" /\ cont'[a].owner = "dispatcher"
    <3>1. HoldsLive(a)
      BY <1>2, <2>1 DEF HoldsLive, Claims
    <3>2. cont[a].status = "claimed" /\ cont[a].owner = "dispatcher" /\ ~cont[a].lapsed
      BY <1>1, <3>1 DEF ExecutorOwnsClaim, SpentWasAllowed
    <3>3. ~Claimable(cont[a]) /\ c[a] = cont[a]
      BY <3>2 DEF Claimable, Tamed
    <3> QED BY <1>3, <3>2, <3>3
  <2>2. ASSUME HoldsRecovery(a)'
        PROVE  cont'[a].status = "claimed" /\ cont'[a].owner = "recovery"
    BY <1>3, <2>2 DEF HoldsRecovery
  <2> QED BY <2>1, <2>2
<1>9. Budget'
  <2> SUFFICES ASSUME NEW a \in Dispatches, decision[a] = "allow_once"
               PROVE  invocations[a] + ClaimLeft(a)' + InHandLeft(a)' + GrantLeft(a)' + ReuseLeft(a)'
                        <= 1 + lapses[a] + Extra(a)'
    BY <1>2 DEF Budget
  <2>1. GrantLeft(a)' = GrantLeft(a) /\ ReuseLeft(a)' = ReuseLeft(a) /\ Extra(a)' = Extra(a)
    BY <1>2 DEF GrantLeft, ReuseLeft, Extra, Claims
  <2>2. ClaimLeft(a)' + InHandLeft(a)' <= ClaimLeft(a)
    BY <1>3 DEF ClaimLeft, InHandLeft, Tamed
  <2>3. ClaimLeft(a) + InHandLeft(a) >= ClaimLeft(a)
    BY DEF ClaimLeft, InHandLeft
  <2>4. /\ ClaimLeft(a) \in Nat /\ InHandLeft(a) \in Nat /\ GrantLeft(a) \in Nat /\ ReuseLeft(a) \in Nat
        /\ ClaimLeft(a)' \in Nat /\ InHandLeft(a)' \in Nat /\ Extra(a) \in Nat
        /\ invocations[a] \in Nat /\ lapses[a] \in Nat
    BY <1>1 DEF ClaimLeft, InHandLeft, GrantLeft, ReuseLeft, Extra, TypeOK
  <2> QED BY <1>1, <2>1, <2>2, <2>3, <2>4 DEF Budget
<1> QED BY <1>4, <1>5, <1>6, <1>7, <1>8, <1>9 DEF ApprovalInv

\* The queue after the runner settled what it holds is tamed.
LEMMA SettleTames ==
  ASSUME ApprovalInv, runner \in Holding, NEW outcome \in Terminal
  PROVE  /\ [cont EXCEPT ![inHand] = Settled(@, "recovery", outcome)] \in [Dispatches -> Rows]
         /\ Tamed([cont EXCEPT ![inHand] = Settled(@, "recovery", outcome)])
<1> DEFINE c == [cont EXCEPT ![inHand] = Settled(@, "recovery", outcome)]
<1>1. cont \in [Dispatches -> Rows] /\ inHand \in Dispatches
  BY DEF ApprovalInv, TypeOK, RunnerHolds, Optional
<1>2. Settled(cont[inHand], "recovery", outcome) \in Rows
  BY <1>1, SettledRow
<1>3. c \in [Dispatches -> Rows]
  BY <1>1, <1>2
<1>4. ASSUME NEW b \in Dispatches
      PROVE  /\ c[b].status # "none" <=> cont[b].status # "none"
             /\ c[b].lapsed => cont[b].lapsed
             /\ Claimable(c[b]) => Claimable(cont[b])
             /\ cont[b].owner = "dispatcher" => c[b] = cont[b]
  <2>1. CASE b # inHand
    BY <1>1, <2>1
  <2>2. CASE b = inHand
    <3>1. cont[b] \in Rows /\ c[b] = Settled(cont[b], "recovery", outcome)
      BY <1>1, <2>2
    <3> HIDE DEF c
    <3>2. \/ c[b] = cont[b]
          \/ /\ cont[b].status = "claimed" /\ cont[b].owner = "recovery"
             /\ c[b].status = outcome /\ c[b].lapsed = FALSE /\ ~Claimable(c[b])
      <4> DEFINE s == Settled(cont[b], "recovery", outcome)
      <4>1. \/ s = cont[b]
            \/ /\ cont[b].status = "claimed" /\ cont[b].owner = "recovery"
               /\ s.status = outcome /\ s.lapsed = FALSE /\ ~Claimable(s)
        BY <3>1, SettledRow
      <4> QED BY <3>1, <4>1
    <3> QED BY <3>2 DEF Terminal
  <2> QED BY <2>1, <2>2
<1> QED BY <1>3, <1>4 DEF Tamed

\* A settled claim and the claims that follow it keep the invariant.
LEMMA SettlesKeepsInv ==
  ASSUME ApprovalInv, runner \in Holding, NEW outcome \in Terminal, Settles(outcome),
         UNCHANGED <<kind, registry, lapses, dispatch, waiters, invocations, stopped, up>>
  PROVE  ApprovalInv'
<1> DEFINE c == [cont EXCEPT ![inHand] = Settled(@, "recovery", outcome)]
<1>1. c \in [Dispatches -> Rows] /\ Tamed(c)
  BY SettleTames
<1>2. stopped \in BOOLEAN /\ stopped' \in BOOLEAN /\ up' \in BOOLEAN
  BY DEF ApprovalInv, TypeOK
<1>3. Drain(c, stopped)
  BY DEF Settles
<1> HIDE DEF c
<1>4. PICK chosen \in Optional :
        /\ chosen # NoDispatch => Claimable(c[chosen])
        /\ cont' = [b \in Dispatches |-> IF b = chosen THEN Claimed(c[b], "recovery") ELSE c[b]]
        /\ runner' = IF chosen = NoDispatch THEN "summary" ELSE "holding"
        /\ inHand' = chosen
  BY <1>1, <1>2, <1>3, DrainCases
<1> QED BY <1>1, <1>2, <1>4, PassKeepsInv

\* A runner that goes on, or stops at a given place, keeps the invariant.
LEMMA ContinueKeepsInv ==
  ASSUME ApprovalInv, NEW c \in [Dispatches -> Rows], Tamed(c), NEW there \in {"exiting", "none"},
         ContinueOr(c, there),
         UNCHANGED <<kind, registry, lapses, dispatch, waiters, invocations, stopped, up>>
  PROVE  ApprovalInv'
<1>1. stopped' \in BOOLEAN /\ up' \in BOOLEAN
  BY DEF ApprovalInv, TypeOK
<1>2. CASE Drain(c, FALSE)
  <2>1. PICK chosen \in Optional :
          /\ chosen # NoDispatch => Claimable(c[chosen])
          /\ cont' = [b \in Dispatches |-> IF b = chosen THEN Claimed(c[b], "recovery") ELSE c[b]]
          /\ runner' = IF chosen = NoDispatch THEN "summary" ELSE "holding"
          /\ inHand' = chosen
    BY <1>2, DrainCases
  <2> QED BY <1>1, <2>1, PassKeepsInv
<1>3. CASE cont' = c /\ runner' = there /\ inHand' = NoDispatch
  <2>1. cont' = [b \in Dispatches |-> IF b = NoDispatch THEN Claimed(c[b], "recovery") ELSE c[b]]
    BY <1>3, ConstantsAssumption
  <2>2. NoDispatch \in Optional
    BY DEF Optional
  <2> QED BY <1>1, <1>3, <2>1, <2>2, PassKeepsInv
<1> QED BY <1>2, <1>3 DEF ContinueOr

\* Untouched and disowned queues are tamed.
LEMMA QueuesAreTame ==
  ASSUME ApprovalInv
  PROVE  /\ cont \in [Dispatches -> Rows] /\ Tamed(cont)
         /\ Disowned(cont, {"recovery"}) \in [Dispatches -> Rows]
         /\ Tamed(Disowned(cont, {"recovery"}))
<1>1. cont \in [Dispatches -> Rows]
  BY DEF ApprovalInv, TypeOK
<1>2. Disowned(cont, {"recovery"}) \in [Dispatches -> Rows]
  BY <1>1 DEF Disowned, Rows
<1> QED BY <1>1, <1>2, DisownedRows DEF Tamed

\* An adapter is called, or hands its result off.
LEMMA RunnerAdvances ==
  ASSUME ApprovalInv, AdapterInvokes \/ (AdapterReturns /\ runner' = "handoff" /\ UNCHANGED <<cont, inHand>>)
  PROVE  ApprovalInv'
<1>1. /\ TypeOK /\ RowsFollowCalls /\ SpentWasAllowed /\ GrantsAreSpent /\ RunnerHolds
      /\ MapsLeadToWaiters /\ ExecutorOwnsClaim /\ Budget
  BY DEF ApprovalInv
<1>2. UNCHANGED <<kind, status, decision, late, cont, lapses, pc, grant, carries, waiter, callback,
                  displaced, stopped, inHand, up>>
  BY DEF AdapterInvokes, AdapterReturns, registry, queue, dispatch, waiters, process
<1>3. runner \in {"holding", "executing"} /\ runner' \in {"executing", "handoff"}
  BY DEF AdapterInvokes, AdapterReturns
<1>4. inHand \in Dispatches /\ cont[inHand].status # "none"
  BY <1>1, <1>3 DEF TypeOK, RunnerHolds, Optional, Holding
<1>5. \/ runner = "holding" /\ invocations' = [invocations EXCEPT ![inHand] = @ + 1]
      \/ runner = "executing" /\ invocations' = invocations
  BY DEF AdapterInvokes, AdapterReturns
<1>6. TypeOK'
  BY <1>1, <1>2, <1>3, <1>5 DEF TypeOK, Holding
<1>7. RowsFollowCalls' /\ GrantsAreSpent' /\ RunnerHolds' /\ MapsLeadToWaiters'
  <2>1. RowsFollowCalls' /\ GrantsAreSpent'
    BY <1>1, <1>2 DEF RowsFollowCalls, GrantsAreSpent
  <2>2. RunnerHolds'
    BY <1>1, <1>2, <1>3 DEF RunnerHolds, Holding
  <2>3. MapsLeadToWaiters'
    BY <1>1, <1>2 DEF MapsLeadToWaiters
  <2> QED BY <2>1, <2>2, <2>3
<1>8. SpentWasAllowed'
  BY <1>1, <1>2, <1>4, <1>5 DEF SpentWasAllowed, TypeOK
<1>9. ExecutorOwnsClaim'
  BY <1>1, <1>2, <1>3 DEF ExecutorOwnsClaim, HoldsLive, HoldsRecovery, Claims
<1>10. Budget'
  <2> SUFFICES ASSUME NEW a \in Dispatches, decision[a] = "allow_once"
               PROVE  invocations'[a] + ClaimLeft(a)' + InHandLeft(a)' + GrantLeft(a)' + ReuseLeft(a)'
                        <= 1 + lapses[a] + Extra(a)'
    BY <1>2 DEF Budget
  <2>1. /\ GrantLeft(a)' = GrantLeft(a) /\ ReuseLeft(a)' = ReuseLeft(a) /\ Extra(a)' = Extra(a)
        /\ ClaimLeft(a)' = ClaimLeft(a)
    BY <1>2 DEF GrantLeft, ReuseLeft, Extra, Claims, ClaimLeft
  <2>2. invocations'[a] + InHandLeft(a)' <= invocations[a] + InHandLeft(a)
    BY <1>1, <1>2, <1>3, <1>4, <1>5 DEF InHandLeft, TypeOK
  <2>3. /\ ClaimLeft(a) \in Nat /\ InHandLeft(a) \in Nat /\ GrantLeft(a) \in Nat /\ ReuseLeft(a) \in Nat
        /\ InHandLeft(a)' \in Nat /\ Extra(a) \in Nat
        /\ invocations[a] \in Nat /\ invocations'[a] \in Nat /\ lapses[a] \in Nat
    BY <1>1, <1>6 DEF ClaimLeft, InHandLeft, GrantLeft, ReuseLeft, Extra, TypeOK
  <2> QED BY <1>1, <2>1, <2>2, <2>3 DEF Budget
<1> QED BY <1>6, <1>7, <1>8, <1>9, <1>10 DEF ApprovalInv

\* Every step of the runner keeps the invariant.
LEMMA RunnerKeepsInv ==
  ASSUME ApprovalInv, RunnerStep
  PROVE  ApprovalInv'
<1>1. CASE AdapterBlocks
  BY <1>1, SettlesKeepsInv DEF AdapterBlocks, Holding, Terminal, process
<1>2. CASE AdapterInvokes
  BY <1>2, RunnerAdvances
<1>3. CASE AdapterReturns
  BY <1>3, SettlesKeepsInv, RunnerAdvances DEF AdapterReturns, Holding, Terminal, process
<1>4. CASE HandOff
  BY <1>4, SettlesKeepsInv DEF HandOff, Holding, Terminal, process
<1>5. CASE PassThrows
  BY <1>5, ContinueKeepsInv, QueuesAreTame DEF PassThrows, process
<1>6. CASE PassEnds
  BY <1>6, ContinueKeepsInv, QueuesAreTame DEF PassEnds, process
<1>7. CASE RunnerExits
  BY <1>7, ContinueKeepsInv, QueuesAreTame DEF RunnerExits, process
<1> QED BY <1>1, <1>2, <1>3, <1>4, <1>5, <1>6, <1>7 DEF RunnerStep

\* The supervisor of a new process starts with a pass.
LEMMA RestartKeepsInv ==
  ASSUME ApprovalInv, Restart
  PROVE  ApprovalInv'
<1>1. cont \in [Dispatches -> Rows] /\ Tamed(cont)
  BY QueuesAreTame
<1>2. PICK chosen \in Optional :
        /\ chosen # NoDispatch => Claimable(cont[chosen])
        /\ cont' = [b \in Dispatches |-> IF b = chosen THEN Claimed(cont[b], "recovery") ELSE cont[b]]
        /\ runner' = IF chosen = NoDispatch THEN "summary" ELSE "holding"
        /\ inHand' = chosen
  BY <1>1, DrainCases DEF Restart
<1> QED BY <1>1, <1>2, PassKeepsInv DEF Restart

-----------------------------------------------------------------------------
\* Calls that run their tools.

\* Numbers of the budget.
LEMMA BudgetNumbers ==
  ASSUME TypeOK, NEW a \in Dispatches
  PROVE  /\ ClaimLeft(a) \in {0, 1} /\ InHandLeft(a) \in {0, 1} /\ GrantLeft(a) \in {0, 1}
         /\ ReuseLeft(a) \in {0, 1} /\ Extra(a) \in {0, 1}
         /\ invocations[a] \in Nat /\ lapses[a] \in Nat
BY DEF TypeOK, ClaimLeft, InHandLeft, GrantLeft, ReuseLeft, Extra

\* A refused call, a passing expiry, a stopped supervisor.
LEMMA QuietKeepsInv ==
  ASSUME ApprovalInv,
         Stop \/ \E d \in Dispatches : PolicyDenies(d) \/ ClaimRejected(d) \/ ExpiryPasses(d)
  PROVE  ApprovalInv'
<1>1. /\ TypeOK /\ RowsFollowCalls /\ SpentWasAllowed /\ GrantsAreSpent /\ RunnerHolds
      /\ MapsLeadToWaiters /\ ExecutorOwnsClaim /\ Budget
  BY DEF ApprovalInv
<1>2. /\ UNCHANGED <<kind, status, decision, cont, lapses, grant, carries, waiter, callback,
                     displaced, runner, inHand, up, invocations>>
      /\ stopped' \in BOOLEAN
  BY <1>1 DEF Stop, PolicyDenies, ClaimRejected, ExpiryPasses, registry, queue, dispatch, waiters,
              supervisor, process, TypeOK
<1>3. \/ pc' = pc
      \/ \E d \in Dispatches : pc[d] = "granted" /\ pc' = [pc EXCEPT ![d] = "refused"]
  BY DEF Stop, PolicyDenies, ClaimRejected, ExpiryPasses, dispatch
<1>4. late' \subseteq Dispatches
  BY <1>1 DEF Stop, PolicyDenies, ClaimRejected, ExpiryPasses, registry, TypeOK
<1>5. ASSUME NEW e \in Dispatches
      PROVE  pc'[e] = pc[e] \/ (pc[e] = "granted" /\ pc'[e] = "refused")
  BY <1>1, <1>3 DEF TypeOK
<1>6. TypeOK'
  BY <1>1, <1>2, <1>3, <1>4 DEF TypeOK, Places
<1>7. RowsFollowCalls' /\ SpentWasAllowed' /\ RunnerHolds'
  BY <1>1, <1>2, <1>5 DEF RowsFollowCalls, SpentWasAllowed, RunnerHolds
<1>8. GrantsAreSpent'
  BY <1>1, <1>2, <1>5 DEF GrantsAreSpent
<1>9. MapsLeadToWaiters'
  BY <1>1, <1>2, <1>5 DEF MapsLeadToWaiters, TypeOK, Optional
<1>10. ExecutorOwnsClaim'
  BY <1>1, <1>2, <1>5 DEF ExecutorOwnsClaim, HoldsLive, HoldsRecovery, Claims
<1>11. Budget'
  <2> SUFFICES ASSUME NEW a \in Dispatches, decision[a] = "allow_once"
               PROVE  invocations[a] + ClaimLeft(a)' + InHandLeft(a)' + GrantLeft(a)' + ReuseLeft(a)'
                        <= 1 + lapses[a] + Extra(a)'
    BY <1>2 DEF Budget
  <2>1. /\ ReuseLeft(a)' = ReuseLeft(a) /\ Extra(a)' = Extra(a)
        /\ ClaimLeft(a)' = ClaimLeft(a) /\ InHandLeft(a)' = InHandLeft(a)
    BY <1>2 DEF ReuseLeft, Extra, ClaimLeft, InHandLeft
  <2>2. GrantLeft(a)' <= GrantLeft(a)
    BY <1>2, <1>5 DEF GrantLeft, Claims
  <2>3. GrantLeft(a)' \in {0, 1}
    BY <1>6, BudgetNumbers DEF GrantLeft
  <2> QED BY <1>1, <2>1, <2>2, <2>3, BudgetNumbers DEF Budget
<1> QED BY <1>6, <1>7, <1>8, <1>9, <1>10, <1>11 DEF ApprovalInv

\* A granted call claims its continuation, if it carries one, and runs its tool.
LEMMA ExecuteKeepsInv ==
  ASSUME ApprovalInv, NEW d \in Dispatches, Execute(d)
  PROVE  ApprovalInv'
<1>1. /\ TypeOK /\ RowsFollowCalls /\ SpentWasAllowed /\ GrantsAreSpent /\ RunnerHolds
      /\ MapsLeadToWaiters /\ ExecutorOwnsClaim /\ Budget
  BY DEF ApprovalInv
<1> DEFINE g == grant[d]
<1>2. UNCHANGED <<kind, status, decision, late, lapses, grant, carries, waiter, callback,
                  displaced, stopped, runner, inHand, up>>
  BY DEF Execute, registry, waiters, supervisor, process
<1>3. /\ pc[d] = "granted" /\ pc' = [pc EXCEPT ![d] = "executing"]
      /\ invocations' = [invocations EXCEPT ![g] = @ + 1]
      /\ Claims(d) => Claimable(cont[g])
      /\ cont' = IF Claims(d) THEN [cont EXCEPT ![g] = Claimed(@, "dispatcher")] ELSE cont
  BY DEF Execute
<1>4. g \in Dispatches /\ status[g] = "consumed" /\ (Claims(d) => g = d /\ cont[d].status # "none")
  BY <1>1, <1>3 DEF TypeOK, GrantsAreSpent, Optional, Claims
<1>5. \A e \in Dispatches : pc'[e] = IF e = d THEN "executing" ELSE pc[e]
  BY <1>1, <1>3 DEF TypeOK
<1>6. \A a \in Dispatches : invocations'[a] = IF a = g THEN invocations[a] + 1 ELSE invocations[a]
  BY <1>1, <1>3, <1>4 DEF TypeOK
<1>7. ASSUME NEW b \in Dispatches
      PROVE  /\ cont'[b] \in Rows
             /\ ~Claims(d) \/ b # d => cont'[b] = cont[b]
             /\ Claims(d) /\ b = d => /\ cont'[b].status = "claimed" /\ cont'[b].owner = "dispatcher"
                                      /\ cont'[b].lapsed = FALSE /\ ~Claimable(cont'[b])
  <2>1. cont[b] \in Rows
    BY <1>1 DEF TypeOK
  <2>2. CASE Claims(d) /\ b = d
    <3>1. cont'[b] = Claimed(cont[b], "dispatcher")
      BY <1>1, <1>3, <1>4, <2>2 DEF TypeOK
    <3> DEFINE n == Claimed(cont[b], "dispatcher")
    <3>2. /\ n \in Rows /\ n.status = "claimed" /\ n.owner = "dispatcher"
          /\ n.lapsed = FALSE /\ ~Claimable(n)
      BY <2>1, ClaimedRow
    <3> QED BY <2>2, <3>1, <3>2
  <2>3. CASE ~(Claims(d) /\ b = d)
    BY <1>1, <1>3, <1>4, <2>1, <2>3 DEF TypeOK
  <2> QED BY <2>2, <2>3
<1>8. TypeOK'
  <2>1. cont' \in [Dispatches -> Rows]
    BY <1>1, <1>3, <1>4, <1>7 DEF TypeOK
  <2>2. pc' \in [Dispatches -> Places] /\ invocations' \in [Dispatches -> Nat]
    BY <1>1, <1>3, <1>4 DEF TypeOK, Places
  <2> QED BY <1>1, <1>2, <2>1, <2>2 DEF TypeOK
<1>9. RowsFollowCalls'
  BY <1>1, <1>2, <1>3, <1>5 DEF RowsFollowCalls
<1>10. SpentWasAllowed'
  BY <1>1, <1>2, <1>4, <1>6, <1>7 DEF SpentWasAllowed
<1>11. GrantsAreSpent' /\ RunnerHolds'
  <2>1. \A b \in Dispatches : cont[b].status # "none" => cont'[b].status # "none"
    BY <1>7
  <2>2. GrantsAreSpent'
    BY <1>1, <1>2, <1>3, <1>5, <2>1 DEF GrantsAreSpent
  <2>3. RunnerHolds'
    BY <1>1, <1>2, <2>1 DEF RunnerHolds, TypeOK, Optional
  <2> QED BY <2>2, <2>3
<1>12. MapsLeadToWaiters'
  <2>1. \A b \in Dispatches : cont'[b].status # "none" => cont[b].status # "none"
    BY <1>4, <1>7
  <2> QED BY <1>1, <1>2, <1>3, <1>5, <2>1 DEF MapsLeadToWaiters, TypeOK, Optional
<1>13. ExecutorOwnsClaim'
  <2> SUFFICES ASSUME NEW a \in Dispatches, lapses[a] = 0
               PROVE  /\ HoldsLive(a)' => cont'[a].status = "claimed" /\ cont'[a].owner = "dispatcher"
                      /\ HoldsRecovery(a)' => cont'[a].status = "claimed" /\ cont'[a].owner = "recovery"
    BY <1>2 DEF ExecutorOwnsClaim
  <2>1. CASE Claims(d) /\ a = d
    <3>1. cont[a].status = "pending"
      BY <1>1, <1>3, <1>4, <2>1 DEF Claimable, SpentWasAllowed
    <3>2. ~HoldsRecovery(a)'
      BY <1>1, <1>2, <3>1 DEF ExecutorOwnsClaim, HoldsRecovery
    <3> QED BY <1>7, <2>1, <3>2
  <2>2. CASE ~(Claims(d) /\ a = d)
    <3>1. cont'[a] = cont[a]
      BY <1>7, <2>2
    <3>2. HoldsLive(a)' => HoldsLive(a)
      BY <1>2, <1>4, <1>5, <2>2 DEF HoldsLive, Claims
    <3>3. HoldsRecovery(a)' => HoldsRecovery(a)
      BY <1>2 DEF HoldsRecovery
    <3> QED BY <1>1, <3>1, <3>2, <3>3 DEF ExecutorOwnsClaim
  <2> QED BY <2>1, <2>2
<1>14. Budget'
  <2> SUFFICES ASSUME NEW a \in Dispatches, decision[a] = "allow_once"
               PROVE  invocations'[a] + ClaimLeft(a)' + InHandLeft(a)' + GrantLeft(a)' + ReuseLeft(a)'
                        <= 1 + lapses[a] + Extra(a)'
    BY <1>2 DEF Budget
  <2>1. ReuseLeft(a)' = ReuseLeft(a) /\ Extra(a)' = Extra(a) /\ InHandLeft(a)' = InHandLeft(a)
    BY <1>2 DEF ReuseLeft, Extra, InHandLeft
  <2>2. GrantLeft(a)' <= GrantLeft(a) /\ ClaimLeft(a)' <= ClaimLeft(a)
    <3>1. GrantLeft(a)' <= GrantLeft(a)
      BY <1>2, <1>5 DEF GrantLeft, Claims
    <3>2. Claimable(cont'[a]) => Claimable(cont[a])
      BY <1>7
    <3> QED BY <3>1, <3>2 DEF ClaimLeft
  <2>3. CASE a # g
    BY <1>1, <1>6, <1>8, <2>1, <2>2, <2>3, BudgetNumbers DEF Budget, GrantLeft, ClaimLeft
  <2>4. CASE a = g /\ Claims(d)
    <3>1. ClaimLeft(a) = 1 /\ ClaimLeft(a)' = 0
      BY <1>3, <1>4, <1>7, <2>4 DEF ClaimLeft
    <3> QED BY <1>1, <1>6, <1>8, <2>1, <2>2, <2>4, <3>1, BudgetNumbers DEF Budget, GrantLeft
  <2>5. CASE a = g /\ ~Claims(d)
    <3>1. GrantLeft(a) = 1
      BY <1>3, <2>5 DEF GrantLeft
    <3>2. \A e \in Dispatches : grant[e] = a => e = d
      BY <1>1, <1>4, <2>5, ConstantsAssumption DEF GrantsAreSpent
    <3>3. GrantLeft(a)' = 0
      BY <1>2, <1>5, <3>2 DEF GrantLeft
    <3> QED BY <1>1, <1>6, <1>8, <2>1, <2>2, <2>5, <3>1, <3>3, BudgetNumbers DEF Budget, ClaimLeft
  <2> QED BY <2>3, <2>4, <2>5
<1> QED BY <1>8, <1>9, <1>10, <1>11, <1>12, <1>13, <1>14 DEF ApprovalInv

\* A call returns and settles its claim, if the claim is still its own.
LEMMA ReturnKeepsInv ==
  ASSUME ApprovalInv, NEW d \in Dispatches, Return(d)
  PROVE  ApprovalInv'
<1>1. /\ TypeOK /\ RowsFollowCalls /\ SpentWasAllowed /\ GrantsAreSpent /\ RunnerHolds
      /\ MapsLeadToWaiters /\ ExecutorOwnsClaim /\ Budget
  BY DEF ApprovalInv
<1>2. UNCHANGED <<kind, status, decision, late, lapses, grant, carries, waiter, callback,
                  displaced, stopped, runner, inHand, up, invocations>>
  BY DEF Return, registry, waiters, supervisor, process
<1>3. /\ pc[d] = "executing" /\ pc' = [pc EXCEPT ![d] = "done"]
      /\ cont' = IF Claims(d) THEN [cont EXCEPT ![grant[d]] = Settled(@, "dispatcher", "completed")] ELSE cont
  BY DEF Return
<1>4. Claims(d) => grant[d] = d /\ cont[d].status # "none"
  BY <1>1 DEF GrantsAreSpent, Claims
<1>5. \A e \in Dispatches : pc'[e] = IF e = d THEN "done" ELSE pc[e]
  BY <1>1, <1>3 DEF TypeOK
<1>6. ASSUME NEW b \in Dispatches
      PROVE  /\ cont'[b] \in Rows
             /\ \/ cont'[b] = cont[b]
                \/ /\ Claims(d) /\ b = d /\ cont[b].status = "claimed" /\ cont[b].owner = "dispatcher"
                   /\ cont'[b].status = "completed" /\ cont'[b].lapsed = FALSE /\ ~Claimable(cont'[b])
  <2>1. cont[b] \in Rows
    BY <1>1 DEF TypeOK
  <2>2. CASE Claims(d) /\ b = d
    <3>1. cont'[b] = Settled(cont[b], "dispatcher", "completed")
      BY <1>1, <1>3, <1>4, <2>2 DEF TypeOK
    <3> DEFINE s == Settled(cont[b], "dispatcher", "completed")
    <3>2. /\ s \in Rows
          /\ \/ s = cont[b]
             \/ /\ cont[b].status = "claimed" /\ cont[b].owner = "dispatcher"
                /\ s.status = "completed" /\ s.lapsed = FALSE /\ ~Claimable(s)
      BY <2>1, SettledRow DEF Terminal
    <3> QED BY <2>2, <3>1, <3>2
  <2>3. CASE ~(Claims(d) /\ b = d)
    BY <1>1, <1>3, <1>4, <2>1, <2>3 DEF TypeOK
  <2> QED BY <2>2, <2>3
<1>7. ASSUME NEW b \in Dispatches
      PROVE  /\ cont'[b].status # "none" <=> cont[b].status # "none"
             /\ cont'[b].lapsed => cont[b].lapsed
             /\ Claimable(cont'[b]) => Claimable(cont[b])
  BY <1>6
<1>8. TypeOK'
  <2>1. cont' \in [Dispatches -> Rows]
    BY <1>1, <1>3, <1>4, <1>6 DEF TypeOK
  <2> QED BY <1>1, <1>2, <1>3, <2>1 DEF TypeOK, Places
<1>9. RowsFollowCalls' /\ SpentWasAllowed'
  BY <1>1, <1>2, <1>3, <1>5, <1>7 DEF RowsFollowCalls, SpentWasAllowed
<1>10. GrantsAreSpent'
  BY <1>1, <1>2, <1>3, <1>5, <1>7 DEF GrantsAreSpent
<1>11. RunnerHolds'
  BY <1>1, <1>2, <1>7 DEF RunnerHolds, TypeOK, Optional
<1>12. MapsLeadToWaiters'
  BY <1>1, <1>2, <1>3, <1>5, <1>7 DEF MapsLeadToWaiters, TypeOK, Optional
<1>13. ExecutorOwnsClaim'
  <2> SUFFICES ASSUME NEW a \in Dispatches, lapses[a] = 0
               PROVE  /\ HoldsLive(a)' => cont'[a].status = "claimed" /\ cont'[a].owner = "dispatcher"
                      /\ HoldsRecovery(a)' => cont'[a].status = "claimed" /\ cont'[a].owner = "recovery"
    BY <1>2 DEF ExecutorOwnsClaim
  <2>1. HoldsRecovery(a)' => HoldsRecovery(a)
    BY <1>2 DEF HoldsRecovery
  <2>2. HoldsLive(a)' => HoldsLive(a) /\ ~(Claims(d) /\ a = d)
    BY <1>1, <1>2, <1>5 DEF HoldsLive, Claims, GrantsAreSpent
  <2> QED BY <1>1, <1>6, <2>1, <2>2 DEF ExecutorOwnsClaim
<1>14. Budget'
  <2> SUFFICES ASSUME NEW a \in Dispatches, decision[a] = "allow_once"
               PROVE  invocations[a] + ClaimLeft(a)' + InHandLeft(a)' + GrantLeft(a)' + ReuseLeft(a)'
                        <= 1 + lapses[a] + Extra(a)'
    BY <1>2 DEF Budget
  <2>1. ReuseLeft(a)' = ReuseLeft(a) /\ Extra(a)' = Extra(a) /\ InHandLeft(a)' = InHandLeft(a)
    BY <1>2 DEF ReuseLeft, Extra, InHandLeft
  <2>2. GrantLeft(a)' <= GrantLeft(a)
    BY <1>2, <1>5 DEF GrantLeft, Claims
  <2>3. ClaimLeft(a)' <= ClaimLeft(a)
    BY <1>7 DEF ClaimLeft
  <2>4. GrantLeft(a)' \in {0, 1} /\ ClaimLeft(a)' \in {0, 1}
    BY DEF GrantLeft, ClaimLeft
  <2> QED BY <1>1, <2>1, <2>2, <2>3, <2>4, BudgetNumbers DEF Budget
<1> QED BY <1>8, <1>9, <1>10, <1>11, <1>12, <1>13, <1>14 DEF ApprovalInv

\* A lease lapses: the row may be claimed once more.
LEMMA LapseKeepsInv ==
  ASSUME ApprovalInv, NEW x \in Dispatches, LeaseLapses(x)
  PROVE  ApprovalInv'
<1>1. /\ TypeOK /\ RowsFollowCalls /\ SpentWasAllowed /\ GrantsAreSpent /\ RunnerHolds
      /\ MapsLeadToWaiters /\ ExecutorOwnsClaim /\ Budget
  BY DEF ApprovalInv
<1>2. UNCHANGED <<kind, status, decision, late, pc, grant, carries, waiter, callback,
                  displaced, stopped, runner, inHand, up, invocations>>
  BY DEF LeaseLapses, registry, dispatch, waiters, supervisor, process
<1>3. /\ cont[x].status = "claimed" /\ ~cont[x].lapsed
      /\ cont' = [cont EXCEPT ![x] = [cont[x] EXCEPT !.lapsed = TRUE]]
      /\ lapses' = [lapses EXCEPT ![x] = @ + 1]
  BY DEF LeaseLapses
<1>4. ASSUME NEW b \in Dispatches
      PROVE  /\ cont'[b] \in Rows
             /\ cont'[b].status = cont[b].status /\ cont'[b].owner = cont[b].owner
             /\ b # x => cont'[b] = cont[b]
             /\ lapses'[b] = IF b = x THEN lapses[b] + 1 ELSE lapses[b]
  BY <1>1, <1>3 DEF TypeOK, Rows
<1>5. TypeOK'
  <2>1. cont' \in [Dispatches -> Rows]
    BY <1>1, <1>3, <1>4 DEF TypeOK
  <2> QED BY <1>1, <1>2, <1>3, <2>1 DEF TypeOK
<1>6. RowsFollowCalls' /\ GrantsAreSpent' /\ MapsLeadToWaiters'
  BY <1>1, <1>2, <1>4 DEF RowsFollowCalls, GrantsAreSpent, MapsLeadToWaiters
<1>7. SpentWasAllowed'
  BY <1>1, <1>2, <1>4 DEF SpentWasAllowed, TypeOK
<1>8. RunnerHolds'
  BY <1>1, <1>2, <1>4 DEF RunnerHolds, TypeOK, Optional
<1>9. ExecutorOwnsClaim'
  <2>1. \A b \in Dispatches : lapses'[b] = 0 => lapses[b] = 0
    BY <1>1, <1>4 DEF TypeOK
  <2> QED BY <1>1, <1>2, <1>4, <2>1 DEF ExecutorOwnsClaim, HoldsLive, HoldsRecovery, Claims
<1>10. Budget'
  <2> SUFFICES ASSUME NEW a \in Dispatches, decision[a] = "allow_once"
               PROVE  invocations[a] + ClaimLeft(a)' + InHandLeft(a)' + GrantLeft(a)' + ReuseLeft(a)'
                        <= 1 + lapses'[a] + Extra(a)'
    BY <1>2 DEF Budget
  <2>1. /\ ReuseLeft(a)' = ReuseLeft(a) /\ Extra(a)' = Extra(a) /\ InHandLeft(a)' = InHandLeft(a)
        /\ GrantLeft(a)' = GrantLeft(a)
    BY <1>2 DEF ReuseLeft, Extra, InHandLeft, GrantLeft, Claims
  <2>2. ClaimLeft(a)' \in {0, 1} /\ (a # x => ClaimLeft(a)' = ClaimLeft(a)) /\ ClaimLeft(x) = 0
    BY <1>3, <1>4 DEF ClaimLeft, Claimable
  <2> QED BY <1>1, <1>4, <2>1, <2>2, BudgetNumbers DEF Budget
<1> QED BY <1>5, <1>6, <1>7, <1>8, <1>9, <1>10 DEF ApprovalInv

\* The end of the process empties what was in memory.
LEMMA ProcessEndsKeepsInv ==
  ASSUME ApprovalInv, Crash \/ Shutdown
  PROVE  ApprovalInv'
<1>1. /\ TypeOK /\ RowsFollowCalls /\ SpentWasAllowed /\ GrantsAreSpent /\ RunnerHolds
      /\ MapsLeadToWaiters /\ ExecutorOwnsClaim /\ Budget
  BY DEF ApprovalInv
<1>2. UNCHANGED <<kind, status, decision, late, lapses, grant, carries, displaced, stopped, invocations>>
  BY DEF Crash, Shutdown, ProcessEnds, registry
<1>3. /\ up' = FALSE /\ runner' = "none" /\ inHand' = NoDispatch
      /\ pc' = [d \in Dispatches |-> IF pc[d] \in {"waiting", "granted", "executing"} THEN "lost" ELSE pc[d]]
      /\ waiter' = [r \in Runs |-> NoDispatch] /\ callback' = [r \in Runs |-> NoDispatch]
      /\ cont' = Disowned(cont, {"dispatcher", "recovery"})
  BY DEF Crash, Shutdown, ProcessEnds
<1>4. cont \in [Dispatches -> Rows] /\ cont' \in [Dispatches -> Rows]
  BY <1>1, <1>3 DEF TypeOK, Disowned, Rows
<1>5. ASSUME NEW b \in Dispatches
      PROVE  cont'[b].status = cont[b].status /\ cont'[b].lapsed = cont[b].lapsed
  BY <1>3, <1>4, DisownedRows
<1>6. \A d \in Dispatches : /\ pc'[d] \notin {"waiting", "granted", "executing"}
                            /\ pc'[d] = pc[d] \/ pc'[d] = "lost"
  BY <1>3
<1>7. TypeOK'
  <2>1. pc' \in [Dispatches -> Places]
    BY <1>1, <1>3 DEF TypeOK, Places
  <2> QED BY <1>1, <1>2, <1>3, <1>4, <2>1 DEF TypeOK, Optional
<1>8. RowsFollowCalls' /\ SpentWasAllowed'
  BY <1>1, <1>2, <1>5, <1>6 DEF RowsFollowCalls, SpentWasAllowed
<1>9. GrantsAreSpent' /\ RunnerHolds'
  BY <1>1, <1>2, <1>3, <1>5, <1>6 DEF GrantsAreSpent, RunnerHolds, Holding
<1>10. MapsLeadToWaiters'
  BY <1>1, <1>2, <1>3, <1>5, <1>6 DEF MapsLeadToWaiters
<1>11. ExecutorOwnsClaim'
  BY <1>3, <1>6 DEF ExecutorOwnsClaim, HoldsLive, HoldsRecovery
<1>12. Budget'
  <2> SUFFICES ASSUME NEW a \in Dispatches, decision[a] = "allow_once"
               PROVE  invocations[a] + ClaimLeft(a)' + InHandLeft(a)' + GrantLeft(a)' + ReuseLeft(a)'
                        <= 1 + lapses[a] + Extra(a)'
    BY <1>2 DEF Budget
  <2>1. ReuseLeft(a)' = ReuseLeft(a) /\ Extra(a)' = Extra(a)
    BY <1>2 DEF ReuseLeft, Extra
  <2>2. InHandLeft(a)' = 0 /\ GrantLeft(a)' = 0
    BY <1>3, <1>6 DEF InHandLeft, GrantLeft
  <2>3. ClaimLeft(a)' = ClaimLeft(a)
    BY <1>5 DEF ClaimLeft, Claimable
  <2> QED BY <1>1, <2>1, <2>2, <2>3, BudgetNumbers DEF Budget
<1> QED BY <1>7, <1>8, <1>9, <1>10, <1>11, <1>12 DEF ApprovalInv

-----------------------------------------------------------------------------
\* Calls that ask, and decisions.

\* A wait ends without a grant: some waiting calls are told, their open rows are
\* closed, and the maps forget them.
LEMMA DismissKeepsInv ==
  ASSUME ApprovalInv, NEW told \in SUBSET Dispatches,
         \A d \in told : pc[d] = "waiting" /\ status'[d] # "requested",
         status' \in [Dispatches -> Statuses], decision' \in [Dispatches -> Decisions],
         \A b \in Dispatches : status'[b] = status[b]
                               \/ (status[b] = "requested" /\ status'[b] \in {"denied", "expired"}),
         \A b \in Dispatches : decision'[b] = decision[b] \/ (decision'[b] = "deny" /\ status[b] = "requested"),
         pc' = [d \in Dispatches |-> IF d \in told THEN "denied" ELSE pc[d]],
         waiter' = callback', callback' \in [Runs -> Optional],
         \A r \in Runs : callback'[r] # NoDispatch => callback'[r] = callback[r] /\ callback[r] \notin told,
         displaced \subseteq displaced', displaced' \subseteq Dispatches,
         \A d \in Dispatches : pc[d] = "waiting" /\ d \notin told =>
                                 callback'[RunOf[d]] = d \/ d \in displaced',
         UNCHANGED <<kind, late, queue, grant, carries, supervisor, up, invocations>>
  PROVE  ApprovalInv'
<1>1. /\ TypeOK /\ RowsFollowCalls /\ SpentWasAllowed /\ GrantsAreSpent /\ RunnerHolds
      /\ MapsLeadToWaiters /\ ExecutorOwnsClaim /\ Budget
  BY DEF ApprovalInv
<1>2. UNCHANGED <<kind, late, cont, lapses, grant, carries, stopped, runner, inHand, up, invocations>>
  BY DEF queue, supervisor
<1>3. \A d \in Dispatches : pc'[d] = IF d \in told THEN "denied" ELSE pc[d]
  OBVIOUS
<1>4. TypeOK'
  <2>1. pc' \in [Dispatches -> Places]
    BY <1>1 DEF TypeOK, Places
  <2>2. waiter' \in [Runs -> Optional]
    OBVIOUS
  <2> QED BY <1>1, <1>2, <2>1, <2>2 DEF TypeOK
<1>5. RowsFollowCalls'
  BY <1>1, <1>2, <1>3 DEF RowsFollowCalls
<1>6. SpentWasAllowed'
  BY <1>1, <1>2 DEF SpentWasAllowed, Approved
<1>7. GrantsAreSpent'
  <2>1. ASSUME NEW d \in Dispatches, grant[d] # NoDispatch
        PROVE  status'[grant[d]] = "consumed" /\ decision'[grant[d]] = decision[grant[d]]
    BY <1>1, <2>1 DEF GrantsAreSpent, TypeOK, Optional
  <2>2. ASSUME NEW d \in Dispatches
        PROVE  /\ pc'[d] \in {"granted", "executing"} => grant[d] # NoDispatch
               /\ d \in carries => grant[d] = d /\ cont[d].status # "none"
    BY <1>1, <1>3 DEF GrantsAreSpent
  <2> QED BY <1>1, <1>2, <2>1, <2>2 DEF GrantsAreSpent
<1>8. RunnerHolds'
  BY <1>1, <1>2 DEF RunnerHolds
<1>9. MapsLeadToWaiters'
  <2>1. ASSUME NEW r \in Runs, callback'[r] # NoDispatch
        PROVE  pc'[callback'[r]] = "waiting" /\ RunOf[callback'[r]] = r
    BY <1>1, <1>3, <2>1 DEF MapsLeadToWaiters, TypeOK, Optional
  <2>2. ASSUME NEW d \in Dispatches, pc'[d] = "waiting"
        PROVE  callback'[RunOf[d]] = d \/ d \in displaced'
    BY <1>3, <2>2
  <2>3. ASSUME NEW d \in Dispatches, pc'[d] \in {"waiting", "denied"}, cont[d].status # "none"
        PROVE  d \in displaced'
    BY <1>1, <1>3, <2>3 DEF MapsLeadToWaiters
  <2> QED BY <1>2, <2>1, <2>2, <2>3 DEF MapsLeadToWaiters
<1>10. ExecutorOwnsClaim'
  BY <1>1, <1>2, <1>3 DEF ExecutorOwnsClaim, HoldsLive, HoldsRecovery, Claims
<1>11. Budget'
  <2> SUFFICES ASSUME NEW a \in Dispatches, decision'[a] = "allow_once"
               PROVE  invocations[a] + ClaimLeft(a)' + InHandLeft(a)' + GrantLeft(a)' + ReuseLeft(a)'
                        <= 1 + lapses[a] + Extra(a)'
    BY <1>2 DEF Budget
  <2>1. /\ Extra(a)' = Extra(a) /\ InHandLeft(a)' = InHandLeft(a)
        /\ ClaimLeft(a)' = ClaimLeft(a)
    BY <1>2 DEF Extra, InHandLeft, ClaimLeft
  <2>2. ReuseLeft(a)' <= ReuseLeft(a)
    BY DEF ReuseLeft, Approved
  <2>3. GrantLeft(a)' <= GrantLeft(a)
    BY <1>2, <1>3 DEF GrantLeft, Claims
  <2>4. GrantLeft(a)' \in {0, 1} /\ ReuseLeft(a)' \in {0, 1} /\ decision[a] = "allow_once"
    BY DEF GrantLeft, ReuseLeft
  <2> QED BY <1>1, <2>1, <2>2, <2>3, <2>4, BudgetNumbers DEF Budget
<1> QED BY <1>4, <1>5, <1>6, <1>7, <1>8, <1>9, <1>10, <1>11 DEF ApprovalInv

\* The status and decision a dismissed row is left with.
LEMMA DismissedRow ==
  ASSUME TypeOK, NEW b \in Dispatches
  PROVE  /\ Dismissed(b) \in Statuses /\ Dismissed(b) # "requested" /\ DismissedDecision(b) \in Decisions
         /\ Dismissed(b) = status[b] \/ (status[b] = "requested" /\ Dismissed(b) \in {"denied", "expired"})
         /\ DismissedDecision(b) = decision[b] \/ (DismissedDecision(b) = "deny" /\ status[b] = "requested")
BY DEF TypeOK, Statuses, Decisions, Dismissed, DismissedDecision

\* Forgetting the waiter of a run clears both maps for it.
LEMMA ForgottenWaiter ==
  ASSUME TypeOK, MapsLeadToWaiters, NEW r \in Runs, ForgetWaiter(r)
  PROVE  /\ waiter' = callback' /\ callback' \in [Runs -> Optional]
         /\ \A q \in Runs : callback'[q] = IF q = r THEN NoDispatch ELSE callback[q]
BY DEF TypeOK, MapsLeadToWaiters, ForgetWaiter, Optional

\* A denial tells the waiter of the row, or all waiters of the run it cancels.
LEMMA DenyKeepsInv ==
  ASSUME ApprovalInv, NEW a \in Dispatches, Deny(a)
  PROVE  ApprovalInv'
<1> DEFINE r == RunOf[a]
           told == IF ~LiveWaiter(a) THEN {}
                   ELSE IF Cancels(r) THEN Waiting(r) ELSE {callback[r]} \intersect Waiting(r)
<1>1. TypeOK /\ MapsLeadToWaiters /\ r \in Runs
  BY ConstantsAssumption DEF ApprovalInv
<1>2. /\ status[a] = "requested" /\ a \notin late
      /\ status' = [b \in Dispatches |-> IF b = a THEN "denied"
                                        ELSE IF b \in told THEN Dismissed(b) ELSE status[b]]
      /\ decision' = [b \in Dispatches |-> IF b \in told \union {a} THEN DismissedDecision(b) ELSE decision[b]]
      /\ pc' = [d \in Dispatches |-> IF d \in told THEN "denied" ELSE pc[d]]
      /\ IF LiveWaiter(a) THEN ForgetWaiter(r) ELSE UNCHANGED <<waiter, callback>>
      /\ UNCHANGED <<kind, late, queue, grant, carries, displaced, supervisor, process, invocations>>
  BY DEF Deny, Open
<1>3. told \in SUBSET Dispatches /\ \A d \in told : pc[d] = "waiting" /\ RunOf[d] = r /\ LiveWaiter(a)
  BY DEF Waiting
<1>4. status' \in [Dispatches -> Statuses] /\ decision' \in [Dispatches -> Decisions]
  BY <1>1, <1>2, DismissedRow DEF TypeOK, Statuses
<1>5. ASSUME NEW b \in Dispatches
      PROVE  /\ status'[b] = status[b] \/ (status[b] = "requested" /\ status'[b] \in {"denied", "expired"})
             /\ decision'[b] = decision[b] \/ (decision'[b] = "deny" /\ status[b] = "requested")
             /\ b \in told => status'[b] # "requested"
  <2> DEFINE sb == Dismissed(b)
             db == DismissedDecision(b)
  <2>1. /\ sb # "requested"
        /\ sb = status[b] \/ (status[b] = "requested" /\ sb \in {"denied", "expired"})
        /\ db = decision[b] \/ (db = "deny" /\ status[b] = "requested")
    BY <1>1, DismissedRow
  <2>2. /\ status'[b] = IF b = a THEN "denied" ELSE IF b \in told THEN sb ELSE status[b]
        /\ decision'[b] = IF b \in told \union {a} THEN db ELSE decision[b]
    BY <1>2
  <2> HIDE DEF sb, db, told
  <2> QED BY <1>2, <2>1, <2>2
<1>6. /\ waiter' = callback' /\ callback' \in [Runs -> Optional]
      /\ \A q \in Runs : callback'[q] = IF q = r /\ LiveWaiter(a) THEN NoDispatch ELSE callback[q]
  BY <1>1, <1>2, ForgottenWaiter DEF MapsLeadToWaiters, TypeOK
<1>7. ASSUME NEW q \in Runs, callback'[q] # NoDispatch
      PROVE  callback'[q] = callback[q] /\ callback[q] \notin told
  BY <1>1, <1>3, <1>6, <1>7 DEF MapsLeadToWaiters
<1>8. ASSUME NEW d \in Dispatches, pc[d] = "waiting", d \notin told
      PROVE  callback'[RunOf[d]] = d \/ d \in displaced'
  <2>1. RunOf[d] \in Runs /\ (callback[RunOf[d]] = d \/ d \in displaced)
    BY <1>1, <1>8, ConstantsAssumption DEF MapsLeadToWaiters
  <2>2. CASE RunOf[d] = r /\ LiveWaiter(a) /\ callback[r] = d
    BY <1>8, <2>2 DEF Waiting
  <2> QED BY <1>2, <1>6, <2>1, <2>2
<1>9. displaced \subseteq displaced' /\ displaced' \subseteq Dispatches
  BY <1>1, <1>2 DEF TypeOK
<1> HIDE DEF told, r
<1> QED BY <1>2, <1>3, <1>4, <1>5, <1>6, <1>7, <1>8, <1>9, DismissKeepsInv DEF process

\* A timer tells its own call, and drops whichever waiter the maps hold.
LEMMA TimeoutKeepsInv ==
  ASSUME ApprovalInv, NEW x \in Dispatches, Timeout(x)
  PROVE  ApprovalInv'
<1> DEFINE r == RunOf[x]
           told == {x} \union (IF Cancels(r) THEN Waiting(r) ELSE {})
<1>1. TypeOK /\ MapsLeadToWaiters /\ r \in Runs
  BY ConstantsAssumption DEF ApprovalInv
<1>2. /\ pc[x] = "waiting"
      /\ status' = [a \in Dispatches |-> IF a = x THEN Expired(status[a])
                                        ELSE IF a \in told THEN Dismissed(a) ELSE status[a]]
      /\ decision' = [a \in Dispatches |-> IF a \in told \ {x} THEN DismissedDecision(a) ELSE decision[a]]
      /\ pc' = [d \in Dispatches |-> IF d \in told THEN "denied" ELSE pc[d]]
      /\ ForgetWaiter(r)
      /\ displaced' = displaced \union (Displacing(r, x) \ told)
      /\ UNCHANGED <<kind, late, queue, grant, carries, supervisor, process, invocations>>
  BY DEF Timeout, MayTimeOut
<1>3. told \in SUBSET Dispatches /\ \A d \in told : pc[d] = "waiting" /\ RunOf[d] = r
  BY <1>2 DEF Waiting
<1>4. Expired(status[x]) \in Statuses /\ Expired(status[x]) # "requested"
      /\ (Expired(status[x]) = status[x] \/ (status[x] = "requested" /\ Expired(status[x]) = "expired"))
  BY <1>1 DEF Expired, TypeOK, Statuses
<1>5. status' \in [Dispatches -> Statuses] /\ decision' \in [Dispatches -> Decisions]
  BY <1>1, <1>2, <1>4, DismissedRow DEF TypeOK
<1>6. ASSUME NEW b \in Dispatches
      PROVE  /\ status'[b] = status[b] \/ (status[b] = "requested" /\ status'[b] \in {"denied", "expired"})
             /\ decision'[b] = decision[b] \/ (decision'[b] = "deny" /\ status[b] = "requested")
             /\ b \in told => status'[b] # "requested"
  <2> DEFINE sb == Dismissed(b)
             db == DismissedDecision(b)
  <2>1. /\ sb # "requested"
        /\ sb = status[b] \/ (status[b] = "requested" /\ sb \in {"denied", "expired"})
        /\ db = decision[b] \/ (db = "deny" /\ status[b] = "requested")
    BY <1>1, DismissedRow
  <2>2. /\ status'[b] = IF b = x THEN Expired(status[b]) ELSE IF b \in told THEN sb ELSE status[b]
        /\ decision'[b] = IF b \in told \ {x} THEN db ELSE decision[b]
    BY <1>2
  <2> HIDE DEF sb, db, told
  <2> QED BY <1>2, <1>4, <2>1, <2>2
<1>7. /\ waiter' = callback' /\ callback' \in [Runs -> Optional]
      /\ \A q \in Runs : callback'[q] = IF q = r THEN NoDispatch ELSE callback[q]
  BY <1>1, <1>2, ForgottenWaiter
<1>8. ASSUME NEW q \in Runs, callback'[q] # NoDispatch
      PROVE  callback'[q] = callback[q] /\ callback[q] \notin told
  BY <1>1, <1>3, <1>7, <1>8 DEF MapsLeadToWaiters
<1>9. displaced \subseteq displaced' /\ displaced' \subseteq Dispatches
  BY <1>1, <1>2 DEF TypeOK, Displacing, Waiting
<1>10. ASSUME NEW d \in Dispatches, pc[d] = "waiting", d \notin told
       PROVE  callback'[RunOf[d]] = d \/ d \in displaced'
  <2>1. RunOf[d] \in Runs /\ (callback[RunOf[d]] = d \/ d \in displaced)
    BY <1>1, <1>10, ConstantsAssumption DEF MapsLeadToWaiters
  <2>2. CASE RunOf[d] = r /\ callback[r] = d
    BY <1>2, <1>10, <2>2 DEF Waiting, Displacing
  <2> QED BY <1>7, <1>9, <2>1, <2>2
<1> HIDE DEF told, r
<1> QED BY <1>2, <1>3, <1>5, <1>6, <1>7, <1>8, <1>9, <1>10, DismissKeepsInv DEF process

\* A cancelled run tells all its waiters.
LEMMA AbortKeepsInv ==
  ASSUME ApprovalInv, NEW r \in Runs, Abort(r)
  PROVE  ApprovalInv'
<1> DEFINE told == Waiting(r)
<1>1. TypeOK /\ MapsLeadToWaiters
  BY DEF ApprovalInv
<1>2. /\ status' = [a \in Dispatches |-> IF a \in told THEN Dismissed(a) ELSE status[a]]
      /\ decision' = [a \in Dispatches |-> IF a \in told THEN DismissedDecision(a) ELSE decision[a]]
      /\ pc' = [d \in Dispatches |-> IF d \in told THEN "denied" ELSE pc[d]]
      /\ IF told # {} THEN ForgetWaiter(r) ELSE UNCHANGED <<waiter, callback>>
      /\ UNCHANGED <<kind, late, queue, grant, carries, displaced, supervisor, process, invocations>>
  BY DEF Abort
<1>3. told \in SUBSET Dispatches /\ \A d \in Dispatches : d \in told <=> pc[d] = "waiting" /\ RunOf[d] = r
  BY DEF Waiting
<1>4. status' \in [Dispatches -> Statuses] /\ decision' \in [Dispatches -> Decisions]
  BY <1>1, <1>2, DismissedRow DEF TypeOK
<1>5. ASSUME NEW b \in Dispatches
      PROVE  /\ status'[b] = status[b] \/ (status[b] = "requested" /\ status'[b] \in {"denied", "expired"})
             /\ decision'[b] = decision[b] \/ (decision'[b] = "deny" /\ status[b] = "requested")
             /\ b \in told => status'[b] # "requested"
  <2> DEFINE sb == Dismissed(b)
             db == DismissedDecision(b)
  <2>1. /\ sb # "requested"
        /\ sb = status[b] \/ (status[b] = "requested" /\ sb \in {"denied", "expired"})
        /\ db = decision[b] \/ (db = "deny" /\ status[b] = "requested")
    BY <1>1, DismissedRow
  <2>2. /\ status'[b] = IF b \in told THEN sb ELSE status[b]
        /\ decision'[b] = IF b \in told THEN db ELSE decision[b]
    BY <1>2
  <2> HIDE DEF sb, db, told
  <2> QED BY <1>2, <2>1, <2>2
<1>6. /\ waiter' = callback' /\ callback' \in [Runs -> Optional]
      /\ \A q \in Runs : callback'[q] = IF q = r /\ told # {} THEN NoDispatch ELSE callback[q]
  BY <1>1, <1>2, ForgottenWaiter DEF MapsLeadToWaiters, TypeOK
<1>7. ASSUME NEW q \in Runs, callback'[q] # NoDispatch
      PROVE  callback'[q] = callback[q] /\ callback[q] \notin told
  BY <1>1, <1>3, <1>6, <1>7 DEF MapsLeadToWaiters
<1>8. ASSUME NEW d \in Dispatches, pc[d] = "waiting", d \notin told
      PROVE  callback'[RunOf[d]] = d \/ d \in displaced'
  BY <1>1, <1>2, <1>3, <1>6, <1>8, ConstantsAssumption DEF MapsLeadToWaiters
<1>9. displaced \subseteq displaced' /\ displaced' \subseteq Dispatches
  BY <1>1, <1>2 DEF TypeOK
<1> HIDE DEF told
<1> QED BY <1>2, <1>3, <1>4, <1>5, <1>6, <1>7, <1>8, <1>9, DismissKeepsInv DEF process

\* The end of a run tells nobody: whoever the maps led to is displaced.
LEMMA RunEndsKeepsInv ==
  ASSUME ApprovalInv, NEW r \in Runs, RunEnds(r)
  PROVE  ApprovalInv'
<1>1. TypeOK /\ MapsLeadToWaiters
  BY DEF ApprovalInv
<1>2. /\ UNCHANGED <<kind, registry, queue, grant, carries, supervisor, up, invocations>>
      /\ pc' = pc /\ ForgetWaiter(r)
      /\ displaced' = displaced \union Displacing(r, NoDispatch)
  BY DEF RunEnds, dispatch
<1>3. /\ waiter' = callback' /\ callback' \in [Runs -> Optional]
      /\ \A q \in Runs : callback'[q] = IF q = r THEN NoDispatch ELSE callback[q]
  BY <1>1, <1>2, ForgottenWaiter
<1>4. displaced \subseteq displaced' /\ displaced' \subseteq Dispatches
  BY <1>1, <1>2 DEF TypeOK, Displacing, Waiting
<1>5. ASSUME NEW d \in Dispatches, pc[d] = "waiting"
      PROVE  callback'[RunOf[d]] = d \/ d \in displaced'
  <2>1. RunOf[d] \in Runs /\ (callback[RunOf[d]] = d \/ d \in displaced)
    BY <1>1, <1>5, ConstantsAssumption DEF MapsLeadToWaiters
  <2>2. CASE RunOf[d] = r /\ callback[r] = d
    BY <1>2, <1>5, <2>2, ConstantsAssumption DEF Displacing, Waiting
  <2> QED BY <1>3, <1>4, <2>1, <2>2
<1>6. status' \in [Dispatches -> Statuses] /\ decision' \in [Dispatches -> Decisions]
      /\ status' = status /\ decision' = decision /\ late' = late
  BY <1>1, <1>2 DEF TypeOK, registry
<1>7. pc' = [d \in Dispatches |-> IF d \in {} THEN "denied" ELSE pc[d]]
  BY <1>1, <1>2 DEF TypeOK
<1>8. {} \in SUBSET Dispatches
  OBVIOUS
<1> QED BY <1>2, <1>3, <1>4, <1>5, <1>6, <1>7, <1>8, DismissKeepsInv

\* A row that is not spent has nothing left but its reuse.
LEMMA UnspentRow ==
  ASSUME ApprovalInv, NEW b \in Dispatches, status[b] # "consumed"
  PROVE  /\ invocations[b] = 0 /\ cont[b].status = "none" /\ b \notin carries
         /\ ClaimLeft(b) = 0 /\ InHandLeft(b) = 0 /\ GrantLeft(b) = 0
         /\ \A e \in Dispatches : grant[e] # b
         /\ ~HoldsLive(b) /\ ~HoldsRecovery(b)
<1>1. TypeOK /\ SpentWasAllowed /\ GrantsAreSpent /\ RunnerHolds
  BY DEF ApprovalInv
<1>2. invocations[b] = 0 /\ cont[b].status = "none" /\ b \notin carries
  BY <1>1 DEF SpentWasAllowed, GrantsAreSpent, TypeOK
<1>3. \A e \in Dispatches : grant[e] # b
  BY <1>1, ConstantsAssumption DEF GrantsAreSpent
<1>4. ClaimLeft(b) = 0 /\ InHandLeft(b) = 0 /\ ~HoldsRecovery(b)
  BY <1>1, <1>2 DEF ClaimLeft, Claimable, InHandLeft, RunnerHolds, Holding, HoldsRecovery
<1>5. GrantLeft(b) = 0 /\ ~HoldsLive(b)
  BY <1>3 DEF GrantLeft, HoldsLive
<1> QED BY <1>2, <1>3, <1>4, <1>5

\* A step that only closes open or unasked rows, or approves them for later, and
\* lets idle calls end.
LEMMA RegistryKeepsInv ==
  ASSUME ApprovalInv,
         status' \in [Dispatches -> Statuses], decision' \in [Dispatches -> Decisions],
         pc' \in [Dispatches -> Places],
         \A b \in Dispatches :
           \/ status'[b] = status[b] /\ decision'[b] = decision[b]
           \/ /\ status[b] \in {"none", "requested"} /\ status'[b] \notin {"consumed", "requested"}
              /\ status'[b] \in Approved => decision'[b] \in Allowing
              /\ status[b] = "none" => pc'[b] # "idle",
         \A e \in Dispatches : \/ pc'[e] = pc[e]
                               \/ pc[e] = "idle" /\ pc'[e] \in {"denied", "recorded"}
                                  /\ status'[e] # "requested",
         UNCHANGED <<kind, late, queue, grant, carries, waiters, supervisor, process, invocations>>
  PROVE  ApprovalInv'
<1>1. /\ TypeOK /\ RowsFollowCalls /\ SpentWasAllowed /\ GrantsAreSpent /\ RunnerHolds
      /\ MapsLeadToWaiters /\ ExecutorOwnsClaim /\ Budget
  BY DEF ApprovalInv
<1>2. UNCHANGED <<kind, late, cont, lapses, grant, carries, waiter, callback, displaced, stopped,
                  runner, inHand, up, invocations>>
  BY DEF queue, waiters, supervisor, process
<1>3. TypeOK'
  BY <1>1, <1>2 DEF TypeOK
<1>4. RowsFollowCalls'
  BY <1>1, <1>2 DEF RowsFollowCalls
<1>5. SpentWasAllowed'
  BY <1>1, <1>2 DEF SpentWasAllowed, Approved
<1>6. GrantsAreSpent'
  <2>1. ASSUME NEW d \in Dispatches, grant[d] # NoDispatch
        PROVE  status'[grant[d]] = "consumed" /\ decision'[grant[d]] = decision[grant[d]]
    BY <1>1, <2>1 DEF GrantsAreSpent, TypeOK, Optional
  <2>2. ASSUME NEW d \in Dispatches
        PROVE  /\ pc'[d] \in {"granted", "executing"} => grant[d] # NoDispatch
               /\ d \in carries => grant[d] = d /\ cont[d].status # "none"
    BY <1>1 DEF GrantsAreSpent
  <2> QED BY <1>1, <1>2, <2>1, <2>2 DEF GrantsAreSpent
<1>7. RunnerHolds'
  BY <1>1, <1>2 DEF RunnerHolds
<1>8. MapsLeadToWaiters'
  <2>1. \A d \in Dispatches : (pc'[d] = "waiting" <=> pc[d] = "waiting")
    OBVIOUS
  <2>2. \A d \in Dispatches : pc[d] = "idle" => cont[d].status = "none"
    BY <1>1 DEF RowsFollowCalls, SpentWasAllowed
  <2> QED BY <1>1, <1>2, <2>1, <2>2 DEF MapsLeadToWaiters, TypeOK, Optional
<1>9. ExecutorOwnsClaim'
  <2>1. \A d \in Dispatches : pc'[d] = "executing" => pc[d] = "executing"
    OBVIOUS
  <2> QED BY <1>1, <1>2, <2>1 DEF ExecutorOwnsClaim, HoldsLive, HoldsRecovery, Claims
<1>10. Budget'
  <2> SUFFICES ASSUME NEW a \in Dispatches, decision'[a] = "allow_once"
               PROVE  invocations[a] + ClaimLeft(a)' + InHandLeft(a)' + GrantLeft(a)' + ReuseLeft(a)'
                        <= 1 + lapses[a] + Extra(a)'
    BY <1>2 DEF Budget
  <2>1. Extra(a)' = Extra(a) /\ InHandLeft(a)' = InHandLeft(a) /\ ClaimLeft(a)' = ClaimLeft(a)
    BY <1>2 DEF Extra, InHandLeft, ClaimLeft
  <2>2. GrantLeft(a)' <= GrantLeft(a) /\ GrantLeft(a)' \in {0, 1} /\ ReuseLeft(a)' \in {0, 1}
    BY <1>2 DEF GrantLeft, ReuseLeft, Claims
  <2>3. CASE status'[a] = status[a] /\ decision'[a] = decision[a]
    <3>1. ReuseLeft(a)' = ReuseLeft(a)
      BY <2>3 DEF ReuseLeft
    <3> QED BY <1>1, <2>1, <2>2, <2>3, <3>1, BudgetNumbers DEF Budget
  <2>4. CASE status[a] \in {"none", "requested"}
    BY <1>1, <2>1, <2>2, <2>4, UnspentRow, BudgetNumbers
  <2> QED BY <2>3, <2>4
<1> QED BY <1>3, <1>4, <1>5, <1>6, <1>7, <1>8, <1>9, <1>10 DEF ApprovalInv

\* A refused request, a grant in advance and a decision in the registry.
LEMMA RegistrySteps ==
  ASSUME ApprovalInv, NEW d \in Dispatches,
         \/ AskRefused(d)
         \/ \E dec \in Allowing : GrantInAdvance(d, dec)
         \/ \E dec \in Allowing \union {"deny"} : DecideInRegistry(d, dec)
  PROVE  ApprovalInv'
<1>1. TypeOK /\ RowsFollowCalls
  BY DEF ApprovalInv
<1>2. CASE AskRefused(d)
  <2>1. /\ pc[d] = "idle" /\ status[d] = "none" /\ decision' = decision
        /\ status' = [a \in Dispatches |-> IF a = d THEN "expired"
                                          ELSE IF Superseded(a, d) THEN "superseded" ELSE status[a]]
        /\ pc' = [pc EXCEPT ![d] = "denied"]
        /\ UNCHANGED <<kind, late, queue, grant, carries, waiters, supervisor, process, invocations>>
    BY <1>1, <1>2 DEF AskRefused, RowsFollowCalls
  <2>2. status' \in [Dispatches -> Statuses] /\ pc' \in [Dispatches -> Places] /\ decision' \in [Dispatches -> Decisions]
    BY <1>1, <2>1 DEF TypeOK, Statuses, Places
  <2>3. ASSUME NEW b \in Dispatches
        PROVE  /\ pc'[b] = IF b = d THEN "denied" ELSE pc[b]
               /\ status'[b] = status[b] \/ (status[b] \in {"none", "requested"} /\ status'[b] \in {"expired", "superseded"})
               /\ b # d => status[b] # "none" \/ status'[b] = status[b]
               /\ b = d => status'[b] = "expired"
    BY <1>1, <2>1 DEF TypeOK, Superseded
  <2> QED BY <2>1, <2>2, <2>3, RegistryKeepsInv DEF Approved
<1>3. ASSUME NEW dec \in Allowing, GrantInAdvance(d, dec) PROVE ApprovalInv'
  <2>1. /\ pc[d] = "idle" /\ status[d] = "none"
        /\ status' = [status EXCEPT ![d] = ApprovedAs(dec)] /\ decision' = [decision EXCEPT ![d] = dec]
        /\ pc' = [pc EXCEPT ![d] = "recorded"] /\ ApprovedAs(dec) \in Approved
        /\ UNCHANGED <<kind, late, queue, grant, carries, waiters, supervisor, process, invocations>>
    BY <1>1, <1>3 DEF GrantInAdvance, RowsFollowCalls, ApprovedAs, Approved
  <2>2. status' \in [Dispatches -> Statuses] /\ pc' \in [Dispatches -> Places] /\ decision' \in [Dispatches -> Decisions]
    BY <1>1, <2>1 DEF TypeOK, Statuses, Places, Decisions, Allowing, Approved
  <2>3. ASSUME NEW b \in Dispatches
        PROVE  /\ pc'[b] = IF b = d THEN "recorded" ELSE pc[b]
               /\ status'[b] = IF b = d THEN ApprovedAs(dec) ELSE status[b]
               /\ decision'[b] = IF b = d THEN dec ELSE decision[b]
    BY <1>1, <2>1 DEF TypeOK
  <2> QED BY <2>1, <2>2, <2>3, RegistryKeepsInv DEF Approved
<1>4. ASSUME NEW dec \in Allowing \union {"deny"}, DecideInRegistry(d, dec) PROVE ApprovalInv'
  <2> DEFINE s == IF d \in late THEN "expired" ELSE IF dec = "deny" THEN "denied" ELSE ApprovedAs(dec)
             v == IF d \in late THEN decision[d] ELSE dec
  <2>1. /\ status[d] = "requested" /\ status' = [status EXCEPT ![d] = s] /\ decision' = [decision EXCEPT ![d] = v]
        /\ pc' = pc
        /\ UNCHANGED <<kind, late, queue, grant, carries, waiters, supervisor, process, invocations>>
    BY <1>4 DEF DecideInRegistry, dispatch
  <2>2. s \in {"expired", "denied", "approved_once", "approved_run"} /\ (s \in Approved => v \in Allowing)
        /\ v \in Decisions
    BY <1>1, <1>4 DEF ApprovedAs, Approved, Allowing, Decisions, TypeOK
  <2> HIDE DEF s, v
  <2>3. status' \in [Dispatches -> Statuses] /\ pc' \in [Dispatches -> Places] /\ decision' \in [Dispatches -> Decisions]
    BY <1>1, <2>1, <2>2 DEF TypeOK, Statuses
  <2>4. ASSUME NEW b \in Dispatches
        PROVE  /\ pc'[b] = pc[b]
               /\ status'[b] = IF b = d THEN s ELSE status[b]
               /\ decision'[b] = IF b = d THEN v ELSE decision[b]
    BY <1>1, <2>1 DEF TypeOK
  <2> QED BY <2>1, <2>2, <2>3, <2>4, RegistryKeepsInv
<1> QED BY <1>2, <1>3, <1>4

\* A call reuses an earlier decision: one that was not spent, or one for the run.
LEMMA ReuseKeepsInv ==
  ASSUME ApprovalInv, NEW d \in Dispatches, NEW x \in Dispatches, Reuse(d, x)
  PROVE  ApprovalInv'
<1>1. /\ TypeOK /\ RowsFollowCalls /\ SpentWasAllowed /\ GrantsAreSpent /\ RunnerHolds
      /\ MapsLeadToWaiters /\ ExecutorOwnsClaim /\ Budget
  BY DEF ApprovalInv
<1>2. UNCHANGED <<kind, decision, late, cont, lapses, carries, waiter, callback, displaced, stopped,
                  runner, inHand, up, invocations>>
  BY DEF Reuse, queue, waiters, supervisor, process
<1>3. /\ pc[d] = "idle" /\ status[d] = "none" /\ d \notin carries
      /\ status[x] \in Approved \/ (status[x] = "consumed" /\ decision[x] = "allow_run")
      /\ status' = [status EXCEPT ![x] = "consumed"] /\ pc' = [pc EXCEPT ![d] = "granted"]
      /\ grant' = [grant EXCEPT ![d] = x]
  BY <1>1 DEF Reuse, Reusable, RowsFollowCalls
<1>4. x # d /\ x # NoDispatch
  BY <1>3, ConstantsAssumption DEF Approved
<1>5. \A b \in Dispatches : /\ status'[b] = IF b = x THEN "consumed" ELSE status[b]
                            /\ pc'[b] = IF b = d THEN "granted" ELSE pc[b]
                            /\ grant'[b] = IF b = d THEN x ELSE grant[b]
  BY <1>1, <1>3 DEF TypeOK
<1>6. TypeOK'
  BY <1>1, <1>2, <1>3 DEF TypeOK, Statuses, Places, Optional
<1>7. RowsFollowCalls' /\ SpentWasAllowed'
  BY <1>1, <1>2, <1>3, <1>4, <1>5 DEF RowsFollowCalls, SpentWasAllowed, Approved
<1>8. GrantsAreSpent'
  <2>1. ASSUME NEW e \in Dispatches
        PROVE  /\ grant'[e] # NoDispatch => status'[grant'[e]] = "consumed"
               /\ pc'[e] \in {"granted", "executing"} => grant'[e] # NoDispatch
               /\ e \in carries => grant'[e] = e /\ cont[e].status # "none"
    BY <1>1, <1>3, <1>4, <1>5 DEF GrantsAreSpent, TypeOK, Optional
  <2>2. ASSUME NEW e \in Dispatches, NEW f \in Dispatches, grant'[e] = grant'[f],
               grant'[e] # NoDispatch, decision[grant'[e]] = "allow_once", e # f
        PROVE  FALSE
    <3>1. CASE grant'[e] = x
      <4>1. status[x] \in Approved
        BY <1>3, <2>2, <3>1
      <4>2. \A b \in Dispatches : grant[b] # x
        BY <4>1, UnspentRow DEF Approved
      <4> QED BY <1>5, <2>2, <3>1, <4>2
    <3>2. CASE grant'[e] # x
      BY <1>1, <1>5, <2>2, <3>2 DEF GrantsAreSpent
    <3> QED BY <3>1, <3>2
  <2> QED BY <1>2, <2>1, <2>2 DEF GrantsAreSpent
<1>9. RunnerHolds'
  BY <1>1, <1>2 DEF RunnerHolds
<1>10. MapsLeadToWaiters'
  BY <1>1, <1>2, <1>3, <1>5 DEF MapsLeadToWaiters, TypeOK, Optional
<1>11. ExecutorOwnsClaim'
  <2>1. \A a \in Dispatches : HoldsLive(a)' => HoldsLive(a)
    BY <1>2, <1>3, <1>5 DEF HoldsLive, Claims
  <2> QED BY <1>1, <1>2, <2>1 DEF ExecutorOwnsClaim, HoldsRecovery
<1>12. Budget'
  <2> SUFFICES ASSUME NEW a \in Dispatches, decision[a] = "allow_once"
               PROVE  invocations[a] + ClaimLeft(a)' + InHandLeft(a)' + GrantLeft(a)' + ReuseLeft(a)'
                        <= 1 + lapses[a] + Extra(a)'
    BY <1>2 DEF Budget
  <2>1. Extra(a)' = Extra(a) /\ InHandLeft(a)' = InHandLeft(a) /\ ClaimLeft(a)' = ClaimLeft(a)
    BY <1>2 DEF Extra, InHandLeft, ClaimLeft
  <2>2. GrantLeft(a)' \in {0, 1} /\ ReuseLeft(a)' \in {0, 1}
    BY DEF GrantLeft, ReuseLeft
  <2>3. CASE a = x
    <3>1. status[x] \in Approved /\ status[x] # "consumed"
      BY <1>3, <2>3 DEF Approved
    <3>2. ReuseLeft(a)' = 0
      BY <1>5, <2>3 DEF ReuseLeft, Approved
    <3> QED BY <1>1, <2>1, <2>2, <2>3, <3>1, <3>2, UnspentRow, BudgetNumbers
  <2>4. CASE a # x
    <3>1. ReuseLeft(a)' = ReuseLeft(a) /\ GrantLeft(a)' <= GrantLeft(a)
      BY <1>2, <1>5, <2>4 DEF ReuseLeft, GrantLeft, Claims
    <3> QED BY <1>1, <2>1, <2>2, <3>1, BudgetNumbers DEF Budget
  <2> QED BY <2>3, <2>4
<1> QED BY <1>6, <1>7, <1>8, <1>9, <1>10, <1>11, <1>12 DEF ApprovalInv

\* A call asks: its request supersedes the open ones of its run and tool, and it
\* takes the place of the call the maps led to.
LEMMA AskKeepsInv ==
  ASSUME ApprovalInv, NEW d \in Dispatches, Ask(d)
  PROVE  ApprovalInv'
<1>1. /\ TypeOK /\ RowsFollowCalls /\ SpentWasAllowed /\ GrantsAreSpent /\ RunnerHolds
      /\ MapsLeadToWaiters /\ ExecutorOwnsClaim /\ Budget
  BY DEF ApprovalInv
<1>2. UNCHANGED <<kind, decision, late, cont, lapses, grant, carries, stopped, runner, inHand, up, invocations>>
  BY DEF Ask, queue, supervisor, process
<1> DEFINE r == RunOf[d]
<1>3. /\ pc[d] = "idle" /\ status[d] = "none" /\ d \notin carries /\ r \in Runs
      /\ status' = [a \in Dispatches |-> IF a = d THEN "requested"
                                        ELSE IF Superseded(a, d) THEN "superseded" ELSE status[a]]
      /\ pc' = [pc EXCEPT ![d] = "waiting"]
      /\ waiter' = [waiter EXCEPT ![r] = d] /\ callback' = [callback EXCEPT ![r] = d]
      /\ displaced' = displaced \union Displacing(r, d)
  BY <1>1, ConstantsAssumption DEF Ask, RowsFollowCalls
<1>4. ASSUME NEW b \in Dispatches
      PROVE  /\ b = d => status'[b] = "requested"
             /\ b # d => status'[b] = status[b] \/ (status[b] = "requested" /\ status'[b] = "superseded")
             /\ pc'[b] = IF b = d THEN "waiting" ELSE pc[b]
  BY <1>1, <1>3 DEF TypeOK, Superseded
<1>5. \A q \in Runs : callback'[q] = IF q = r THEN d ELSE callback[q]
  BY <1>1, <1>3 DEF TypeOK
<1>6. displaced \subseteq displaced' /\ displaced' \subseteq Dispatches
  BY <1>1, <1>3 DEF TypeOK, Displacing, Waiting
<1>7. TypeOK'
  <2>1. status' \in [Dispatches -> Statuses] /\ pc' \in [Dispatches -> Places]
    BY <1>1, <1>3 DEF TypeOK, Statuses, Places
  <2>2. waiter' \in [Runs -> Optional] /\ callback' \in [Runs -> Optional]
    BY <1>1, <1>3 DEF TypeOK, Optional
  <2> QED BY <1>1, <1>2, <1>6, <2>1, <2>2 DEF TypeOK
<1>8. RowsFollowCalls'
  BY <1>1, <1>2, <1>3, <1>4 DEF RowsFollowCalls
<1>9. SpentWasAllowed'
  BY <1>1, <1>2, <1>3, <1>4 DEF SpentWasAllowed, Approved
<1>10. GrantsAreSpent'
  <2>1. ASSUME NEW e \in Dispatches, grant[e] # NoDispatch
        PROVE  status'[grant[e]] = "consumed"
    BY <1>1, <1>3, <1>4, <2>1 DEF GrantsAreSpent, TypeOK, Optional
  <2> QED BY <1>1, <1>2, <1>4, <2>1 DEF GrantsAreSpent
<1>11. RunnerHolds'
  BY <1>1, <1>2 DEF RunnerHolds
<1>12. MapsLeadToWaiters'
  <2>1. waiter' = callback'
    BY <1>1, <1>3 DEF MapsLeadToWaiters
  <2>2. ASSUME NEW q \in Runs, callback'[q] # NoDispatch
        PROVE  pc'[callback'[q]] = "waiting" /\ RunOf[callback'[q]] = q
    BY <1>1, <1>4, <1>5, <2>2 DEF MapsLeadToWaiters, TypeOK, Optional
  <2>3. ASSUME NEW e \in Dispatches, pc'[e] = "waiting"
        PROVE  callback'[RunOf[e]] = e \/ e \in displaced'
    <3>1. RunOf[e] \in Runs
      BY ConstantsAssumption
    <3>2. CASE e # d /\ callback[RunOf[e]] = e /\ RunOf[e] = r
      BY <1>3, <1>4, <2>3, <3>2 DEF Displacing, Waiting
    <3> QED BY <1>1, <1>4, <1>5, <1>6, <2>3, <3>1, <3>2 DEF MapsLeadToWaiters
  <2>4. ASSUME NEW e \in Dispatches, pc'[e] \in {"waiting", "denied"}, cont[e].status # "none"
        PROVE  e \in displaced'
    BY <1>1, <1>3, <1>4, <1>6, <2>4 DEF MapsLeadToWaiters, SpentWasAllowed
  <2> QED BY <1>2, <2>1, <2>2, <2>3, <2>4 DEF MapsLeadToWaiters
<1>13. ExecutorOwnsClaim'
  <2>1. \A a \in Dispatches : HoldsLive(a)' => HoldsLive(a)
    BY <1>2, <1>4 DEF HoldsLive, Claims
  <2> QED BY <1>1, <1>2, <2>1 DEF ExecutorOwnsClaim, HoldsRecovery
<1>14. Budget'
  <2> SUFFICES ASSUME NEW a \in Dispatches, decision[a] = "allow_once"
               PROVE  invocations[a] + ClaimLeft(a)' + InHandLeft(a)' + GrantLeft(a)' + ReuseLeft(a)'
                        <= 1 + lapses[a] + Extra(a)'
    BY <1>2 DEF Budget
  <2>1. Extra(a)' = Extra(a) /\ InHandLeft(a)' = InHandLeft(a) /\ ClaimLeft(a)' = ClaimLeft(a)
    BY <1>2 DEF Extra, InHandLeft, ClaimLeft
  <2>2. GrantLeft(a)' <= GrantLeft(a) /\ ReuseLeft(a)' <= ReuseLeft(a)
    BY <1>2, <1>4 DEF GrantLeft, ReuseLeft, Claims, Approved
  <2>3. GrantLeft(a)' \in {0, 1} /\ ReuseLeft(a)' \in {0, 1}
    BY DEF GrantLeft, ReuseLeft
  <2> QED BY <1>1, <2>1, <2>2, <2>3, BudgetNumbers DEF Budget
<1> QED BY <1>7, <1>8, <1>9, <1>10, <1>11, <1>12, <1>13, <1>14 DEF ApprovalInv

\* An allowed call either resumes, if the maps lead to it, or is left to recovery;
\* a runner that is idle claims at once.
LEMMA AllowCases ==
  ASSUME ApprovalInv, NEW a \in Dispatches, NEW dec \in Allowing, Allow(a, dec)
  PROVE  \E chosen \in Optional :
           LET c == IF kind[a].bound THEN [cont EXCEPT ![a] = Enqueued] ELSE cont IN
           /\ chosen # NoDispatch => Claimable(c[chosen])
           /\ cont' = [b \in Dispatches |-> IF b = chosen THEN Claimed(c[b], "recovery") ELSE c[b]]
           /\ \/ chosen = NoDispatch /\ UNCHANGED <<runner, inHand>>
              \/ /\ runner' = IF chosen = NoDispatch THEN "summary" ELSE "holding"
                 /\ inHand' = chosen
<1> DEFINE c == IF kind[a].bound THEN [cont EXCEPT ![a] = Enqueued] ELSE cont
<1>1. c \in [Dispatches -> Rows]
  BY EnqueuedRow DEF ApprovalInv, TypeOK
<1>2. CASE cont' = c /\ UNCHANGED <<runner, inHand>>
  <2>1. cont' = [b \in Dispatches |-> IF b = NoDispatch THEN Claimed(c[b], "recovery") ELSE c[b]]
    BY <1>1, <1>2, ConstantsAssumption
  <2> QED BY <1>2, <2>1 DEF Optional
<1>3. CASE Drain(c, FALSE)
  <2>1. PICK chosen \in Optional :
          /\ chosen # NoDispatch => Claimable(c[chosen])
          /\ cont' = [b \in Dispatches |-> IF b = chosen THEN Claimed(c[b], "recovery") ELSE c[b]]
          /\ runner' = IF chosen = NoDispatch THEN "summary" ELSE "holding"
          /\ inHand' = chosen
    <3> HIDE DEF c
    <3> QED BY <1>1, <1>3, DrainCases
  <2> QED BY <2>1
<1>4. (cont' = c /\ UNCHANGED <<runner, inHand>>) \/ Drain(c, FALSE)
  <2>1. CASE LiveWaiter(a) \/ ~kind[a].bound
    BY <2>1 DEF Allow
  <2>2. CASE ~LiveWaiter(a) /\ kind[a].bound
    BY <2>2 DEF Allow, Wake
  <2> QED BY <2>1, <2>2
<1> QED BY <1>2, <1>3, <1>4

\* A decision that allows the call spends the row and grants it to one call.
LEMMA AllowKeepsInv ==
  ASSUME ApprovalInv, NEW a \in Dispatches, NEW dec \in Allowing, Allow(a, dec)
  PROVE  ApprovalInv'
<1>1. /\ TypeOK /\ RowsFollowCalls /\ SpentWasAllowed /\ GrantsAreSpent /\ RunnerHolds
      /\ MapsLeadToWaiters /\ ExecutorOwnsClaim /\ Budget
  BY DEF ApprovalInv
<1> DEFINE r == RunOf[a]
           bound == kind[a].bound = TRUE
           live == LiveWaiter(a)
           c == IF kind[a].bound THEN [cont EXCEPT ![a] = Enqueued] ELSE cont
<1>2. r \in Runs /\ a # NoDispatch
  BY ConstantsAssumption
<1>3. /\ status[a] = "requested" /\ pc[a] \in {"waiting", "lost"}
      /\ status' = [status EXCEPT ![a] = "consumed"] /\ decision' = [decision EXCEPT ![a] = dec]
      /\ UNCHANGED <<kind, late, lapses, displaced, stopped, up, invocations>>
  BY <1>1 DEF Allow, Open, RowsFollowCalls, process
<1>4. /\ invocations[a] = 0 /\ cont[a].status = "none" /\ a \notin carries
      /\ \A e \in Dispatches : grant[e] # a
      /\ ~HoldsLive(a) /\ ~HoldsRecovery(a)
  BY <1>3, UnspentRow
<1>5. ASSUME live
      PROVE  /\ callback[r] = a /\ pc[a] = "waiting"
             /\ pc' = [pc EXCEPT ![a] = "granted"] /\ grant' = [grant EXCEPT ![a] = a]
             /\ carries' = IF kind[a].bound THEN carries \union {a} ELSE carries
             /\ ForgetWaiter(r)
  <2>1. callback[r] = a /\ pc[a] = "waiting"
    BY <1>1, <1>2, <1>5 DEF LiveWaiter, MapsLeadToWaiters
  <2> QED BY <1>5, <2>1 DEF Allow
<1>6. ASSUME ~live
      PROVE  UNCHANGED <<pc, grant, carries, waiter, callback>>
  BY <1>6 DEF Allow, dispatch
<1>7. ASSUME NEW e \in Dispatches
      PROVE  /\ status'[e] = IF e = a THEN "consumed" ELSE status[e]
             /\ decision'[e] = IF e = a THEN dec ELSE decision[e]
             /\ e # a => pc'[e] = pc[e] /\ grant'[e] = grant[e] /\ (e \in carries' <=> e \in carries)
             /\ live => pc'[a] = "granted" /\ grant'[a] = a /\ (a \in carries' <=> kind[a].bound)
             /\ ~live => pc'[a] = pc[a] /\ grant'[a] = grant[a] /\ a \notin carries'
  BY <1>1, <1>3, <1>4, <1>5, <1>6 DEF TypeOK
<1>8. PICK chosen \in Optional :
           /\ chosen # NoDispatch => Claimable(c[chosen])
           /\ cont' = [b \in Dispatches |-> IF b = chosen THEN Claimed(c[b], "recovery") ELSE c[b]]
           /\ \/ chosen = NoDispatch /\ UNCHANGED <<runner, inHand>>
              \/ /\ runner' = IF chosen = NoDispatch THEN "summary" ELSE "holding"
                 /\ inHand' = chosen
  BY AllowCases
<1>9. ASSUME NEW b \in Dispatches
      PROVE  /\ c[b] \in Rows
             /\ b # a \/ ~kind[a].bound => c[b] = cont[b]
             /\ b = a /\ kind[a].bound => /\ c[b].status = "pending" /\ c[b].lapsed = FALSE
                                          /\ Claimable(c[b])
  <2>1. cont[b] \in Rows /\ Enqueued \in Rows
    BY <1>1, EnqueuedRow DEF TypeOK
  <2>2. c[b] = IF b = a /\ kind[a].bound THEN Enqueued ELSE cont[b]
    BY <1>1 DEF TypeOK
  <2> QED BY <2>1, <2>2, EnqueuedRow
<1> HIDE DEF c
<1>10. ASSUME NEW b \in Dispatches
       PROVE  /\ cont'[b] \in Rows
              /\ b # chosen => cont'[b] = c[b]
              /\ b = chosen => /\ cont'[b].status = "claimed" /\ cont'[b].owner = "recovery"
                               /\ cont'[b].lapsed = FALSE /\ ~Claimable(cont'[b]) /\ Claimable(c[b])
  <2>1. CASE b = chosen
    <3> DEFINE n == Claimed(c[b], "recovery")
    <3>1. n \in Rows /\ n.status = "claimed" /\ n.owner = "recovery" /\ n.lapsed = FALSE /\ ~Claimable(n)
      BY <1>9, ClaimedRow
    <3>2. cont'[b] = n /\ b # NoDispatch
      BY <1>8, <2>1, ConstantsAssumption
    <3> HIDE DEF n
    <3> QED BY <1>8, <2>1, <3>1, <3>2
  <2>2. CASE b # chosen
    BY <1>8, <1>9, <2>2
  <2> QED BY <2>1, <2>2
<1>11. ASSUME NEW b \in Dispatches
       PROVE  /\ b # a => (cont'[b].status # "none" <=> cont[b].status # "none")
              /\ cont'[a].status # "none" <=> kind[a].bound
              /\ cont'[b].lapsed => cont[b].lapsed
              /\ b # a => (Claimable(cont'[b]) => Claimable(cont[b]))
              /\ ~kind[a].bound => cont'[a] = cont[a] /\ chosen # a
  <2>1. c[a].status = "none" => ~Claimable(c[a])
    BY DEF Claimable
  <2>2. \A x \in Rows : Claimable(x) => x.status # "none"
    BY DEF Claimable
  <2> QED BY <1>4, <1>9, <1>10, <2>1, <2>2
<1>12. TypeOK'
  <2>1. cont' \in [Dispatches -> Rows]
    BY <1>8, <1>10
  <2>2. status' \in [Dispatches -> Statuses] /\ decision' \in [Dispatches -> Decisions]
    BY <1>1, <1>3 DEF TypeOK, Statuses, Decisions, Allowing
  <2>3. pc' \in [Dispatches -> Places] /\ grant' \in [Dispatches -> Optional] /\ carries' \subseteq Dispatches
    BY <1>1, <1>5, <1>6 DEF TypeOK, Places, Optional
  <2>4. waiter' \in [Runs -> Optional] /\ callback' \in [Runs -> Optional]
    BY <1>1, <1>2, <1>5, <1>6 DEF TypeOK, ForgetWaiter, Optional
  <2>5. runner' \in {"none", "summary", "exiting"} \union Holding /\ inHand' \in Optional
    BY <1>1, <1>8 DEF TypeOK, Holding
  <2> QED BY <1>1, <1>3, <2>1, <2>2, <2>3, <2>4, <2>5 DEF TypeOK
<1>13. RowsFollowCalls'
  BY <1>1, <1>3, <1>7 DEF RowsFollowCalls
<1>14. SpentWasAllowed'
  <2> SUFFICES ASSUME NEW b \in Dispatches
               PROVE  /\ status'[b] \in Approved \union {"consumed"} => decision'[b] \in Allowing
                      /\ cont'[b].status # "none" => status'[b] = "consumed"
                      /\ invocations[b] > 0 => status'[b] = "consumed"
                      /\ cont'[b].lapsed => lapses[b] > 0
    BY <1>3 DEF SpentWasAllowed
  <2> QED BY <1>1, <1>7, <1>11 DEF SpentWasAllowed
<1>15. GrantsAreSpent'
  <2>1. ASSUME NEW e \in Dispatches
        PROVE  /\ grant'[e] # NoDispatch => status'[grant'[e]] = "consumed"
               /\ pc'[e] \in {"granted", "executing"} => grant'[e] # NoDispatch
               /\ e \in carries' => grant'[e] = e /\ cont'[e].status # "none"
    <3>1. CASE e = a
      BY <1>1, <1>2, <1>3, <1>7, <1>11, <3>1 DEF GrantsAreSpent, TypeOK, Optional
    <3>2. CASE e # a
      BY <1>1, <1>7, <1>11, <3>2 DEF GrantsAreSpent, TypeOK, Optional
    <3> QED BY <3>1, <3>2
  <2>2. ASSUME NEW e \in Dispatches, NEW f \in Dispatches, grant'[e] = grant'[f],
               grant'[e] # NoDispatch, decision'[grant'[e]] = "allow_once"
        PROVE  e = f
    <3>1. CASE grant'[e] = a
      <4>1. ASSUME NEW g \in Dispatches, grant'[g] = a PROVE g = a
        BY <1>4, <1>7, <4>1
      <4> QED BY <2>2, <3>1, <4>1
    <3>2. CASE grant'[e] # a
      <4>1. grant'[e] = grant[e] /\ grant'[f] = grant[f]
        BY <1>7, <2>2, <3>2
      <4>2. grant[e] \in Dispatches
        BY <1>1, <2>2, <4>1 DEF TypeOK, Optional
      <4>3. decision'[grant[e]] = decision[grant[e]]
        BY <1>7, <3>2, <4>1, <4>2
      <4>4. grant[e] = grant[f] /\ grant[e] # NoDispatch /\ decision[grant[e]] = "allow_once"
        BY <2>2, <4>1, <4>3
      <4> QED BY <1>1, <4>4 DEF GrantsAreSpent
    <3> QED BY <3>1, <3>2
  <2> QED BY <2>1, <2>2 DEF GrantsAreSpent
<1>16. RunnerHolds'
  <2>1. CASE chosen = NoDispatch /\ UNCHANGED <<runner, inHand>>
    <3> SUFFICES ASSUME runner \in Holding PROVE inHand # NoDispatch /\ cont'[inHand].status # "none"
      BY <2>1 DEF RunnerHolds
    <3>1. inHand \in Dispatches /\ inHand # a /\ cont[inHand].status # "none"
      BY <1>1, <1>4 DEF RunnerHolds, TypeOK, Optional
    <3> QED BY <1>1, <1>11, <3>1 DEF RunnerHolds
  <2>2. CASE runner' = (IF chosen = NoDispatch THEN "summary" ELSE "holding") /\ inHand' = chosen
    BY <1>10, <2>2 DEF RunnerHolds, Holding, Optional
  <2> QED BY <1>8, <2>1, <2>2
<1>17. MapsLeadToWaiters'
  <2>1. waiter' = callback' /\ \A q \in Runs : callback'[q] = IF q = r /\ live THEN NoDispatch ELSE callback[q]
    BY <1>1, <1>2, <1>5, <1>6, ForgottenWaiter DEF MapsLeadToWaiters
  <2>2. ASSUME NEW q \in Runs, callback'[q] # NoDispatch
        PROVE  pc'[callback'[q]] = "waiting" /\ RunOf[callback'[q]] = q
    BY <1>1, <1>7, <2>1, <2>2 DEF MapsLeadToWaiters, TypeOK, Optional
  <2>3. ASSUME NEW e \in Dispatches, pc'[e] = "waiting"
        PROVE  callback'[RunOf[e]] = e \/ e \in displaced
    <3>1. RunOf[e] \in Runs /\ pc[e] = "waiting" /\ (live => e # a)
      BY <1>7, <2>3, ConstantsAssumption
    <3> QED BY <1>1, <1>5, <2>1, <3>1 DEF MapsLeadToWaiters
  <2>4. ASSUME NEW e \in Dispatches, pc'[e] \in {"waiting", "denied"}, cont'[e].status # "none"
        PROVE  e \in displaced
    <3>1. CASE e # a
      BY <1>1, <1>7, <1>11, <2>4, <3>1 DEF MapsLeadToWaiters
    <3>2. CASE e = a
      <4>1. ~live /\ pc[a] = "waiting"
        BY <1>3, <1>7, <2>4, <3>2
      <4>2. callback[r] # a
        BY <1>1, <1>2, <4>1 DEF LiveWaiter, MapsLeadToWaiters
      <4> QED BY <1>1, <3>2, <4>1, <4>2 DEF MapsLeadToWaiters
    <3> QED BY <3>1, <3>2
  <2> QED BY <1>3, <2>1, <2>2, <2>3, <2>4 DEF MapsLeadToWaiters
<1>18. ExecutorOwnsClaim'
  <2> SUFFICES ASSUME NEW b \in Dispatches, lapses[b] = 0
               PROVE  /\ HoldsLive(b)' => cont'[b].status = "claimed" /\ cont'[b].owner = "dispatcher"
                      /\ HoldsRecovery(b)' => cont'[b].status = "claimed" /\ cont'[b].owner = "recovery"
    BY <1>3 DEF ExecutorOwnsClaim
  <2>1. HoldsLive(b)' => HoldsLive(b)
    <3>1. \A e \in Dispatches : pc'[e] = "executing" => e # a
      BY <1>3, <1>7
    <3> QED BY <1>3, <1>7, <3>1 DEF HoldsLive, Claims
  <2>2. ASSUME HoldsLive(b)
        PROVE  cont'[b].status = "claimed" /\ cont'[b].owner = "dispatcher"
    <3>1. b # a /\ cont[b].status = "claimed" /\ cont[b].owner = "dispatcher" /\ ~cont[b].lapsed
      BY <1>1, <1>4, <2>2 DEF ExecutorOwnsClaim, SpentWasAllowed
    <3>2. c[b] = cont[b] /\ ~Claimable(c[b])
      BY <1>9, <3>1 DEF Claimable
    <3> QED BY <1>10, <3>1, <3>2
  <2>3. ASSUME HoldsRecovery(b)'
        PROVE  cont'[b].status = "claimed" /\ cont'[b].owner = "recovery"
    <3>1. CASE chosen = NoDispatch /\ UNCHANGED <<runner, inHand>>
      <4>1. HoldsRecovery(b) /\ b # chosen
        BY <2>3, <3>1, ConstantsAssumption DEF HoldsRecovery
      <4>2. b # a /\ cont'[b] = cont[b]
        BY <1>4, <1>9, <1>10, <4>1
      <4> QED BY <1>1, <4>1, <4>2 DEF ExecutorOwnsClaim
    <3>2. CASE runner' = (IF chosen = NoDispatch THEN "summary" ELSE "holding") /\ inHand' = chosen
      BY <1>10, <2>3, <3>2 DEF HoldsRecovery
    <3> QED BY <1>8, <3>1, <3>2
  <2> QED BY <2>1, <2>2, <2>3
<1>19. Budget'
  <2> SUFFICES ASSUME NEW b \in Dispatches, decision'[b] = "allow_once"
               PROVE  invocations[b] + ClaimLeft(b)' + InHandLeft(b)' + GrantLeft(b)' + ReuseLeft(b)'
                        <= 1 + lapses[b] + Extra(b)'
    BY <1>3 DEF Budget
  <2>1. /\ Extra(b)' = Extra(b) /\ GrantLeft(b)' \in {0, 1} /\ ClaimLeft(b)' \in {0, 1}
        /\ InHandLeft(b)' \in {0, 1} /\ ReuseLeft(b)' \in {0, 1}
    BY <1>3 DEF Extra, GrantLeft, ClaimLeft, InHandLeft, ReuseLeft
  <2>2. CASE b = a
    <3>1. ReuseLeft(b)' = 0
      BY <1>7, <2>2 DEF ReuseLeft, Approved
    <3>2. ClaimLeft(b)' + InHandLeft(b)' <= IF kind[a].bound THEN 1 ELSE 0
      <4>1. CASE b = chosen
        <5>1. kind[a].bound
          BY <1>11, <2>2, <4>1
        <5>2. ClaimLeft(b)' = 0
          BY <1>10, <4>1 DEF ClaimLeft
        <5> QED BY <2>1, <5>1, <5>2
      <4>2. CASE b # chosen
        <5>1. InHandLeft(b)' = 0
          BY <1>4, <1>8, <2>2, <4>2 DEF InHandLeft, HoldsRecovery, Holding
        <5>2. ~kind[a].bound => ClaimLeft(b)' = 0
          BY <1>4, <1>11, <2>2 DEF ClaimLeft, Claimable
        <5> QED BY <2>1, <5>1, <5>2
      <4> QED BY <4>1, <4>2
    <3>3. GrantLeft(b)' = 1 => ~kind[a].bound \/ Extra(b) = 1
      <4> SUFFICES ASSUME NEW e \in Dispatches, grant'[e] = a, ~Claims(e)', kind[a].bound
                   PROVE  Extra(b) = 1
        BY <2>2 DEF GrantLeft
      <4>1. e = a /\ a \in carries'
        BY <1>4, <1>7
      <4> QED BY <1>3, <2>2, <4>1 DEF Claims, Extra
    <3> QED BY <1>1, <1>4, <2>1, <2>2, <3>1, <3>2, <3>3, BudgetNumbers
  <2>3. CASE b # a
    <3>1. ReuseLeft(b)' = ReuseLeft(b)
      BY <1>7, <2>3 DEF ReuseLeft
    <3>2. GrantLeft(b)' <= GrantLeft(b)
      <4>1. ASSUME NEW e \in Dispatches, pc'[e] = "granted", grant'[e] = b, ~Claims(e)'
            PROVE  pc[e] = "granted" /\ grant[e] = b /\ ~Claims(e)
        BY <1>3, <1>7, <2>3, <4>1 DEF Claims
      <4> QED BY <4>1 DEF GrantLeft
    <3>3. ClaimLeft(b)' + InHandLeft(b)' <= ClaimLeft(b) + InHandLeft(b)
      <4>1. CASE b = chosen
        <5>1. ClaimLeft(b)' = 0 /\ ClaimLeft(b) = 1
          BY <1>9, <1>10, <2>3, <4>1 DEF ClaimLeft
        <5> QED BY <1>1, <2>1, <5>1, BudgetNumbers
      <4>2. CASE b # chosen
        <5>1. InHandLeft(b)' <= InHandLeft(b)
          BY <1>8, <4>2 DEF InHandLeft
        <5>2. ClaimLeft(b)' <= ClaimLeft(b)
          BY <1>11, <2>3 DEF ClaimLeft
        <5> QED BY <1>1, <2>1, <5>1, <5>2, BudgetNumbers
      <4> QED BY <4>1, <4>2
    <3> QED BY <1>1, <1>7, <2>1, <2>3, <3>1, <3>2, <3>3, BudgetNumbers DEF Budget
  <2> QED BY <2>2, <2>3
<1> QED BY <1>12, <1>13, <1>14, <1>15, <1>16, <1>17, <1>18, <1>19 DEF ApprovalInv

-----------------------------------------------------------------------------
\* The invariant holds throughout, and what follows from it.

\* Every step keeps the invariant.
LEMMA InvStep ==
  ASSUME ApprovalInv, [Next]_vars
  PROVE  ApprovalInv'
<1>1. ASSUME NEW d \in Dispatches,
             RequestStep(d) \/ DecisionStep(d) \/ Timeout(d) \/ DispatchStep(d) \/ ExpiryPasses(d) \/ LeaseLapses(d)
      PROVE  ApprovalInv'
  <2>1. CASE RequestStep(d)
    BY <2>1, AskKeepsInv, RegistrySteps, ReuseKeepsInv DEF RequestStep
  <2>2. CASE DecisionStep(d)
    BY <2>2, DenyKeepsInv, AllowKeepsInv, RegistrySteps DEF DecisionStep
  <2>3. CASE DispatchStep(d)
    BY <2>3, QuietKeepsInv, ExecuteKeepsInv, ReturnKeepsInv DEF DispatchStep
  <2>4. CASE Timeout(d) \/ ExpiryPasses(d) \/ LeaseLapses(d)
    BY <2>4, TimeoutKeepsInv, QuietKeepsInv, LapseKeepsInv
  <2> QED BY <1>1, <2>1, <2>2, <2>3, <2>4
<1>2. CASE UNCHANGED vars
  <2>1. UNCHANGED <<kind, status, decision, late, cont, lapses, pc, grant, carries, waiter, callback,
                    displaced, runner, inHand, stopped, up, invocations>>
    BY <1>2 DEF vars, registry, queue, dispatch, waiters, supervisor, process
  <2>2. TypeOK' /\ RowsFollowCalls' /\ SpentWasAllowed'
    BY <2>1 DEF ApprovalInv, TypeOK, RowsFollowCalls, SpentWasAllowed
  <2>3. GrantsAreSpent' /\ RunnerHolds' /\ MapsLeadToWaiters'
    BY <2>1 DEF ApprovalInv, GrantsAreSpent, RunnerHolds, MapsLeadToWaiters
  <2>4. ExecutorOwnsClaim'
    BY <2>1 DEF ApprovalInv, ExecutorOwnsClaim, HoldsLive, HoldsRecovery, Claims
  <2>5. Budget'
    BY <2>1 DEF ApprovalInv, Budget, ClaimLeft, InHandLeft, GrantLeft, ReuseLeft, Extra, Claims
  <2> QED BY <2>2, <2>3, <2>4, <2>5 DEF ApprovalInv
<1> QED BY <1>1, <1>2, AbortKeepsInv, RunEndsKeepsInv, RunnerKeepsInv, QuietKeepsInv, ProcessEndsKeepsInv, RestartKeepsInv
        DEF Next

\* The inductive invariant holds throughout.
LEMMA Invariance == Spec => []ApprovalInv
BY InitInv, InvStep, PTL DEF Spec

\* A tool runs on an approval only if the row was allowed and spent, for any
\* calls, runs and outages.
THEOREM ApprovalPrecedesUse == Spec => []OnlyAllowedCallsRun
<1>1. ApprovalInv => OnlyAllowedCallsRun
  BY DEF ApprovalInv, SpentWasAllowed, OnlyAllowedCallsRun
<1> QED BY <1>1, Invariance, PTL

\* An allow_once decision pays for one invocation, and for one more per lapsed
\* lease and for the live run of an artifact delivery.
THEOREM AllowOncePaysOnce == Spec => []AllowOnceRunsOnce
<1>1. ApprovalInv => AllowOnceRunsOnce
  <2> SUFFICES ASSUME ApprovalInv, NEW a \in Dispatches, decision[a] = "allow_once"
               PROVE  invocations[a] <= 1 + lapses[a] + (IF kind[a].delivery THEN 1 ELSE 0)
    BY DEF AllowOnceRunsOnce
  <2>1. TypeOK /\ Extra(a) = IF kind[a].delivery THEN 1 ELSE 0
    BY DEF ApprovalInv, Extra
  <2> QED BY <2>1, BudgetNumbers DEF ApprovalInv, Budget
<1> QED BY <1>1, Invariance, PTL

\* While no lease lapsed, the live call and the recovery runner never hold the
\* same continuation, and neither loses its claim.
THEOREM ClaimsAreExclusive == Spec => []ExecutorOwnsClaim
<1>1. ApprovalInv => ExecutorOwnsClaim
  BY DEF ApprovalInv
<1> QED BY <1>1, Invariance, PTL

\* A call that is told "denied" after its request was allowed had lost its place
\* in the maps to another call of the run or to the end of the run.
THEOREM LostGrantsWereDisplaced == Spec => []LostGrantMeansDisplaced
<1>1. ApprovalInv => LostGrantMeansDisplaced
  BY DEF ApprovalInv, MapsLeadToWaiters, LostGrantMeansDisplaced
<1> QED BY <1>1, Invariance, PTL

\* The closed statuses of a row.
Closed == {"denied", "expired", "superseded", "consumed"}

\* Draining leaves settled rows alone.
LEMMA DrainKeepsSettled ==
  ASSUME NEW c \in [Dispatches -> Rows], NEW halted \in BOOLEAN, Drain(c, halted),
         NEW a \in Dispatches, c[a].status \in Terminal
  PROVE  cont'[a].status = c[a].status
<1>1. PICK chosen \in Optional :
        /\ chosen # NoDispatch => Claimable(c[chosen])
        /\ cont' = [b \in Dispatches |-> IF b = chosen THEN Claimed(c[b], "recovery") ELSE c[b]]
  BY DrainCases
<1>2. ~Claimable(c[a]) /\ a # NoDispatch
  BY ConstantsAssumption DEF Claimable, Terminal
<1> QED BY <1>1, <1>2

\* No step changes the status of a settled continuation.
LEMMA SettledStaysSettled ==
  ASSUME ApprovalInv, Next, NEW a \in Dispatches, cont[a].status \in Terminal
  PROVE  cont'[a].status = cont[a].status
<1>1. cont \in [Dispatches -> Rows] /\ stopped \in BOOLEAN
  BY DEF ApprovalInv, TypeOK
<1>2. ASSUME NEW c \in [Dispatches -> Rows], c[a].status = cont[a].status,
             NEW halted \in BOOLEAN, Drain(c, halted)
      PROVE  cont'[a].status = cont[a].status
  BY <1>2, DrainKeepsSettled
<1>3. ASSUME runner \in Holding, NEW outcome \in Terminal, Settles(outcome)
      PROVE  cont'[a].status = cont[a].status
  <2> DEFINE c == [cont EXCEPT ![inHand] = Settled(@, "recovery", outcome)]
  <2>1. c \in [Dispatches -> Rows]
    BY <1>3, SettleTames
  <2>2. c[a].status = cont[a].status
    BY <1>1 DEF Settled, Terminal
  <2>3. Drain(c, stopped)
    BY <1>3 DEF Settles
  <2> HIDE DEF c
  <2> QED BY <1>1, <1>2, <2>1, <2>2, <2>3
<1>4. ASSUME NEW c \in [Dispatches -> Rows], c[a].status = cont[a].status,
             NEW there, ContinueOr(c, there)
      PROVE  cont'[a].status = cont[a].status
  BY <1>2, <1>4 DEF ContinueOr
<1>5. CASE RunnerStep
  <2>1. CASE AdapterBlocks \/ AdapterReturns \/ HandOff
    BY <1>3, <2>1 DEF AdapterBlocks, AdapterReturns, HandOff, Holding, Terminal
  <2>2. CASE AdapterInvokes
    BY <2>2 DEF AdapterInvokes, queue
  <2>3. CASE PassThrows
    <3>1. Disowned(cont, {"recovery"}) \in [Dispatches -> Rows]
          /\ Disowned(cont, {"recovery"})[a].status = cont[a].status
      BY <1>1, DisownedRows
    <3> QED BY <1>4, <2>3, <3>1 DEF PassThrows
  <2>4. CASE PassEnds \/ RunnerExits
    BY <1>1, <1>4, <2>4 DEF PassEnds, RunnerExits
  <2> QED BY <1>5, <2>1, <2>2, <2>3, <2>4 DEF RunnerStep
<1>6. CASE Stop
  BY <1>6 DEF Stop, queue
<1>7. CASE Crash \/ Shutdown
  BY <1>1, <1>7, DisownedRows DEF Crash, Shutdown, ProcessEnds
<1>8. CASE Restart
  BY <1>1, <1>2, <1>8 DEF Restart
<1>9. ASSUME NEW r \in Runs, Abort(r) \/ RunEnds(r) PROVE cont'[a].status = cont[a].status
  BY <1>9 DEF Abort, RunEnds, queue
<1>10. ASSUME NEW d \in Dispatches,
              RequestStep(d) \/ DecisionStep(d) \/ Timeout(d) \/ DispatchStep(d) \/ ExpiryPasses(d) \/ LeaseLapses(d)
       PROVE  cont'[a].status = cont[a].status
  <2>1. CASE RequestStep(d) \/ Timeout(d) \/ ExpiryPasses(d)
    BY <2>1 DEF RequestStep, Ask, AskRefused, Reuse, Timeout, ExpiryPasses, queue
  <2>2. CASE LeaseLapses(d)
    BY <1>1, <2>2 DEF LeaseLapses, Terminal, Rows
  <2>3. CASE DispatchStep(d)
    <3>1. CASE PolicyDenies(d) \/ ClaimRejected(d)
      BY <3>1 DEF PolicyDenies, ClaimRejected, queue
    <3>2. CASE Execute(d)
      <4>1. Claims(d) => grant[d] # a
        BY <3>2 DEF Execute, Claimable, Terminal
      <4> QED BY <1>1, <3>2, <4>1 DEF Execute
    <3>3. CASE Return(d)
      <4>1. Settled(cont[a], "dispatcher", "completed") = cont[a]
        BY DEF Settled, Terminal
      <4> QED BY <1>1, <3>3, <4>1 DEF Return
    <3> QED BY <2>3, <3>1, <3>2, <3>3 DEF DispatchStep
  <2>4. CASE Deny(d) \/ (\E dec \in Allowing \union {"deny"} : DecideInRegistry(d, dec))
             \/ (\E dec \in Allowing : GrantInAdvance(d, dec))
    BY <2>4 DEF Deny, DecideInRegistry, GrantInAdvance, queue
  <2>5. ASSUME NEW dec \in Allowing, Allow(d, dec) PROVE cont'[a].status = cont[a].status
    <3> DEFINE c == IF kind[d].bound THEN [cont EXCEPT ![d] = Enqueued] ELSE cont
    <3>1. status[d] # "consumed" /\ status[a] = "consumed"
      BY <2>5 DEF Allow, Open, ApprovalInv, SpentWasAllowed, Terminal
    <3>2. c[a] = cont[a]
      BY <1>1, <3>1
    <3>3. PICK chosen \in Optional :
            /\ chosen # NoDispatch => Claimable(c[chosen])
            /\ cont' = [b \in Dispatches |-> IF b = chosen THEN Claimed(c[b], "recovery") ELSE c[b]]
      BY <2>5, AllowCases
    <3>4. ~Claimable(c[a]) /\ a # NoDispatch
      BY <3>2, ConstantsAssumption DEF Claimable, Terminal
    <3> HIDE DEF c
    <3> QED BY <3>2, <3>3, <3>4
  <2> QED BY <1>10, <2>1, <2>2, <2>3, <2>4, <2>5 DEF DecisionStep
<1> QED BY <1>5, <1>6, <1>7, <1>8, <1>9, <1>10 DEF Next

\* No step changes the status of a closed row.
LEMMA ClosedStaysClosed ==
  ASSUME ApprovalInv, Next, NEW a \in Dispatches, status[a] \in Closed
  PROVE  status'[a] = status[a]
<1>1. TypeOK /\ RowsFollowCalls
  BY DEF ApprovalInv
<1>2. status[a] # "requested" /\ status[a] # "none" /\ status[a] \notin Approved
  BY DEF Closed, Approved
<1>3. Dismissed(a) = status[a] /\ Expired(status[a]) = status[a]
  BY <1>2 DEF Dismissed, Expired
<1>4. CASE RunnerStep \/ Stop \/ Crash \/ Shutdown \/ Restart
  BY <1>4 DEF RunnerStep, AdapterBlocks, AdapterInvokes, AdapterReturns, HandOff, PassThrows, PassEnds,
              RunnerExits, Stop, Crash, Shutdown, ProcessEnds, Restart, registry
<1>5. ASSUME NEW r \in Runs, Abort(r) \/ RunEnds(r) PROVE status'[a] = status[a]
  BY <1>3, <1>5 DEF Abort, RunEnds, registry
<1>6. ASSUME NEW d \in Dispatches,
             RequestStep(d) \/ DecisionStep(d) \/ Timeout(d) \/ DispatchStep(d) \/ ExpiryPasses(d) \/ LeaseLapses(d)
      PROVE  status'[a] = status[a]
  <2>1. CASE Ask(d) \/ AskRefused(d)
    <3>1. d # a
      BY <1>1, <1>2, <2>1 DEF Ask, AskRefused, RowsFollowCalls
    <3>2. ~Superseded(a, d)
      BY <1>2 DEF Superseded
    <3> QED BY <2>1, <3>1, <3>2 DEF Ask, AskRefused
  <2>2. ASSUME NEW x \in Dispatches, Reuse(d, x) PROVE status'[a] = status[a]
    BY <1>1, <1>2, <2>2 DEF Reuse, Reusable, TypeOK
  <2>3. CASE Deny(d)
    BY <1>2, <1>3, <2>3 DEF Deny, Open
  <2>4. ASSUME NEW dec \in Allowing, Allow(d, dec) PROVE status'[a] = status[a]
    BY <1>1, <1>2, <2>4 DEF Allow, Open, TypeOK
  <2>5. ASSUME NEW dec, DecideInRegistry(d, dec) PROVE status'[a] = status[a]
    BY <1>1, <1>2, <2>5 DEF DecideInRegistry, TypeOK
  <2>6. ASSUME NEW dec, GrantInAdvance(d, dec) PROVE status'[a] = status[a]
    BY <1>1, <1>2, <2>6 DEF GrantInAdvance, RowsFollowCalls, TypeOK
  <2>7. CASE Timeout(d)
    BY <1>3, <2>7 DEF Timeout
  <2>8. CASE DispatchStep(d) \/ ExpiryPasses(d) \/ LeaseLapses(d)
    BY <2>8 DEF DispatchStep, PolicyDenies, Execute, ClaimRejected, Return, ExpiryPasses, LeaseLapses, registry
  <2> QED BY <1>6, <2>1, <2>2, <2>3, <2>4, <2>5, <2>6, <2>7, <2>8 DEF RequestStep, DecisionStep
<1> QED BY <1>4, <1>5, <1>6 DEF Next

\* A closed row and a settled continuation keep their outcome, whatever timer,
\* stale owner or late answer comes after.
THEOREM OutcomesStay == Spec => OutcomesAreFinal
<1>1. ASSUME ApprovalInv, [Next]_vars
      PROVE  [\A a \in Dispatches :
                /\ status[a] \in {"denied", "expired", "superseded", "consumed"} => status'[a] = status[a]
                /\ cont[a].status \in Terminal => cont'[a].status = cont[a].status]_vars
  BY <1>1, ClosedStaysClosed, SettledStaysSettled DEF Closed
<1> QED BY <1>1, Invariance, PTL DEF Spec, OutcomesAreFinal
=============================================================================
