----------------------------- MODULE EffectOnce -----------------------------
(***************************************************************************)
(* What the side-effect ledger promises of one external operation per       *)
(* scope, without saying how: its effect is launched at most once; it is    *)
(* cancelled only if it was never launched; only a launched operation gets  *)
(* an outcome, and an outcome is final.                                     *)
(***************************************************************************)
EXTENDS Naturals

CONSTANT Scopes

VARIABLES launches, outcome

vars == <<launches, outcome>>

Settled == {"VERIFIED", "COMPENSATED", "MANUAL_INTERVENTION", "EFFECT_REJECTED"}

Init ==
  /\ launches = [s \in Scopes |-> 0]
  /\ outcome = [s \in Scopes |-> "OPEN"]

Launch(s) ==
  /\ outcome[s] = "OPEN" /\ launches[s] = 0
  /\ launches' = [launches EXCEPT ![s] = 1]
  /\ UNCHANGED outcome

Cancel(s) ==
  /\ outcome[s] = "OPEN" /\ launches[s] = 0
  /\ outcome' = [outcome EXCEPT ![s] = "CANCELLED"]
  /\ UNCHANGED launches

Settle(s, o) ==
  /\ outcome[s] = "OPEN" /\ launches[s] = 1
  /\ outcome' = [outcome EXCEPT ![s] = o]
  /\ UNCHANGED launches

Next == \E s \in Scopes : Launch(s) \/ Cancel(s) \/ \E o \in Settled : Settle(s, o)

Spec == Init /\ [][Next]_vars
=============================================================================
