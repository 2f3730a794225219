----------------------------- MODULE AnswerOnce -----------------------------
(***************************************************************************)
(* What the final delivery of a run promises, whatever queues, attempts,    *)
(* time-outs and crashes lie behind it: the provider is called with the     *)
(* answer once; only what it was called with arrives; only what arrived is  *)
(* reported; only what was reported is closed; and nothing is taken back.   *)
(*                                                                         *)
(* What is on the wire in a crash may arrive for several runs at once, and  *)
(* a restart may report several.                                            *)
(***************************************************************************)
EXTENDS Naturals

CONSTANT Runs

VARIABLES
  calls,        \* calls of the provider with the answer of a run
  arrived,      \* runs whose answer has reached the user
  reported,     \* runs whose delivery was reported
  closed        \* runs whose staged response was consumed

vars == <<calls, arrived, reported, closed>>

Init ==
  /\ calls = [r \in Runs |-> 0]
  /\ arrived = {} /\ reported = {} /\ closed = {}

Call(r) ==
  /\ calls[r] = 0
  /\ calls' = [calls EXCEPT ![r] = 1]
  /\ UNCHANGED <<arrived, reported, closed>>

Arrive(runs) ==
  /\ \A r \in runs : calls[r] = 1
  /\ arrived' = arrived \union runs
  /\ UNCHANGED <<calls, reported, closed>>

Report(runs) ==
  /\ runs \subseteq arrived
  /\ reported' = reported \union runs
  /\ UNCHANGED <<calls, arrived, closed>>

Close(r) ==
  /\ r \in reported
  /\ closed' = closed \union {r}
  /\ UNCHANGED <<calls, arrived, reported>>

Next ==
  \/ \E r \in Runs : Call(r) \/ Close(r)
  \/ \E runs \in SUBSET Runs : Arrive(runs) \/ Report(runs)

Spec == Init /\ [][Next]_vars
=============================================================================
