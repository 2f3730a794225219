----------------------- MODULE MCSideEffectOperation -----------------------
(***************************************************************************)
(* One scope, so that every call contends for the same row: a dispatched    *)
(* call, a call of the continuation recovery with the same parameters, and  *)
(* a dispatched call that reuses the scope with other parameters, which its *)
(* policy receipt does not cover.                                           *)
(***************************************************************************)
EXTENDS SideEffectOperation

CONSTANTS c1, r1, x1, s1, p1, p2

MCScopeOf == [c \in Calls |-> s1]
MCParamsOf == [c \in Calls |-> IF c = x1 THEN p2 ELSE p1]
=============================================================================
