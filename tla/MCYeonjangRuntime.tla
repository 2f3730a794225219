------------------------- MODULE MCYeonjangRuntime -------------------------
(***************************************************************************)
(* The second delivery repeats the first one's request, competes for its    *)
(* device, or reuses its idempotency key and command id under another       *)
(* authorization.  The first is a command without a time limit, the second  *)
(* one with a limit, the third an operation that has none and heeds no       *)
(* signal.                                                                  *)
(***************************************************************************)
EXTENDS YeonjangRuntime

CONSTANTS c1, c2, r1, r2, r3, x1, x2

MCMayDeliver == [c \in Calls |-> IF c = c1 THEN {r1} ELSE Requests]
MCKeyOf == [r \in Requests |-> IF r = r2 THEN "k2" ELSE "k1"]
MCCommandOf == [r \in Requests |-> IF r = r1 THEN "m1" ELSE "m2"]
MCResourceOf == [r \in Requests |-> "camera"]
MCExpiresAt == [r \in Requests |-> IF r = r1 THEN 0 ELSE 1]
MCBudgeted == {r2}
MCHeeding == {r1, r2}
MCIdOf == [x \in Cancels |-> "i1"]
MCTargetOf == [x \in Cancels |-> r1]
=============================================================================
