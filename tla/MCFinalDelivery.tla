-------------------------- MODULE MCFinalDelivery --------------------------
(***************************************************************************)
(* One run, the driver's attempt and a replay of its response, a chunk of    *)
(* progress, and two chunks of other sessions for the one slot and place of *)
(* "delivery" queue: the fewest with which a chunk waits or is refused.     *)
(***************************************************************************)
EXTENDS FinalDelivery

CONSTANTS r1, p1, g1, o1, o2, k1

AllTasks == (Attempts \X Chunks) \union Progress
SameSession == [t \in Tasks |-> k1]
=============================================================================
