-------------------------- MODULE MCExecutionQueue --------------------------
(***************************************************************************)
(* Three runs of one group and one of another; one may wait.                *)
(***************************************************************************)
EXTENDS ExecutionQueue

CONSTANTS r4, g1, g2

ThreeAndOne == [r \in Runs |-> IF r = r4 THEN g2 ELSE g1]
=============================================================================
