------------------------ MODULE MCApprovalContinuation ------------------------
(***************************************************************************)
(* Instances of ApprovalContinuation: two calls of one run, in the pairs of *)
(* kinds that meet differently: the same call twice, the same tool with     *)
(* other parameters, a screen confirmation without a time limit, a call     *)
(* that leaves no continuation, an artifact delivery.                       *)
(***************************************************************************)
EXTENDS ApprovalContinuation

CONSTANTS r1, d1, d2

OneRun == [d \in Dispatches |-> r1]

Camera(p) == [tool |-> "yeonjang_camera_capture", params |-> p, bound |-> TRUE, timed |-> TRUE, delivery |-> FALSE]
Delivery == [tool |-> "telegram_send_file", params |-> "p", bound |-> TRUE, timed |-> TRUE, delivery |-> TRUE]
Shell == [tool |-> "shell_exec", params |-> "p", bound |-> FALSE, timed |-> TRUE, delivery |-> FALSE]
Click == [tool |-> "mouse_click", params |-> "p", bound |-> TRUE, timed |-> FALSE, delivery |-> FALSE]

Pair(a, b) == [d \in Dispatches |-> IF d = d1 THEN a ELSE b]

Pairs == {Pair(Camera("p"), Camera("p")), Pair(Camera("p"), Camera("q")),
          Pair(Click, Click), Pair(Click, Shell), Pair(Shell, Delivery)}
TwoCameras == {Pair(Camera("p"), Camera("q"))}
CameraAndDelivery == {Pair(Camera("p"), Delivery)}
OnlyDeliveries == {Pair(Delivery, Delivery)}
=============================================================================
