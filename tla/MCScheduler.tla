---------------------------- MODULE MCScheduler ----------------------------
(* Scheduler over three minutes with an occurrence in the second and third: *)
(* a run may be on time, or late for one occurrence or for both.             *)
EXTENDS Scheduler

MCCronTimes == {1, 2}

\* Every payload, with a target of every kind it treats differently.
MCSchedules ==
  {<<"literal", "slack">>, <<"task", "telegram">>, <<"task", "internal">>,
   <<"canonical", "telegram">>, <<"canonical", "slack">>}
=============================================================================
