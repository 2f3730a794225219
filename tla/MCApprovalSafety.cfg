CONSTANTS
  Dispatches = {d1, d2}
  NoDispatch = NoDispatch
  r1 = r1
  Runs = {r1}
  RunOf <- OneRun
  Assignments <- Pairs
  MaxLapses = 1
  MaxOutages = 1
  d1 = d1
  d2 = d2
SPECIFICATION Spec
INVARIANT OnlyAllowedCallsRun
INVARIANT AllowOnceRunsOnce
INVARIANT LostGrantMeansDisplaced
INVARIANT ExecutorOwnsClaim
PROPERTY OutcomesAreFinal
CHECK_DEADLOCK FALSE
