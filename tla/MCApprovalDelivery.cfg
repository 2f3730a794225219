CONSTANTS
  Dispatches = {d1}
  NoDispatch = NoDispatch
  r1 = r1
  Runs = {r1}
  RunOf <- OneRun
  Assignments <- OnlyDeliveries
  MaxLapses = 0
  MaxOutages = 0
  d1 = d1
  d2 = d2
SPECIFICATION Spec
INVARIANT ReturnedCallIsSettled
CHECK_DEADLOCK FALSE
