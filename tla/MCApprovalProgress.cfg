CONSTANTS
  Dispatches = {d1, d2}
  NoDispatch = NoDispatch
  r1 = r1
  Runs = {r1}
  RunOf <- OneRun
  Assignments <- TwoCameras
  MaxLapses = 0
  MaxOutages = 1
  d1 = d1
  d2 = d2
SPECIFICATION FairSpec
PROPERTY UnattendedIsTaken
PROPERTY TimedWaitEnds
CHECK_DEADLOCK FALSE
