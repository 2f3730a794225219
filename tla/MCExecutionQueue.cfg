CONSTANTS
  r4 = r4
  g1 = g1
  g2 = g2
  Runs = {r1, r2, r3, r4}
  NoRun = NoRun
  Groups = {g1, g2}
  GroupOf <- ThreeAndOne
  MaxPending = 1
SPECIFICATION FairSpec
INVARIANT OutstandingIsExact
PROPERTY ImplementsSerialQueue
PROPERTY AdmittedIsReleased
CHECK_DEADLOCK FALSE
