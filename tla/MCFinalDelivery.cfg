CONSTANTS
  r1 = r1
  p1 = p1
  g1 = g1
  o1 = o1
  o2 = o2
  k1 = k1
  Runs = {r1}
  Replays = {p1}
  Progress = {g1}
  Others = {o1, o2}
  Tasks <- AllTasks
  NoTask = NoTask
  Keys = {k1}
  KeyOf <- SameSession
  Concurrency = 1
  MaxPending = 1
  MaxCrashes = 1
SPECIFICATION DeliveryFairSpec
INVARIANT SerialInOrder
INVARIANT EntryWhileBusy
INVARIANT SlotsAreExact
INVARIANT OneFinalPerRun
INVARIANT ClosedMeansArrived
PROPERTY ImplementsAnswerOnce
PROPERTY EveryFinalizationReturns
PROPERTY CommittedIsReported
CHECK_DEADLOCK FALSE
