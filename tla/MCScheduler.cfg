CONSTANTS
  CronTimes <- MCCronTimes
  MaxRetries = 1
  Schedules <- MCSchedules
  StartLimit = 1
  MaxTime = 2
  MaxManual = 1
  MaxCrashes = 1
SPECIFICATION TickingSpec
INVARIANTS
  OccurrencesMoveOn
  DeliveredOnce
  SuccessMeansSent
  OpenRowIsOwned
PROPERTY OccurrencesAreServed
CHECK_DEADLOCK FALSE
