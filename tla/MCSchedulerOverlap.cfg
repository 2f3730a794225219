CONSTANTS
  CronTimes <- MCCronTimes
  MaxRetries = 1
  Schedules <- MCSchedules
  StartLimit = 1
  MaxTime = 2
  MaxManual = 1
  MaxCrashes = 1
SPECIFICATION Spec
INVARIANT FiringsAreSerial
CHECK_DEADLOCK FALSE
