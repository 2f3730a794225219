CONSTANTS
  c1 = c1
  c2 = c2
  r1 = r1
  r2 = r2
  r3 = r3
  x1 = x1
  x2 = x2
  Calls = {c1, c2}
  Requests = {r1, r2, r3}
  Cancels = {x1}
  None = None
  MayDeliver <- MCMayDeliver
  KeyOf <- MCKeyOf
  CommandOf <- MCCommandOf
  ResourceOf <- MCResourceOf
  ExpiresAt <- MCExpiresAt
  Budgeted <- MCBudgeted
  Heeding <- MCHeeding
  IdOf <- MCIdOf
  TargetOf <- MCTargetOf
  Exact = {x1}
  MaxInFlight = 1
  CompletedCapacity = 2
  RecordCapacity = 2
  ReceiptCapacity = 2
  TombstoneCapacity = 1
  MaxNow = 0
  MaxCrashes = 0
  MaxFaults = 0
SPECIFICATION Spec
INVARIANT EntryHasOwner
CHECK_DEADLOCK FALSE
