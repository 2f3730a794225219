CONSTANTS
  c1 = c1
  r1 = r1
  x1 = x1
  s1 = s1
  p1 = p1
  p2 = p2
  Calls = {c1, r1, x1}
  Scopes = {s1}
  Params = {p1, p2}
  NoParams = NoParams
  NoCall = NoCall
  ScopeOf <- MCScopeOf
  ParamsOf <- MCParamsOf
  Recovering = {r1}
  Authorized = {c1, r1}
SPECIFICATION FairSpec
INVARIANTS
  TypeOK
  AtMostOneEffect
  LedgerMatchesWorld
  CancelledMeansUntouched
  AnswersMatchLedger
  UnknownEffectStaysOpen
PROPERTIES
  ImplementsEffectOnce
  EveryCallReturns
  RecordedEffectIsSettled
CHECK_DEADLOCK FALSE
