CONSTANTS
  c1 = c1
  c2 = c2
  ask = ask
  rephrased = rephrased
  other = other
  foreign = foreign
  Clients = {c1, c2}
  Ids = {ask, rephrased, other, foreign}
  AsksOf <- MCAsksOf
  ScopeOf <- MCScopeOf
  MeaningOf <- MCMeaningOf
  Near <- MCNear
  ExactTtl = 1
  SemanticTtl = 2
  LeaseTtl = 1
  Patience = 1
  MaxRequests = 3
  Faults = {"break", "invalidate"}
SPECIFICATION Spec
INVARIANTS
  TypeOK
  ServedFresh
  ServedSound
PROPERTIES
  FillSpec
  LeasesComeBack
  RequestsEnd
CHECK_DEADLOCK FALSE
