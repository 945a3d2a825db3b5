SPECIFICATION FairSpec
CONSTANTS
  r1 = r1
  r2 = r2
  Requests = {r1, r2}
  Mutating = {r1}
  NoRequest = NoRequest
  MaxInFlight = 1
  WireCap = 1
INVARIANTS
  TypeOK
  WaiterReachable
  PermitsConserved
  ProtocolFailureExplained
PROPERTIES
  CallReturns
  DrainReleasesStream
CHECK_DEADLOCK FALSE
