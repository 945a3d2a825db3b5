SPECIFICATION FairSpec
CONSTANTS
  r1 = r1
  r2 = r2
  Requests = {r1, r2}
  Mutating = {r1, r2}
  NoRequest = NoRequest
  MaxInFlight = 2
  WireCap = 1
PROPERTY MutatingOrdered
CHECK_DEADLOCK FALSE
