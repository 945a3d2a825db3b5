SPECIFICATION FairSpec
CONSTANTS
  a = a
  b = b
  s1 = s1
  s2 = s2
  Runners = {a, b}
  Specs = {s1, s2}
  NoSpec = NoSpec
  NoRunner = NoRunner
INVARIANTS
  TypeOK
  EveryProcessOwned
PROPERTIES
  ReconcileLeavesOnlyDesired
  ShutdownLeavesNoProcess
  OperationEnds
