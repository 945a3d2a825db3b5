SPECIFICATION Spec
CONSTANTS
  Callers = {"c1", "c2"}
  MaxCalls = 1
  MaxCuts = 2
  Tasks = {"t", "u"}
  Reqs = {"r", "s"}
  Workers = 1
  Ends = {"completed"}
  IdLists <- SmallIdLists
  Writers = {"w1", "w2"}
  Keys = {"a.b", "A_B", "C"}
  Fields = {"profile"}
  Values = {"v1"}
  Name <- SmallName
  EnvKeys = {}
  MaxEdits = 1
  MaxOps = 3
  MaxFaults = 1
  PluginDirs = {"e1", "e2"}
  PluginOf <- SmallPluginOf
  Versions = {"v1", "v2"}
  Selected = {"p"}
  Loaders = {"l1", "l2"}
  MaxUpgrades = 2
  MaxCrashes = 1
  AbiHandles = {"h1", "h2"}
  QueueLimit <- SmallQueues
  PoolSize <- SmallPools
  MaxRequests = 4
  Sources = {"a", "b"}
  KeyOrder <- SmallOrder
  QueueCap = 2
  HeaderLen = 4
  LenBits = 5
  ByteBits = 3
  Brace = 6
INVARIANTS
  HostTypeOK
  RetryBounded
  AnswerOwnOrExpired
  WaitTruthful
  NoLostCompletion
  AcknowledgedChangeKept
  TokenAgreement
  UninstallStopsUnlessIgnored
  StagedArtifactVerified
  MappedFileKept
  PluginClosedOnce
  StatusTruthful
  RestartAfterSignal
  DownMeansAborted
PROPERTIES
  ClientCallEnds
  TaskRequestEnds
  ShutdownEnds
CHECK_DEADLOCK FALSE
