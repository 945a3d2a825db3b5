SPECIFICATION Spec
CONSTANTS
  p1 = p1
  p2 = p2
  c1 = c1
  c2 = c2
  Plugins = {p1, p2}
  Candidates <- TwoCandidates
  SurfaceDiffers <- P2AbiDiffers
  MaxGeneration = 2
  Missing = Missing
  Garbled = Garbled
  NoCore = NoCore
  Conns = {c1, c2}
INVARIANT CatalogMatchesCore
CHECK_DEADLOCK FALSE
