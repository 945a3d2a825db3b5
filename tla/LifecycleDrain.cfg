SPECIFICATION FairSpec
CONSTANTS
  c1 = c1
  c2 = c2
  Conns = {c1, c2}
  Link = Link
  Nobody = Nobody
PROPERTY DrainedBeforeExit
CHECK_DEADLOCK FALSE
