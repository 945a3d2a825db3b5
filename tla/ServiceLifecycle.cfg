SPECIFICATION FairSpec
CONSTANTS
  c1 = c1
  c2 = c2
  Conns = {c1, c2}
  Link = Link
  Nobody = Nobody
INVARIANTS
  TypeOK
  CoreServesSources
PROPERTIES
  StopHonoured
  NoRequestAfterClose
CHECK_DEADLOCK FALSE
