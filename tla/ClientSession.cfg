SPECIFICATION ClientSpec
CONSTANTS
  Callers = {"c1", "c2"}
  MaxCalls = 1
  MaxCuts = 2
INVARIANT SessionConnected
CHECK_DEADLOCK FALSE
