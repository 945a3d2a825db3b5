SPECIFICATION DaemonSpec
CONSTANTS
  MaxOps = 3
  MaxFaults = 1
INVARIANT UninstallStops
CHECK_DEADLOCK FALSE
