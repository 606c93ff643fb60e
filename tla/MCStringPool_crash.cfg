SPECIFICATION Spec
CONSTANTS
  Threads = {p1, p2}
  Strings <- SomeStrings
  PoolBytes = 20
  MaxCalls = 2
INVARIANTS
  CrashKeepsStrings
CHECK_DEADLOCK FALSE
