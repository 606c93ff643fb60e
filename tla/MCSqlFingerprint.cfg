SPECIFICATION Spec
CONSTANTS
  Chars <- SomeChars
  Statements <- SomeStatements
  Environments <- SomeEnvironments
  OutCap = 5
  TokenCap = 4
INVARIANTS
  FingerprintCanonical
  ScanInv
PROPERTIES
  ScanReturns
CHECK_DEADLOCK FALSE
