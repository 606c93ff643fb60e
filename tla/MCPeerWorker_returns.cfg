SPECIFICATION FairSpec
CONSTANTS
  LastSample = 2
  LastRuntime = 2
  MetricsFail = FALSE
  Garbles = FALSE
  SinkReports = TRUE
INVARIANTS
  Retargeted
  OkIsComplete
PROPERTIES
  RunPeerReturns
CHECK_DEADLOCK FALSE
