SPECIFICATION Spec
CONSTANTS
  LastSample = 2
  LastRuntime = 1
  MetricsFail = TRUE
  Garbles = FALSE
  SinkReports = FALSE
INVARIANTS
  Retargeted
CHECK_DEADLOCK FALSE
