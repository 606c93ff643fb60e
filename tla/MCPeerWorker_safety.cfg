SPECIFICATION HarnessFairSpec
CONSTANTS
  LastSample = 2
  LastRuntime = 2
  MetricsFail = TRUE
  Garbles = TRUE
  SinkReports = FALSE
INVARIANTS
  OwnEventsOnly
  ReadAfterUse
  SuccessWasAnswered
  WorkerInv
PROPERTIES
  ResultFinal
  SamplesSpec
  CloseReturns
CHECK_DEADLOCK FALSE
