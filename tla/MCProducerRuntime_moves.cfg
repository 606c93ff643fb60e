SPECIFICATION Spec
CONSTANTS
  Threads = {t1, t2}
  MaxProducers = 2
  Usages = {"moves"}
  MaxGeneration <- SomeGenerations
  LastRegion <- SomeRegions
INVARIANTS
  SoleWriter
CHECK_DEADLOCK FALSE
