SPECIFICATION FairSpec
CONSTANTS
  Tracks = {t1}
  RingWords = 8
  MaxEventWords = 4
  MaxWrites = 5
  Draining = TRUE
INVARIANTS
  CommittedIntact
  DrainedFaithful
  LossAccounted
  RingInv
PROPERTIES
  LoggedSpec
  WriteReturns
  EventuallyDrained
CHECK_DEADLOCK FALSE
