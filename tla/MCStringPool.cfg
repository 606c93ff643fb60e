SPECIFICATION FairSpec
CONSTANTS
  Threads = {p1, p2}
  Strings <- SomeStrings
  PoolBytes = 20
  MaxCalls = 2
INVARIANTS
  ReservationsDisjoint
  InternedIntact
  WalkSoundBelowHoles
  PoolInv
PROPERTIES
  InternReturns
CHECK_DEADLOCK FALSE
