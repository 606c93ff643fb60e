SPECIFICATION Spec
CONSTANTS
  Threads = {t1, t2}
  MaxProducers = 2
  Usages = {"resets", "detaches", "moves"}
  MaxGeneration <- SomeGenerations
  LastRegion <- SomeRegions
SYMMETRY AnyThread
VIEW WithoutLeftovers
CONSTRAINT FewEvents
INVARIANTS
  RuntimeInv
  EventsByOwner
  OneProducerPerTrack
  NoFault
PROPERTIES
  SlotLifecycle
CHECK_DEADLOCK FALSE
