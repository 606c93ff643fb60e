SPECIFICATION RSpec
CONSTANTS
  Tracks = {t1, t2}
  RingWords = 4
  MaxEventWords = 3
  MaxWrites = 3
  Draining = FALSE
  FieldRange = 8192
  Layouts <- SomeLayouts
SYMMETRY TrackSymmetry
INVARIANTS
  SnapshotIsPrefix
  NoSilentGap
  LoadsFromLayout
PROPERTIES
  RecordedSpec
CHECK_DEADLOCK FALSE
