SPECIFICATION Spec
CONSTANTS
  Word32 = 4
  Word64 = 16
  Threads = {t1, t2}
  Functions <- Exec
  UserSpans = {"request"}
  SyncIds = {0}
  IdSources = {"session"}
  MaxProducers = 2
  RingWords = 8
  MaxCalls = 3
INVARIANTS
  SessionSpansTrue
SYMMETRY ThreadsAlike
CHECK_DEADLOCK FALSE
