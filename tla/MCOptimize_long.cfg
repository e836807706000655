\* Two workers, twelve files, one iteration each, every worker fair.
SPECIFICATION FairSpec
CONSTANTS
  w1 = w1
  w2 = w2
  Workers = {w1, w2}
  NoWorker = NoWorker
  NumFiles = 12
  NumIterations = 2
  Hashed <- AllButOne
  Distances <- NearFar
PROPERTIES
  AtomicSpec
  Termination
