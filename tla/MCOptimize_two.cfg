\* Two workers, eight files, two iterations each.
SPECIFICATION Spec
CONSTANTS
  w1 = w1
  w2 = w2
  Workers = {w1, w2}
  NoWorker = NoWorker
  NumFiles = 8
  NumIterations = 3
  Hashed <- AllButOne
  Distances <- NearFar
INVARIANTS
  TypeOK
  RangesDisjoint
  NoRace
  DistanceAdds
PROPERTIES
  AtomicSpec
SYMMETRY WorkerSymmetry
