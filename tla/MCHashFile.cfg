SPECIFICATION Spec
CONSTANTS
  NumFeatures = 4
  SlotsPerFeature = 1
  Checksums <- NineChecksums
  NumShingle = 2
  Bytes = {0, 1, 2}
  NoByte = NoByte
  Crc <- CrcOf
INVARIANTS
  TypeOK
  KeepsSmallest
  TableAgrees
  DistanceRight
  AllFreed
