\* Three to nine hashes, one to four workers; a part for every two hashes.
SPECIFICATION FairSpec
CONSTANTS
  MaxHashes = 9
  MaxWorkers = 4
  HashCounts <- UpToMaxHashes
  WorkerCounts <- UpToMaxWorkers
  HashesPerWorker = 2
  Chunk = 5
INVARIANTS
  TypeOK
PROPERTIES
  WrittenOnce
  AllAnswered
