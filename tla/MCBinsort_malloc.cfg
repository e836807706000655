\* Two workers, three files; malloc may fail.
SPECIFICATION FairSpec
CONSTANTS
  IntSize = 16
  DefaultQuality = 2
  HashesPerWorker = 2
  MaxWorkers = 2
  DefaultWorkers = 2
  NumFiles = 3
  MallocMayFail = TRUE
  SpawnMayFail = FALSE
  ArgWords <- OneDirectory
  MaxArgs = 1
  Atoi <- AtoiOf
  Main = Main
  Nobody = Nobody
PROPERTIES
  Ends
