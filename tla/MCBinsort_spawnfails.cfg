\* One worker, four files; the thread may be refused.
SPECIFICATION Spec
CONSTANTS
  IntSize = 16
  DefaultQuality = 2
  HashesPerWorker = 2
  MaxWorkers = 1
  DefaultWorkers = 1
  NumFiles = 4
  MallocMayFail = FALSE
  SpawnMayFail = TRUE
  ArgWords <- OneDirectory
  MaxArgs = 1
  Atoi <- AtoiOf
  Main = Main
  Nobody = Nobody
INVARIANT
  TasksEmpty
