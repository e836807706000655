\* One or two workers, three files, up to two messages for the distances; up to
\* five arguments; memory and threads may be refused.
SPECIFICATION FairSpec
CONSTANTS
  IntSize = 16
  DefaultQuality = 2
  HashesPerWorker = 1
  MaxWorkers = 2
  DefaultWorkers = 2
  NumFiles = 3
  MallocMayFail = TRUE
  SpawnMayFail = TRUE
  ArgWords <- EveryWord
  MaxArgs = 5
  Atoi <- AtoiOf
  Main = Main
  Nobody = Nobody
INVARIANTS
  TypeOK
  PhasesApart
  AnswersCounted
  HashesIndexed
  NoneStranded
  MemoryLive
  StableAlone
  CleanEnd
  ArgsRight
  NoDeadlock
PROPERTIES
  EndsUnlessStuck
