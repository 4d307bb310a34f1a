SPECIFICATION FairSpec
CONSTANTS
  Runtimes = {r1, r2}
  Gpus <- SharedGpu
INVARIANTS
  TypeOK
  NothingOutlivesWerk
  CleanupAfterWorker
  NothingRetainedAfterCleanup
  OneWorkerPerGpu
PROPERTY ShutdownCompletes
