SPECIFICATION FairSpec
CONSTANTS
  Poster = {p1, p2}
  Posts = 1
  NrThreads = 2
  Passes = 1
  IndexLimit = 2
INVARIANTS
  TypeOK
  JobsKept
  NoSleepingWorker
PROPERTIES
  EveryJobRuns
  DestructorReturns
  ImplementsService
