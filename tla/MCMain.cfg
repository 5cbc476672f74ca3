SPECIFICATION MainSpec
CONSTANTS
  Poster = {io}
  Posts = 3
  NrThreads = 1
  Passes = 1
  IndexLimit = 4
  MaxUrls = 2
  PrefixLength = 48
  MaxFilenameLength = 50
  Radix = 2
  Registered <- MCRegistered
  LogThread = {"main", "io", "worker"}
  NoThread = NoThread
  MaxDepth = 2
  MaxLogs = 2
INVARIANTS
  MainTypeOK
  SeparateFiles
  NumberedInOrder
  DebugAsAsked
  ExitMeansDone
PROPERTIES
  ProgramEnds
