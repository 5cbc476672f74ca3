SPECIFICATION DriverSpec
CONSTANTS
  Poster = {io}
  Posts = 2
  NrThreads = 1
  Passes = 2
  IndexLimit = 8
  MaxUrls = 1
  PrefixLength = 47
  MaxFilenameLength = 50
  Radix = 10
INVARIANTS
  ProcessorOutlivesTasks
