SPECIFICATION ManagerSpec
CONSTANTS
  MaxContentLength = 3
  ChunkSize = {1, 2}
  MaxHeader = 3
  MaxBody = 5
  Uses = 2
  Object = {o1, o2}
  Address = {p1, p2}
  Followed = p1
  NoObject = NoObject
  NullPtr = NullPtr
INVARIANTS
  TypeOK
  ResultTellsResponse
  PimplsOwned
  HandlesLive
