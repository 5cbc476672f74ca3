SPECIFICATION FairSpec
CONSTANTS
  Producer = {p1, p2}
  Consumer = {c1, c2}
  Pushes = 2
  Nobody = Nobody
INVARIANTS
  TypeOK
  NoLostWakeup
  DestroySafe
PROPERTIES
  ImplementsAtomic
  EveryActionRuns
