SPECIFICATION FairSpec
CONSTANTS
  e1 = e1
  e2 = e2
  e3 = e3
  e4 = e4
  e5 = e5
  bad = bad
  h1 = h1
  h2 = h2
  h3 = h3
  http = http
  https = https
  Elem = {e1, e2, e3, e5, bad}
  Host = {h1, h2}
  Scheme = {http, https}
  UrlHost <- MCUrlHost
  UrlScheme <- MCUrlScheme
  ValidElem <- MCValidElem
  Batches <- MixedBatches
  MaxActive = 1
  Delay = 1
  Horizon = 1
INVARIANTS
  QueueOwnership
  AnsweredOnce
PROPERTIES
  RobotsFirst
  RoundEnds
  EveryUrlAnswered
