SPECIFICATION Spec
CONSTANTS
  e1 = e1
  e2 = e2
  e3 = e3
  e4 = e4
  e5 = e5
  bad = bad
  h1 = h1
  h2 = h2
  h3 = h3
  http = http
  https = https
  Elem = {e1, e2, e3, e4, bad}
  Host = {h1, h2, h3}
  Scheme = {http, https}
  UrlHost <- MCUrlHost
  UrlScheme <- MCUrlScheme
  ValidElem <- MCValidElem
  Batches <- WideBatches
  MaxActive = 2
  Delay = 2
  Horizon = 1
INVARIANTS
  TypeOK
  ActiveCount
  PopSafe
  WaitHasWaker
PROPERTIES
  PoliteWithinRound
  ImplementsService
