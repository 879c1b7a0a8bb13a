SPECIFICATION FairSpec
CONSTANTS
  a = a
  b = b
  Pages = 2
  Settings <- MCSettings
  Default <- MCDefault
  Torn = torn
  NoCrc = nocrc
  NoPage = nopage
  NoTask = notask
  Lost = lost
  Unsure = unsure
  Closed = closed
INVARIANTS
  Durable
  ShutdownSaved
  LoadHonest
PROPERTIES
  KeepsPromise
  ShutdownEnds
