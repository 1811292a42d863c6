SPECIFICATION FairSpec
CONSTANTS
  p1 = p1
  p2 = p2
  todo = todo
  k1 = k1
  k2 = k2
  Untimed = Untimed
  NoOwner = NoOwner
  Blank = Blank
  NoRow = NoRow
  NotPinned = NotPinned
  Processes = {p1, p2}
  Items = {1, 2}
  Keys = {k1, k2}
  Statuses = {todo}
  Delays = {0, 3}
  Signals = {"mentioned", "ci_failed"}
  StaleThreshold = 1
  OldThreshold = 2
  Days = {0, 2, 3}
  MaxSteps = 2
  migrations <- MCMigrations
  configured <- MCConfigured
  Facts <- MCFacts
INVARIANTS
  TypeOK
  WriterHoldsLock
  SchemaWhole
  ReadersAgree
  ListedOnce
  RealActivityCounts
PROPERTIES
  OnsetSteady
  PinsKeepOrder
  AgeingOnlySinks
  BadgeKept
  CacheConverges
  NewsTold
CHECK_DEADLOCK FALSE
