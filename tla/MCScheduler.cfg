SPECIFICATION FairSpec
CONSTANTS
  ReconEvery = 3
  Hints <- OneHint
  MaxWeather = 2
  MaxFaults = 1
INVARIANTS
  TypeOK
PROPERTIES
  HintKept
  ShutdownQuiet
  DotHeld
  SweepWaitsForFast
  TiersRecover
  ShutdownCompletes
