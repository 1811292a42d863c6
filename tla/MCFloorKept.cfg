SPECIFICATION Spec
CONSTANTS
  ReconEvery = 3
  Hints <- OneHint
  MaxWeather = 1
  MaxFaults = 0
PROPERTIES
  FloorKept
