SPECIFICATION Spec
CONSTANTS
  pr1 = pr1
  pr2 = pr2
  fresh = fresh
  stale = stale
  Items <- OneItem
  Details <- TwoDetails
  NumScopes = 2
  MaxChanges = 0
  MaxNotes = 0
  MaxFaults = 0
PROPERTIES
  ChangedFactMakesNewSnapshot
