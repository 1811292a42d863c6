SPECIFICATION FairSpec
CONSTANTS
  pr1 = pr1
  pr2 = pr2
  fresh = fresh
  stale = stale
  Items <- OneItem
  Details <- OneDetail
  NumScopes = 2
  MaxChanges = 2
  MaxNotes = 1
  MaxFaults = 2
INVARIANTS
  TypeOK
  EpisodesAlternate
  NoSignalLost
  NoGhostRow
PROPERTIES
  RemovalsJustified
  SweptItemsShown
  SweepSettles
  DeliveryImplemented
  BoardConverges
