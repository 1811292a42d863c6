SPECIFICATION FairSpec
CONSTANTS
  github = github
  Connections <- OneConnection
  Buffer = 2
  MaxRequests = 3
  MaxChanges = 1
  MaxFaults = 2
INVARIANTS
  TypeOK
  OldListIsRefreshed
PROPERTIES
  ViewImplemented
  NewerErrorStays
  ViewConverges
  ErrorsPass
