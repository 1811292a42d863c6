SPECIFICATION FairSpec
CONSTANTS
  mr1 = mr1
  alice = alice
  MRs <- OneMR
  Reviewers <- OneReviewer
  MaxChanges = 2
  MaxFaults = 1
INVARIANTS
  TypeOK
  OnlyNewVerdicts
  VerdictHeard
PROPERTIES
  NeverReverted
  GateKept
  BoardConverges
