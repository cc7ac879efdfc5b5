SPECIFICATION FairSpec
CHECK_DEADLOCK FALSE
CONSTANTS
  NumMachines = 3
  Version <- Minors
  First = 25
  Edits <- MCEdits
  MaxFaults = 2
INVARIANT InPlaceTypeOK OneNodeAtATime ClaimsWhatRuns AtMostTwoVersions
PROPERTY OldestIsRetried AllUpgraded
