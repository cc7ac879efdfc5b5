SPECIFICATION FairSpec
CHECK_DEADLOCK FALSE
CONSTANTS
  NumMachines = 2
  Version <- Minors
  First = 25
  Edits <- OneEdit
  MaxFaults = 1
PROPERTY EveryMachineIsRetried
