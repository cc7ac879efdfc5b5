SPECIFICATION FairSpec
CONSTANTS
  MaxMachines = 6
  MaxFaults = 0
  MaxTaken = 0
  Initial = 3
  Version <- MCVersion
  MajorMinor <- MCMajorMinor
  Specs <- RollbackSpecs
  FirstSpec <- Old3
  Edits <- RollbackEdits
  CacheLags = FALSE
  SameSecond = FALSE
PROPERTY Converges
