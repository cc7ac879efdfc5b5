SPECIFICATION FairSpec
CONSTANTS
  MaxMachines = 8
  MaxFaults = 1
  MaxTaken = 1
  Initial = 0
  Version <- MCVersion
  MajorMinor <- MCMajorMinor
  Specs <- UpgradeSpecs
  FirstSpec <- Old1
  Edits <- UpgradeEdits
  CacheLags = FALSE
  SameSecond = FALSE
PROPERTY Converges ScaleDownWaitsForNodeRefs SurgeAtMostOne InPlaceNeverSurges
