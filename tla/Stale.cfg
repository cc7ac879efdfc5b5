SPECIFICATION Spec
CONSTANTS
  MaxMachines = 5
  MaxFaults = 1
  MaxTaken = 1
  Initial = 3
  Version <- MCVersion
  MajorMinor <- MCMajorMinor
  Specs <- ChurnSpecs
  FirstSpec <- Old3
  Edits <- ChurnEdits
  CacheLags = TRUE
  SameSecond = FALSE
INVARIANT TypeOK ScaleDownInv OrphansAreFailures
PROPERTY OldestFirst FloorOfThree KeepsReplicas NodeOutlivesMachine ImplementsQueue
