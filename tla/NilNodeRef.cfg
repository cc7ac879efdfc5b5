SPECIFICATION Spec
CONSTANTS
  MaxMachines = 5
  MaxFaults = 0
  MaxTaken = 1
  Initial = 3
  Version <- MCVersion
  MajorMinor <- MCMajorMinor
  Specs <- ResizeSpecs
  FirstSpec <- Old3
  Edits <- ResizeEdits
  CacheLags = FALSE
  SameSecond = FALSE
INVARIANT NeverPanics
