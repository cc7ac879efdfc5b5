SPECIFICATION Spec
CONSTANTS
  MaxMachines = 4
  MaxFaults = 0
  MaxTaken = 0
  Initial = 0
  Version <- MCVersion
  MajorMinor <- MCMajorMinor
  Specs <- FloorSpecs
  FirstSpec <- New4
  Edits <- FloorEdits
  CacheLags = TRUE
  SameSecond = TRUE
PROPERTY FloorOfThree
