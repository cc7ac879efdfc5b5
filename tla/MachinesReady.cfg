SPECIFICATION FairSpec
CONSTANTS
  MaxMachines = 2
  MaxFaults = 0
  Replicas = 2
PROPERTY SickMachineShows
