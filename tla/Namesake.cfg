SPECIFICATION FairSpec
CONSTANTS
  MaxMachines = 1
  MaxFaults = 0
  Replicas = 1
PROPERTY KubeconfigComes
