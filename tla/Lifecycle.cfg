SPECIFICATION FairSpec
CONSTANTS
  MaxMachines = 3
  MaxFaults = 1
  MaxTaken = 1
  Replicas = 2
  CacheLags = TRUE
INVARIANT LifecycleTypeOK OutlivesListed NoSecretLeftUndisturbed NoWakeUpLost
PROPERTY CreatesProtected DeletionEnds Provisioned
