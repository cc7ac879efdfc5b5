SPECIFICATION FairSpec
CONSTANTS
  MaxMachines = 2
  MaxFaults = 1
  Replicas = 2
INVARIANT StatusTypeOK ReadyAfterContact
PROPERTY EventuallyReported ReadyWithdrawn NegativeIsTemporary ShortageIsReported
