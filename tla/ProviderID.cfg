SPECIFICATION FairSpec
CONSTANTS
  MaxMachines = 3
  MaxFaults = 1
  Address <- MCAddress
INVARIANT ProviderTypeOK
PROPERTY ForeignOnlyInTeardown EventuallyProvided
