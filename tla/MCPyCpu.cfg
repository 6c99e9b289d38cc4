CONSTANTS
  Cpus <- MCCpus
  Policies <- MCPolicies
  PolicyOf <- MCPolicyOf
  Fields <- MCFields
  NoPolicy = NoPolicy
  Freq <- MCFreq
  MaxList = 2
  MaxHotplug = 2

SPECIFICATION PySpec

INVARIANTS
  PyTypeOK
  SlotsTellTheTruth
  NoCpuIsMissing
  AverageIsSound
  MethodsReturnCleanly
  ListsEveryCpu
