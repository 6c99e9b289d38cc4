CONSTANTS
  Cpus <- MCCpus
  Policies <- MCPolicies
  PolicyOf <- MCPolicyOf
  Fields <- MCFields
  NoPolicy = NoPolicy
  Freq <- MCFreq
  MaxHotplug = 2

SPECIFICATION SystemSpec

INVARIANT
  AverageOfAllCpus
