CONSTANTS
  Cpus <- MCCpus
  MaxHotplug = 3

SPECIFICATION LogicalSpec

INVARIANTS
  LogicalTypeOK
  LogicalCountIsBracketed
