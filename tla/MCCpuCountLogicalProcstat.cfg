CONSTANTS
  Cpus <- MCCpus
  MaxHotplug = 3

SPECIFICATION LogicalSpec

INVARIANT
  ProcstatIsCounted
