CONSTANTS
  Cpus <- MCCpus
  Package <- MCPackage
  Core <- MCCore
  SizeMax = 3
  MaxHotplug = 3
  Unknown = Unknown

SPECIFICATION Spec

INVARIANTS
  TypeOK
  NothingLeaks
  CountIsBracketed

PROPERTY
  CallReturns
