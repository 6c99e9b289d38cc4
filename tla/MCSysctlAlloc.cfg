CONSTANTS
  MaxSize = 9
  MaxAttempts = 3

SPECIFICATION Spec

INVARIANTS
  TypeOK
  KernelStaysInside
  BlockHasOneOwner

PROPERTIES
  MarginAbsorbsGrowth
  CallReturns
