CONSTANTS
  Cpus <- MCCpus
  All = All
  Sizes <- MCSizes
  MaxTicks = 2
  MaxChanges = 2

SPECIFICATION Spec

INVARIANTS
  TypeOK
  SlotsAreTheSnapshot
  SumIsWallClock
  RatioIsBusyShare
