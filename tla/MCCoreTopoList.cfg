CONSTANTS
  PackageIds = {0, 1}
  CoreIds = {0, 1}
  InitialCapacity = 1
  KeySize = 4
  SizeMax = 31
  Garbage = Garbage
  Unknown = Unknown

SPECIFICATION Spec

INVARIANTS
  TypeOK
  FitsItsBlock
  ItemsAreWritten

PROPERTY
  CountsDistinct
