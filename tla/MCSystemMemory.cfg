CONSTANTS
  Modulus = 64
  KiB = 2
  PageSize = 3
  MemInfos <- MCMemInfos
  ZoneInfos <- MCZoneInfos
  VmStats <- MCVmStats

SPECIFICATION Spec

INVARIANTS
  TypeOK
  BooksBalance
  EstimateIsExact
  LinesAreRead
