CONSTANTS
  p1 = p1
  p2 = p2
  Pids <- MCPids
  Target = p1
  Mark = Mark
  Other = Other
  End = End
  Paddings <- MCPaddings
  Texts <- MCTexts
  Garbage <- MCGarbage
  Capacities <- MCCapacities
  MaxChanges = 2

SPECIFICATION Spec

\* A NULL line kills the program: see Crash.
CHECK_DEADLOCK FALSE

INVARIANTS
  TypeOK
  OnlyTheResultIsHeld
  ListIsTheSnapshot
  TextIsTheTargets

PROPERTIES
  ExistsIsTrue
