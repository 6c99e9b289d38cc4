CONSTANTS
  Nul = Nul
  Equals = Equals
  Other = Other
  NULL = NULL
  Bytes <- MCBytes
  InitialCapacity = 2
  MaxFile = 1
  Pids <- MCPids
  Target = 2
  TextPlace <- MCTextPlace
  Letter = Letter
  RParen = RParen
  Newline = Newline
  Names <- MCNames
  PathLength = 3
  BufferLength = 5
  MaxStarts = 2

SPECIFICATION PySpec

\* A byte in front of a buffer may kill the program.
CHECK_DEADLOCK FALSE

INVARIANT PathIsFull
