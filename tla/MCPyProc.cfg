CONSTANTS
  Nul = Nul
  Equals = Equals
  Other = Other
  NULL = NULL
  Bytes <- MCBytes
  InitialCapacity = 2
  MaxFile = 4
  Pids <- MCPids
  Target = 2
  TextPlace <- MCTextPlace
  Letter = Letter
  RParen = RParen
  Newline = Newline
  Names <- MCNames
  PathLength = 3
  BufferLength = 3
  MaxStarts = 2

SPECIFICATION PySpec

\* A NULL line or argument, or a byte in front of a buffer, kills the program.
CHECK_DEADLOCK FALSE

INVARIANTS
  PyTypeOK
  StringsAreTheFile
  AnswersAreOfTheProcess
  ListIsBracketed
  MethodsReturnCleanly
  ResultIsTheAnswer
