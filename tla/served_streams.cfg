SPECIFICATION Spec
CONSTANTS
  Base = 16
  Messages <- Stream
  BufSize = 12
  Servlets = {"a"}
  Streams <- HttpStreams
INVARIANTS
  BytesConserved
  WaitsOnlyWhenFilled
  AnsweredInOrder

  
CHECK_DEADLOCK FALSE
