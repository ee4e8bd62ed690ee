SPECIFICATION FairSpec
CONSTANTS
  Chunks = 2
  MaxErrors = 1
INVARIANTS
  NoTimerLeft

  
  
CHECK_DEADLOCK FALSE
