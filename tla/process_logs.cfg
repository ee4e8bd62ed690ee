SPECIFICATION FairSpec
CONSTANTS
  Thread = {main, io}
  Main = main
  Lines <- LinesOfEach
  MaxSize = 1
  LastDay = 1
  NULL = NULL
INVARIANTS
  LinesConserved
  FilesInOrder
  FlushReachesDisk

  
  
CHECK_DEADLOCK FALSE
