SPECIFICATION FairSpec
CONSTANTS
  Conn = {c1, c2, c3}
  Fd = {f1, f2}
  PoolSize = 2
  NULL = NULL
INVARIANTS
  KeptWhileOpen
  PooledExclusive
  NoStackLost

  
CHECK_DEADLOCK FALSE
