CONSTANTS
  r1 = r1
  r2 = r2
  c1 = c1
  c2 = c2
  f1 = f1
  f2 = f2
  f3 = f3
  Reactor = {r1, r2}
  Coroutine = {c1, c2}
  Fd = {f1, f2, f3}
  ConnFd <- Connections
  CallFds <- NestedCall
  Main = Main
  WakeFd = WakeFd
  NULL = NULL
  MaxEvents = 2
  MaxArrivals = 2
SPECIFICATION Spec
INVARIANTS
  NoLostWakeup
  
SYMMETRY Threads
CHECK_DEADLOCK FALSE
