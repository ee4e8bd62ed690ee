CONSTANTS
  r1 = r1
  r2 = r2
  c1 = c1
  c2 = c2
  f1 = f1
  f2 = f2
  f3 = f3
  Reactor = {r1, r2}
  Coroutine = {c1, c2}
  Fd = {f1, f2}
  ConnFd <- Connections
  CallFds <- NoCalls
  Main = Main
  WakeFd = WakeFd
  NULL = NULL
  MaxEvents = 3
  MaxArrivals = 1
SPECIFICATION FairSpec
INVARIANTS
  SingleRunner
  NoSpuriousResume
  OneWatcher
  EventHasCoroutine
PROPERTIES
  EventuallyStarted
  EventuallyResumed
