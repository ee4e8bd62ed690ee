CONSTANTS
  call = call
  sleep = sleep
  flush = flush
  Event = {call, sleep, flush}
  Interval <- Intervals
  Repeated = {flush}
  Deleted = {call}
  MaxTime = 5
  MaxAdd = 1
  Off = Off
SPECIFICATION FairSpec
INVARIANTS
  OneShot
  RepeatedStays
  NeverDisarmed
PROPERTIES
  FiresUnlessDropped
CHECK_DEADLOCK FALSE
