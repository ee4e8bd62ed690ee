SPECIFICATION FairSpec
CONSTANTS
  m_size = 2
  Caller = {a1, a2}
  Slot <- TwoSlots
  s1 = s1
  s2 = s2
  NULL = NULL
INVARIANTS
  WaitReturnsComplete
  SafeOnOwnThread
  PendingExclusive
PROPERTIES
  EventuallyReleased
CHECK_DEADLOCK FALSE
