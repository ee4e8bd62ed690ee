CONSTANTS
  Coroutine = {c1, c2, c3}
SPECIFICATION Spec
INVARIANTS
  MutualExclusion
CHECK_DEADLOCK FALSE
