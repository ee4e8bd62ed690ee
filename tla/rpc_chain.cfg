SPECIFICATION Spec
CONSTANTS
  t1 = t1
  t2 = t2
  c1 = c1
  c2 = c2
  c3 = c3
  a = a
  b = b
  Thread = {t1, t2}
  Cor = {c1, c2, c3}
  Client = {a, b}
  NULL = NULL
  Asked <- AllNames
  Number <- Numbers
  Services <- Registered
  Nested <- Calls
  Required <- Demanding
  Nine = 1
  m_msg_req_len = 2
INVARIANTS
  NumbersFollow
  
  NoCallLost
SYMMETRY Symmetric
CHECK_DEADLOCK FALSE
