SPECIFICATION Spec
CONSTANTS
  Name <- Words
  MaxNodes = 4
  Leaves <- Kinds
  Attributes <- Pairs
  Cuts = {0, 3}
INVARIANTS
  WalksAgree
  NothingLeaks
  RoundTrip
  
PROPERTIES
  ImplementsOrderedTree
CHECK_DEADLOCK FALSE
