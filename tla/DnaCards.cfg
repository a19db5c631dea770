CONSTANTS
  Thread = {s1, s2}
  CardBlock = {1}
  MaxCards = 2
SPECIFICATION Spec
INVARIANT CardsOfPairs
CHECK_DEADLOCK FALSE
