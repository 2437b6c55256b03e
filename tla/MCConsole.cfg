CONSTANTS
  Harts = {0, 1}
  Prints = 3
  BeforeTraps = 2
  Length = 2
SPECIFICATION Spec
INVARIANTS
  SaidInOrder
PROPERTIES
  PanicHeard
