SPECIFICATION Spec
CONSTANTS
  c1 = c1
  c2 = c2
  c3 = c3
  Caller <- MCCaller
  Interval = 2
  MaxTime = 8
  MaxSlots = 5
SYMMETRY MCSymmetry
INVARIANTS
  SlotsPaced
  WaitBounded
PROPERTIES
  RequestsInBudget
CHECK_DEADLOCK FALSE
