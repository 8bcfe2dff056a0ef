CONSTANTS
  Region = {eu, us}
  Files <- InOrder
  BatchSize = 2
  MaxFaults = 1
  MaxLostAcks = 1
SPECIFICATION Spec
INVARIANTS WholeFile SourceIsNewest
