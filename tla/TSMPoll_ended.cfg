CONSTANTS
  Region = {eu, us}
  Files <- InOrder
  BatchSize = 2
  MaxFaults = 1
  MaxLostAcks = 0
SPECIFICATION Spec
INVARIANTS RegionKeepsPolling
