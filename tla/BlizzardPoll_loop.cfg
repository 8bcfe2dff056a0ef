CONSTANTS
  r1 = r1
  r2 = r2
  Region = {r1, r2}
  Clients <- TwoClients
  Unreliable = {}
  MaxVersion = 2
  MaxToken = 2
  Auctions <- ListingsOfThreeAndNone
  BatchSize = 2
  MaxFaults = 2
  MaxLostAcks = 1
  MaxClock = 14
SPECIFICATION Spec
INVARIANTS TypeOK SnapshotsWhole PointerHonest MemoryBacked StoredOnce
PROPERTIES TokenNotRepeated ArchiveSpec
