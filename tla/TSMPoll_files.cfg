CONSTANTS
  Region = {eu}
  Files <- EveryKindOfFile
  BatchSize = 2
  MaxFaults = 3
  MaxLostAcks = 0
SPECIFICATION FairSpec
INVARIANTS TypeOK ValidatorsBacked
PROPERTIES ArchiveSpec FilesArrive
