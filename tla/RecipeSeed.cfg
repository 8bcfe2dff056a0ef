CONSTANTS
  Worker = {w1, w2}
  Jobs = 4
  BatchSize = 2
  MaxFaults = 2
SPECIFICATION FairSpec
INVARIANTS CompletedMeansStored NoJobLost ErrorNotLost
PROPERTIES Seeded
