SPECIFICATION FairSpec
CONSTANTS
  Region = {eu, us}
  Blizzard = Blizzard
  Attempts = 2
  MaxSignals = 1
  MaxFaults = 2
INVARIANTS SuccessIsHonest AtMostOneLatePoll
PROPERTIES EndsWhenTold PollsInTheEnd
