CONSTANTS
  r1 = r1
  r2 = r2
  Region = {r1, r2}
  Clients <- TwoClients
  Unreliable = {r1}
  MaxVersion = 2
  MaxToken = 2
  Auctions <- ListingsOfThreeAndTwo
  BatchSize = 2
  MaxFaults = 1
  MaxLostAcks = 0
  MaxClock = 10
SPECIFICATION FairSpec
PROPERTIES CommoditiesArrive TokensArrive
