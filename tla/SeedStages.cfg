CONSTANTS
  Histories <- AllHistories
  PageSize = 2
  ItemBatch = 3
  RecipeBatch = 2
  MaxFaults = 2
SPECIFICATION FairSpec
INVARIANTS ItemsComplete RecipesAsListed
PROPERTIES MetadataKept RecipeStageSpec SeedingEnds
