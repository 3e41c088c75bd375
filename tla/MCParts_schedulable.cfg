SPECIFICATION Spec
CONSTANTS
  b1 = b1
  b2 = b2
  Parts = {"coordinates"}
  OutputRing = 1
  MaxStages = 2
  MaxOutput = 1
  MaxTaken = 1
  OutputFaults = {"drop", "reclaim", "evict"}
  ExecutorFaults = {"raises", "killed", "neighbour"}
  Bakers = {b1, b2}
  MaxHead = 2
  Boxes = {b1, b2}
  HostImages <- TwoImages
  HandTags <- ByHandTags
  Recipes <- FiveRecipes
INVARIANT DescribedIsExpanded
PROPERTY PinnedIsSchedulable
CHECK_DEADLOCK FALSE
