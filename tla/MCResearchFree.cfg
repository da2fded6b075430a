\* Is progress only ever made on materials that are locked?
SPECIFICATION ResearchSpec
CONSTANTS
  Tech = {1, 2}
  Lab = {1, 2}
  Fate <- MCFate
  TechCost <- MCTechCost
  TechDuration <- MCTechDuration
  Contribution <- MCContribution
  ModifierKind = {"ResearchSpeed"}
  ModifierGroup = {"Patch"}
  MaxGroupFactor = 10000
  MaxQueue = 2
  MaxJob = 2
  MaxDelivery = 2
CHECK_DEADLOCK FALSE
PROPERTY ProgressIsPaid
