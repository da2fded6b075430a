\* Building, powering and losing structures; researching in laboratories that come and go.
SPECIFICATION BaseSpec
CONSTANTS
  Structure = {1, 2, 3}
  Faction = {"red", "blue"}
  Kind <- MCKind
  PowerSpec <- MCPowerSpec
  Place <- MCPlace
  At <- MCAt
  Plan <- MCPlan
  BuildCost <- MCBuildCost
  BuildTicks = 1
  DismantleTicks = 1
  MaxHealth <- MCMaxHealth
  WallArmour <- MCWallArmour
  Blow <- MCBlow
  RepairPerUnit = 2
  InitialStock = 1
  Patches <- MCPatches
  Tech = {1, 2}
  Lab = {1, 2}
  Fate <- MCFate
  TechCost <- MCTechCost
  TechDuration <- MCTechDuration
  Contribution <- MCContribution
  ModifierKind = {"ResearchSpeed"}
  ModifierGroup = {"Patch"}
  MaxGroupFactor = 10000
  MaxQueue = 2
  MaxJob = 2
  MaxDelivery = 2
INVARIANTS RegistersAgree EarnedInOrder 
PROPERTIES PowerShared SpentOnResearch
CHECK_DEADLOCK FALSE
