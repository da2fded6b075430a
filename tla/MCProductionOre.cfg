\* What the drills bring out of a deposit.
SPECIFICATION SceneSpec
CONSTANTS
  d1 = d1
  d2 = d2
  refinery = refinery
  ore = ore
  steel = steel
  hard = hard
  smelt = smelt
  harden = harden
  vein = vein
  Facility <- MCFacility
  Drill = {d1, d2}
  Material = {ore, steel, hard}
  Recipe = {smelt, harden}
  NoRecipe = NoRecipe
  RecipesOf <- MCRecipesOf
  Inputs <- MCInputs
  Product <- MCProduct
  Batch <- MCBatch
  Duration <- MCDuration
  DepositId = {vein}
  NoDeposit = NoDeposit
  Ore <- MCOre
  Initial <- MCInitial
  Yield <- MCYield
  Interval = 2
  InputRoom <- MCInputRoom
  OutputRoom <- MCOutputRoom
  Speeds = {1, 2}
  ShortSpan = 1
  Spans = {2, 3}
  Unstable = {d1}
  Worth <- MCWorth
INVARIANTS OreNeverInvented
