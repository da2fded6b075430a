\* Containers slot by slot; and two drills that compete for a deposit, or a
\* refinery that crafts through a failing supply.
SPECIFICATION StoresSpec
CONSTANTS
  depot = depot
  silo = silo
  f1 = f1
  f2 = f2
  d1 = d1
  d2 = d2
  refinery = refinery
  ore = ore
  steel = steel
  hard = hard
  smelt = smelt
  harden = harden
  vein = vein
  Resource = {ore, steel}
  Material = {ore, steel, hard}
  Container = {depot, silo}
  Actor = {f1, f2}
  NoFaction = NoFaction
  Silo = {silo}
  RawMineral = {ore}
  Owner <- MCOwner
  MaxSlots <- MCMaxSlots
  MaxVolume <- MCMaxVolume
  StackLimit <- MCStackLimit
  UnitVolume <- MCUnitVolume
  MaxAmount = 3
  MaxSupply = 4
  MaxId = 2
  Facility <- MCFacility
  Drill = {d1, d2}
  Recipe = {smelt, harden}
  NoRecipe = NoRecipe
  RecipesOf <- MCRecipesOf
  Inputs <- MCInputs
  Product <- MCProduct
  Batch <- MCBatch
  Duration <- MCDuration
  DepositId = {vein}
  NoDeposit = NoDeposit
  Ore <- MCOre
  Initial <- MCInitial
  Yield <- MCYield
  Interval = 2
  InputRoom <- MCInputRoom
  OutputRoom <- MCOutputRoom
  Speeds = {1, 2}
  ShortSpan = 1
  Spans = {2, 3}
  Unstable = {d1, refinery}
  Worth <- MCWorth
INVARIANTS ValidateInvariants AlwaysUndoable FastForwardMatchesTicks InputsLocked
PROPERTIES ImplementsLedger NothingSpoilt CraftsEnd
