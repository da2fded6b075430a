\* Docks and transports around the job board.
SPECIFICATION DocksSpec
CONSTANTS
  depot = depot
  outpost = outpost
  h1 = h1
  h2 = h2
  ore = ore
  f1 = f1
  Container = {depot, outpost, h1, h2}
  Worker = {h1, h2}
  Endpoint = {depot, outpost}
  Resource = {ore}
  ReservationId = {1, 2}
  NoReservation = 0
  Actor = {f1}
  NoFaction = NoFaction
  Owner <- MCOwner
  Capacity <- MCCapacity
  Stock <- MCStock
  WorkerLimit = 1
  MaxAmount = 2
  MaxJobs = 2
  Dock <- MCDock
  Berths = 1
  QueueLimit = 1
  Rate = 1
  MaxJourney = 1
  MaxTransports = 2
INVARIANTS QueuesSound ClaimedGoodsLocked ClaimsDisjoint NoOrphanLock BooksBalance
PROPERTY JobsAdvance
CHECK_DEADLOCK FALSE
