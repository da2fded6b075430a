\* A dock empties its queue; a server that is stopped ends.
SPECIFICATION LiveSpec
CONSTANTS
  depot = depot
  outpost = outpost
  h1 = h1
  h2 = h2
  ore = ore
  f1 = f1
  Container = {depot, outpost, h1, h2}
  Worker = {h1, h2}
  Endpoint = {depot, outpost}
  Resource = {ore}
  ReservationId = {1, 2}
  NoReservation = 0
  Actor = {f1}
  NoFaction = NoFaction
  Owner <- MCOwner
  Capacity <- MCTightCapacity
  Stock <- MCDepotStock
  WorkerLimit = 1
  MaxAmount = 1
  MaxJobs = 2
  Dock <- MCOneDock
  Berths = 1
  QueueLimit = 2
  Rate = 1
  MaxJourney = 0
  MaxTransports = 1
  PoolThread = {"w1", "w2"}
  PoolJob = {1, 2, 3}
  Panicking = {2, 3}
  MaxDatagrams = 2
  MaxWaiting = 2
PROPERTY QueueDrains StopIsClean
CHECK_DEADLOCK FALSE
