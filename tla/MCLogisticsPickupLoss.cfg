\* A pickup commits a reservation that is not the one the claim made.
SPECIFICATION Spec
CONSTANTS
  depot = depot
  outpost = outpost
  h1 = h1
  h2 = h2
  rival = rival
  ore = ore
  f1 = f1
  f2 = f2
  Container = {depot, outpost, h1}
  Worker = {h1}
  Endpoint = {depot, outpost}
  Resource = {ore}
  ReservationId = {1, 2}
  NoReservation = 0
  Actor = {f1, f2}
  NoFaction = NoFaction
  Owner <- MCOwner
  Capacity <- MCCapacity
  Stock <- MCStock
  WorkerLimit = 1
  MaxAmount = 3
  MaxJobs = 1
INVARIANTS GoodsConserved
CHECK_DEADLOCK FALSE
