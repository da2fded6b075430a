\* Jobs and client commands on the same containers.
SPECIFICATION Spec
CONSTANTS
  depot = depot
  outpost = outpost
  h1 = h1
  h2 = h2
  rival = rival
  ore = ore
  f1 = f1
  f2 = f2
  Container = {depot, h1, rival}
  Worker = {h1, rival}
  Endpoint = {depot, h1, rival}
  Resource = {ore}
  ReservationId = {1, 2}
  NoReservation = 0
  Actor = {f1, f2}
  NoFaction = NoFaction
  Owner <- MCOwner
  Capacity <- MCCapacity
  Stock <- MCStock
  WorkerLimit = 1
  MaxAmount = 2
  MaxJobs = 2
INVARIANTS NeverOverReserved
PROPERTY LedgerSteps GoodsStayHome
CHECK_DEADLOCK FALSE
