-------------------------- MODULE LogisticsProofs ---------------------------
(***************************************************************************)
(* Proofs about Logistics, for every set of containers, every capacity and *)
(* every number of jobs: what any client and any job may do to the ledger, *)
(* which ids claims hold, and, of single-worker jobs, that every operation *)
(* of the job board keeps the locks, the goods and the counters in order.  *)
(***************************************************************************)
EXTENDS Logistics, Induction, SequenceTheorems

-----------------------------------------------------------------------------
(* Holdings: adding and dropping a reservation.                            *)

LEMMA WithHoldings ==
  ASSUME NEW f, IsHoldings(f), NEW id \in ReservationId, NEW h \in Holding
  PROVE  IsHoldings(With(f, id, h))
  BY DEF IsHoldings, With

LEMMA WithoutHoldings ==
  ASSUME NEW f, IsHoldings(f), NEW id
  PROVE  IsHoldings(Without(f, id))
  BY DEF IsHoldings, Without

(* Totals: writing one cell of a table of totals.                          *)
Totals == [Container -> [Resource -> Nat]]

LEMMA SetCell ==
  ASSUME NEW q \in Totals, NEW c \in Container, NEW r \in Resource, NEW v \in Nat
  PROVE  /\ [q EXCEPT ![c][r] = v] \in Totals
         /\ \A x \in Container, y \in Resource :
              [q EXCEPT ![c][r] = v][x][y] = IF x = c /\ y = r THEN v ELSE q[x][y]
  BY DEF Totals

-----------------------------------------------------------------------------
(* What every step keeps, jobs and client commands alike.                  *)

CoreInv == TypeOK /\ NeverOverReserved

LEMMA CoreInit == Init => CoreInv
  <1> SUFFICES ASSUME Init PROVE CoreInv
    OBVIOUS
  <1> USE StockAssumption DEF Init
  <1>1. LedgerTypeOK
    BY DEF LedgerTypeOK, IsHoldings
  <1>2. jobs \in Seq(JobRecord)
    OBVIOUS
  <1>3. NeverOverReserved
    BY DEF NeverOverReserved
  <1> QED
    BY <1>1, <1>2, <1>3 DEF CoreInv, TypeOK

(* The steps of the ledger that lock, unlock and move goods.               *)
LEMMA HoldKeeps ==
  ASSUME LedgerTypeOK, NeverOverReserved,
         NEW c \in Container, NEW id \in ReservationId, NEW r \in Resource, NEW n \in Nat,
         Hold(c, id, r, n)
  PROVE  LedgerTypeOK' /\ NeverOverReserved'
  <1>1. [resource |-> r, amount |-> n] \in Holding
    BY DEF Holding
  <1>2. IsHoldings(With(held[c], id, [resource |-> r, amount |-> n]))
    BY <1>1, WithHoldings DEF LedgerTypeOK
  <1>3. LedgerTypeOK'
    BY <1>2 DEF LedgerTypeOK, Hold, Available
  <1>4. NeverOverReserved'
    BY DEF LedgerTypeOK, NeverOverReserved, Hold, Available
  <1> QED
    BY <1>3, <1>4

LEMMA ReleaseKeeps ==
  ASSUME LedgerTypeOK, NeverOverReserved,
         NEW c \in Container, NEW id, Release(c, id)
  PROVE  LedgerTypeOK' /\ NeverOverReserved'
  <1>1. held[c][id] \in Holding
    BY DEF LedgerTypeOK, IsHoldings, Release
  <1>2. IsHoldings(Without(held[c], id))
    BY WithoutHoldings DEF LedgerTypeOK
  <1>3. LedgerTypeOK'
    BY <1>1, <1>2 DEF LedgerTypeOK, Release, Holding
  <1>4. NeverOverReserved'
    BY <1>1 DEF LedgerTypeOK, NeverOverReserved, Release, Holding
  <1> QED
    BY <1>3, <1>4

LEMMA DeliverKeeps ==
  ASSUME LedgerTypeOK, NeverOverReserved,
         NEW c \in Container, NEW d \in Container, NEW id, Deliver(c, id, d)
  PROVE  LedgerTypeOK' /\ NeverOverReserved'
  <1>1. held[c][id] \in Holding
    BY DEF LedgerTypeOK, IsHoldings, Deliver
  <1>2. IsHoldings(Without(held[c], id))
    BY WithoutHoldings DEF LedgerTypeOK
  <1> DEFINE r == held[c][id].resource
             n == held[c][id].amount
             left == [qty EXCEPT ![c][r] = @ - n]
  <1>3. r \in Resource /\ n \in Nat
    BY <1>1 DEF Holding
  <1>4. /\ n <= reserved[c][r]
        /\ reserved' = [reserved EXCEPT ![c][r] = @ - n]
        /\ qty' = [left EXCEPT ![d][r] = @ + n]
        /\ held' = [held EXCEPT ![c] = Without(@, id)]
    BY DEF Deliver
  <1> HIDE DEF r, n
  <1>5. left \in Totals /\ \A x \in Container, y \in Resource :
          left[x][y] = IF x = c /\ y = r THEN qty[x][y] - n ELSE qty[x][y]
    BY <1>3, <1>4, SetCell DEF LedgerTypeOK, NeverOverReserved, Totals
  <1> HIDE DEF left
  <1>6. qty' \in Totals /\ \A x \in Container, y \in Resource :
          qty'[x][y] = IF x = d /\ y = r THEN left[x][y] + n ELSE left[x][y]
    BY <1>3, <1>4, <1>5, SetCell DEF Totals
  <1>7. reserved' \in Totals /\ \A x \in Container, y \in Resource :
          reserved'[x][y] = IF x = c /\ y = r THEN reserved[x][y] - n ELSE reserved[x][y]
    BY <1>3, <1>4, SetCell DEF LedgerTypeOK, Totals
  <1>8. held' = [x \in Container |-> held'[x]] /\ \A x \in Container : IsHoldings(held'[x])
    BY <1>2, <1>4, Zenon DEF LedgerTypeOK
  <1>9. LedgerTypeOK'
    BY <1>6, <1>7, <1>8 DEF LedgerTypeOK, Totals
  <1>10. NeverOverReserved'
    BY <1>3, <1>5, <1>6, <1>7 DEF LedgerTypeOK, NeverOverReserved, Totals
  <1> QED
    BY <1>9, <1>10

LEMMA TransferKeeps ==
  ASSUME LedgerTypeOK, NeverOverReserved,
         NEW c \in Container, NEW d \in Container, NEW r \in Resource, NEW n \in Nat,
         Transfer(c, d, r, n)
  PROVE  LedgerTypeOK' /\ NeverOverReserved'
  <1> DEFINE left == [qty EXCEPT ![c][r] = @ - n]
  <1>1. /\ c # d /\ n <= qty[c][r] - reserved[c][r]
        /\ qty' = [left EXCEPT ![d][r] = @ + n]
        /\ reserved' = reserved /\ held' = held
    BY Zenon DEF Transfer, Available, LedgerTypeOK
  <1>2. left \in Totals /\ \A x \in Container, y \in Resource :
          left[x][y] = IF x = c /\ y = r THEN qty[x][y] - n ELSE qty[x][y]
    BY <1>1, SetCell DEF LedgerTypeOK, Totals
  <1> HIDE DEF left
  <1>3. qty' \in Totals /\ \A x \in Container, y \in Resource :
          qty'[x][y] = IF x = d /\ y = r THEN left[x][y] + n ELSE left[x][y]
    BY <1>1, <1>2, SetCell DEF Totals
  <1>4. LedgerTypeOK'
    BY <1>1, <1>3 DEF LedgerTypeOK, Totals
  <1>5. NeverOverReserved'
    BY <1>1, <1>2, <1>3 DEF LedgerTypeOK, NeverOverReserved, Totals
  <1> QED
    BY <1>4, <1>5

LEMMA ConsumeKeeps ==
  ASSUME LedgerTypeOK, NeverOverReserved,
         NEW c \in Container, NEW id, Consume(c, id)
  PROVE  LedgerTypeOK' /\ NeverOverReserved'
  <1>1. held[c][id] \in Holding
    BY DEF LedgerTypeOK, IsHoldings, Consume
  <1>2. IsHoldings(Without(held[c], id))
    BY WithoutHoldings DEF LedgerTypeOK
  <1> DEFINE r == held[c][id].resource
             n == held[c][id].amount
  <1>3. r \in Resource /\ n \in Nat
    BY <1>1 DEF Holding
  <1>4. /\ n <= reserved[c][r]
        /\ reserved' = [reserved EXCEPT ![c][r] = @ - n]
        /\ qty' = [qty EXCEPT ![c][r] = @ - n]
        /\ held' = [held EXCEPT ![c] = Without(@, id)]
    BY DEF Consume
  <1> HIDE DEF r, n
  <1>5. qty' \in Totals /\ \A x \in Container, y \in Resource :
          qty'[x][y] = IF x = c /\ y = r THEN qty[x][y] - n ELSE qty[x][y]
    BY <1>3, <1>4, SetCell DEF LedgerTypeOK, NeverOverReserved, Totals
  <1>6. reserved' \in Totals /\ \A x \in Container, y \in Resource :
          reserved'[x][y] = IF x = c /\ y = r THEN reserved[x][y] - n ELSE reserved[x][y]
    BY <1>3, <1>4, SetCell DEF LedgerTypeOK, Totals
  <1>7. held' = [x \in Container |-> held'[x]] /\ \A x \in Container : IsHoldings(held'[x])
    BY <1>2, <1>4, Zenon DEF LedgerTypeOK
  <1>8. LedgerTypeOK'
    BY <1>5, <1>6, <1>7 DEF LedgerTypeOK, Totals
  <1>9. NeverOverReserved'
    BY <1>3, <1>5, <1>6 DEF LedgerTypeOK, NeverOverReserved, Totals
  <1> QED
    BY <1>8, <1>9

-----------------------------------------------------------------------------
(* What the operations of the job board do, seen as ledger steps.          *)

LEMMA JobFields ==
  ASSUME TypeOK, NEW j \in DOMAIN jobs
  PROVE  /\ jobs[j] \in JobRecord
         /\ jobs[j].source \in Container /\ jobs[j].destination \in Container
         /\ jobs[j].resource \in Resource /\ jobs[j].amount \in Nat
         /\ jobs[j].workers \in Seq(Worker)
         /\ jobs[j].reservation \in ReservationId \cup {NoReservation}
  <1>1. jobs[j] \in JobRecord
    BY DEF TypeOK
  <1> QED
    BY <1>1, PlaceAssumption DEF JobRecord, Amount

LEMMA PickupStep ==
  ASSUME TypeOK, NEW j \in DOMAIN jobs, NEW v \in Worker,
         CanPickup(World, j, v), Becomes(AfterPickup(World, j, v))
  PROVE  LET job == jobs[j] IN
         \/ /\ Deliver(job.source, job.reservation, v)
            /\ jobs' = [jobs EXCEPT ![j].status = "InTransit"]
            /\ telemetry' = [telemetry EXCEPT !.claimed = Less(@), !.inTransit = @ + 1]
         \/ LET lock == held[job.source][job.reservation] IN
            /\ Consume(job.source, job.reservation)
            /\ UNCHANGED <<jobs, telemetry>>
            /\ ~HasRoom([qty EXCEPT ![job.source][lock.resource] = @ - lock.amount],
                        v, lock.amount)
  <1> DEFINE job == jobs[j]
             lock == held[job.source][job.reservation]
             taken == [qty EXCEPT ![job.source][lock.resource] = @ - lock.amount]
  <1>1. /\ job.reservation \in DOMAIN held[job.source]
        /\ lock.amount <= reserved[job.source][lock.resource]
    BY DEF CanPickup, World
  <1>2. CASE HasRoom(taken, v, lock.amount)
    BY <1>1, <1>2, Zenon DEF AfterPickup, World, Becomes, Deliver
  <1>3. CASE ~HasRoom(taken, v, lock.amount)
    BY <1>1, <1>3, Zenon DEF AfterPickup, World, Becomes, Consume
  <1> QED
    BY <1>2, <1>3, Zenon

LEMMA MoveToSelf ==
  ASSUME NEW q \in Totals, NEW c \in Container, NEW r \in Resource, NEW n \in Nat,
         n <= q[c][r]
  PROVE  Moved(q, c, c, r, n) = q
  <1> DEFINE taken == [q EXCEPT ![c][r] = @ - n]
             back == [taken EXCEPT ![c][r] = @ + n]
  <1>1. q[c][r] \in Nat
    BY DEF Totals
  <1>2. taken \in Totals /\ \A x \in Container, y \in Resource :
          taken[x][y] = IF x = c /\ y = r THEN q[x][y] - n ELSE q[x][y]
    BY <1>1, SetCell
  <1> HIDE DEF taken
  <1>a. taken[c][r] + n \in Nat
    BY <1>1, <1>2
  <1>3. back \in Totals /\ \A x \in Container, y \in Resource :
          back[x][y] = IF x = c /\ y = r THEN taken[x][y] + n ELSE taken[x][y]
    BY <1>a, <1>2, SetCell DEF Totals
  <1>4. \A x \in Container, y \in Resource : back[x][y] = q[x][y]
    BY <1>1, <1>2, <1>3
  <1> HIDE DEF back
  <1>5. \A x \in Container : back[x] = q[x]
    BY <1>3, <1>4 DEF Totals
  <1>6. back = q
    BY <1>3, <1>5 DEF Totals
  <1> QED
    BY <1>6 DEF Moved, back, taken

LEMMA DropoffStep ==
  ASSUME TypeOK, NEW j \in DOMAIN jobs, NEW v \in Worker,
         CanDropoff(World, j, v), Becomes(AfterDropoff(World, j, v))
  PROVE  LET job == jobs[j] IN
         /\ \/ Transfer(v, job.destination, job.resource, job.amount)
            \/ UNCHANGED ledgerVars
         /\ jobs' = [jobs EXCEPT ![j].status = "Completed"]
         /\ telemetry' = [telemetry EXCEPT !.inTransit = Less(@), !.completed = @ + 1]
  <1> DEFINE job == jobs[j]
  <1>1. /\ job.amount <= qty[v][job.resource] - reserved[v][job.resource]
        /\ qty' = Moved(qty, v, job.destination, job.resource, job.amount)
        /\ reserved' = reserved /\ held' = held
        /\ jobs' = [jobs EXCEPT ![j].status = "Completed"]
        /\ telemetry' = [telemetry EXCEPT !.inTransit = Less(@), !.completed = @ + 1]
    BY DEF CanDropoff, AfterDropoff, World, Becomes
  <1>2. CASE v = job.destination
    <2>1. qty[v][job.resource] \in Nat /\ reserved[v][job.resource] \in Nat
      BY JobFields, PlaceAssumption DEF TypeOK, LedgerTypeOK
    <2>2. job.amount <= qty[v][job.resource]
      BY <1>1, <2>1, JobFields
    <2>3. qty' = qty
      BY <1>1, <1>2, <2>2, JobFields, MoveToSelf, Zenon DEF TypeOK, LedgerTypeOK, Totals
    <2> QED
      BY <1>1, <2>3 DEF ledgerVars
  <1>3. CASE v # job.destination
    BY <1>1, <1>3, Zenon DEF Transfer, Moved, Available
  <1> QED
    BY <1>1, <1>2, <1>3

-----------------------------------------------------------------------------
(* Types and over-reservation, under jobs and client commands.             *)

Status == {"Pending", "Claimed", "InTransit", "Completed", "Cancelled"}
Telemetry == [pending : Nat, claimed : Nat, inTransit : Nat, completed : Nat]

LEMMA StatusType ==
  ASSUME NEW s \in Seq(JobRecord), NEW j \in DOMAIN s, NEW st \in Status
  PROVE  [s EXCEPT ![j].status = st] \in Seq(JobRecord)
  <1>1. s[j] \in JobRecord
    OBVIOUS
  <1>2. [s[j] EXCEPT !.status = st] \in JobRecord
    BY <1>1, Zenon DEF JobRecord, Status
  <1> QED
    BY <1>2, ExceptSeq

LEMMA TelemetryType ==
  ASSUME NEW t \in Telemetry
  PROVE  /\ [t EXCEPT !.pending = @ + 1] \in Telemetry
         /\ [t EXCEPT !.pending = Less(@)] \in Telemetry
         /\ [t EXCEPT !.claimed = Less(@)] \in Telemetry
         /\ [t EXCEPT !.inTransit = Less(@)] \in Telemetry
         /\ [t EXCEPT !.pending = Less(@), !.claimed = @ + 1] \in Telemetry
         /\ [t EXCEPT !.claimed = Less(@), !.inTransit = @ + 1] \in Telemetry
         /\ [t EXCEPT !.inTransit = Less(@), !.completed = @ + 1] \in Telemetry
  <1>1. \A n \in Nat : Less(n) \in Nat /\ n + 1 \in Nat
    BY DEF Less
  <1>2. /\ t.pending \in Nat /\ t.claimed \in Nat
        /\ t.inTransit \in Nat /\ t.completed \in Nat
        /\ t = [pending |-> t.pending, claimed |-> t.claimed,
                inTransit |-> t.inTransit, completed |-> t.completed]
    BY DEF Telemetry
  <1> QED
    BY <1>1, <1>2, Zenon DEF Telemetry

LEMMA CreateTypes ==
  ASSUME TypeOK, NEW actor \in Actor, NEW s \in Endpoint, NEW d \in Endpoint,
         NEW r \in Resource, NEW n \in Amount, CreateJob(actor, s, d, r, n)
  PROVE  jobs' \in Seq(JobRecord) /\ telemetry' \in Telemetry
  <1> DEFINE job == [status |-> "Pending", owner |-> actor, source |-> s,
                     destination |-> d, resource |-> r, amount |-> n,
                     workers |-> <<>>, reservation |-> NoReservation]
  <1>1. job \in JobRecord
    BY PlaceAssumption DEF JobRecord
  <1>2. jobs' = Append(jobs, job) /\ telemetry' = [telemetry EXCEPT !.pending = @ + 1]
    BY DEF CreateJob
  <1> HIDE DEF job
  <1>3. jobs' \in Seq(JobRecord)
    BY <1>1, <1>2 DEF TypeOK
  <1>4. telemetry' \in Telemetry
    BY <1>2, TelemetryType, Zenon DEF TypeOK, Telemetry
  <1> QED
    BY <1>3, <1>4

LEMMA ClaimTypes ==
  ASSUME TypeOK, NEW j \in DOMAIN jobs, NEW v \in Worker, NEW id \in ReservationId,
         jobs' = [jobs EXCEPT ![j].status = "Claimed", ![j].reservation = id,
                              ![j].workers = Append(@, v)]
  PROVE  /\ jobs' \in Seq(JobRecord)
         /\ jobs' = [jobs EXCEPT ![j] = jobs'[j]]
         /\ jobs'[j] = [jobs[j] EXCEPT !.status = "Claimed", !.reservation = id,
                                       !.workers = Append(@, v)]
  <1> DEFINE job == [jobs[j] EXCEPT !.status = "Claimed", !.reservation = id,
                                    !.workers = Append(@, v)]
  <1>1. jobs[j] \in JobRecord /\ jobs[j].workers \in Seq(Worker)
    BY JobFields
  <1>2. Append(jobs[j].workers, v) \in Seq(Worker)
    BY <1>1
  <1>3. job \in JobRecord
    BY <1>1, <1>2 DEF JobRecord
  <1>4. jobs' = [jobs EXCEPT ![j] = job]
    BY <1>1, Zenon DEF TypeOK, JobRecord
  <1> HIDE DEF job
  <1>5. jobs \in Seq(JobRecord) /\ j \in 1 .. Len(jobs)
    BY DEF TypeOK
  <1>6. [jobs EXCEPT ![j] = job] \in Seq(JobRecord) /\ [jobs EXCEPT ![j] = job][j] = job
    BY <1>3, <1>5, ExceptSeq
  <1> QED
    BY <1>4, <1>6, Zenon DEF job

LEMMA JobStepKeepsCore ==
  ASSUME CoreInv, JobNext
  PROVE  CoreInv'
  <1> USE DEF CoreInv
  <1>1. PICK actor \in Actor :
          \/ \E s, d \in Endpoint, r \in Resource, n \in Amount : CreateJob(actor, s, d, r, n)
          \/ \E j \in DOMAIN jobs :
               \/ CancelJob(actor, j)
               \/ \E v \in Worker : \/ ClaimJob(actor, j, v)
                                    \/ ExecutePickup(actor, j, v)
                                    \/ ExecuteDropoff(actor, j, v)
    BY DEF JobNext
  <1>2. ASSUME NEW s \in Endpoint, NEW d \in Endpoint, NEW r \in Resource, NEW n \in Amount,
               CreateJob(actor, s, d, r, n)
        PROVE  CoreInv'
    <2>1. jobs' \in Seq(JobRecord) /\ telemetry' \in Telemetry
      BY <1>2, CreateTypes
    <2> QED
      BY <1>2, <2>1, Zenon DEF CreateJob, TypeOK, LedgerTypeOK, NeverOverReserved, ledgerVars, Telemetry
  <1>3. ASSUME NEW j \in DOMAIN jobs, CancelJob(actor, j)
        PROVE  CoreInv'
    <2>1. jobs' \in Seq(JobRecord)
      BY <1>3, StatusType, Zenon DEF CancelJob, TypeOK, Status
    <2>2. jobs[j].status \in {"Pending", "Claimed", "InTransit"}
      BY <1>3, JobFields DEF CancelJob, JobRecord
    <2>3. telemetry' \in Telemetry
      BY <1>3, <2>2, TelemetryType, Zenon DEF CancelJob, TypeOK, Telemetry
    <2>4. LedgerTypeOK' /\ NeverOverReserved'
      <3>1. CASE Release(jobs[j].source, jobs[j].reservation)
        BY <3>1, JobFields, ReleaseKeeps DEF TypeOK
      <3>2. CASE UNCHANGED ledgerVars
        BY <3>2 DEF ledgerVars, TypeOK, LedgerTypeOK, NeverOverReserved
      <3> QED
        BY <1>3, <3>1, <3>2 DEF CancelJob
    <2> QED
      BY <1>3, <2>1, <2>3, <2>4, Zenon DEF CancelJob, TypeOK, Telemetry
  <1>4. ASSUME NEW j \in DOMAIN jobs, NEW v \in Worker, ClaimJob(actor, j, v)
        PROVE  CoreInv'
    <2> DEFINE id == nextReservationId
    <2>1. id \in ReservationId /\ nextReservationId' = id + 1
      BY <1>4 DEF ClaimJob
    <2>2. CASE /\ Hold(jobs[j].source, id, jobs[j].resource, jobs[j].amount)
               /\ jobs' = [jobs EXCEPT ![j].status = "Claimed", ![j].reservation = id,
                                       ![j].workers = Append(@, v)]
               /\ telemetry' = [telemetry EXCEPT !.pending = Less(@), !.claimed = @ + 1]
      <3>1. LedgerTypeOK' /\ NeverOverReserved'
        BY <2>1, <2>2, JobFields, HoldKeeps DEF TypeOK
      <3>2. jobs' \in Seq(JobRecord)
        BY <2>1, <2>2, ClaimTypes, Zenon
      <3>3. telemetry' \in Telemetry
        BY <2>2, TelemetryType, Zenon DEF TypeOK, Telemetry
      <3> QED
        BY <2>1, <3>1, <3>2, <3>3 DEF TypeOK, Telemetry
    <2>3. CASE UNCHANGED <<ledgerVars, jobs, telemetry>>
      BY <2>1, <2>3 DEF ledgerVars, TypeOK, LedgerTypeOK, NeverOverReserved
    <2> QED
      BY <1>4, <2>2, <2>3 DEF ClaimJob
  <1>5. ASSUME NEW j \in DOMAIN jobs, NEW v \in Worker, ExecutePickup(actor, j, v)
        PROVE  CoreInv'
    <2>1. v \in Container
      BY PlaceAssumption
    <2>2. CASE /\ Deliver(jobs[j].source, jobs[j].reservation, v)
               /\ jobs' = [jobs EXCEPT ![j].status = "InTransit"]
               /\ telemetry' = [telemetry EXCEPT !.claimed = Less(@), !.inTransit = @ + 1]
      <3>1. LedgerTypeOK' /\ NeverOverReserved'
        BY <2>1, <2>2, JobFields, DeliverKeeps DEF TypeOK
      <3>2. jobs' \in Seq(JobRecord)
        BY <2>2, StatusType, Zenon DEF TypeOK, Status
      <3>3. telemetry' \in Telemetry
        BY <2>2, TelemetryType, Zenon DEF TypeOK, Telemetry
      <3> QED
        BY <1>5, <3>1, <3>2, <3>3 DEF ExecutePickup, TypeOK, Telemetry
    <2>3. CASE Consume(jobs[j].source, jobs[j].reservation) /\ UNCHANGED <<jobs, telemetry>>
      <3>1. LedgerTypeOK' /\ NeverOverReserved'
        BY <2>3, JobFields, ConsumeKeeps DEF TypeOK
      <3> QED
        BY <1>5, <2>3, <3>1 DEF ExecutePickup, TypeOK
    <2> QED
      BY <1>5, <2>2, <2>3, PickupStep, Zenon DEF ExecutePickup
  <1>6. ASSUME NEW j \in DOMAIN jobs, NEW v \in Worker, ExecuteDropoff(actor, j, v)
        PROVE  CoreInv'
    <2>1. /\ \/ Transfer(v, jobs[j].destination, jobs[j].resource, jobs[j].amount)
             \/ UNCHANGED ledgerVars
          /\ jobs' = [jobs EXCEPT ![j].status = "Completed"]
          /\ telemetry' = [telemetry EXCEPT !.inTransit = Less(@), !.completed = @ + 1]
      BY <1>6, DropoffStep DEF ExecuteDropoff
    <2>2. LedgerTypeOK' /\ NeverOverReserved'
      <3>1. CASE Transfer(v, jobs[j].destination, jobs[j].resource, jobs[j].amount)
        BY <3>1, JobFields, PlaceAssumption, TransferKeeps DEF TypeOK
      <3>2. CASE UNCHANGED ledgerVars
        BY <3>2 DEF ledgerVars, TypeOK, LedgerTypeOK, NeverOverReserved
      <3> QED
        BY <2>1, <3>1, <3>2
    <2>3. jobs' \in Seq(JobRecord)
      BY <2>1, StatusType, Zenon DEF TypeOK, Status
    <2>4. telemetry' \in Telemetry
      BY <2>1, TelemetryType, Zenon DEF TypeOK, Telemetry
    <2> QED
      BY <1>6, <2>2, <2>3, <2>4 DEF ExecuteDropoff, TypeOK, Telemetry
  <1> QED
    BY <1>1, <1>2, <1>3, <1>4, <1>5, <1>6

LEMMA ClientStepKeepsCore ==
  ASSUME CoreInv, ClientNext, UNCHANGED jobVars
  PROVE  CoreInv'
  <1> USE DEF CoreInv
  <1>1. LedgerTypeOK' /\ NeverOverReserved'
    <2>1. ASSUME NEW actor \in Actor, NEW c \in Container, NEW d \in Container,
                 NEW r \in Resource, NEW n \in Amount, ClientTransfer(actor, c, d, r, n)
          PROVE  LedgerTypeOK' /\ NeverOverReserved'
      BY <2>1, TransferKeeps DEF ClientTransfer, Amount, TypeOK
    <2>2. ASSUME NEW actor \in Actor, NEW c \in Container, NEW id \in ReservationId,
                 NEW r \in Resource, NEW n \in Amount, ClientReserve(actor, c, id, r, n)
          PROVE  LedgerTypeOK' /\ NeverOverReserved'
      BY <2>2, HoldKeeps DEF ClientReserve, Amount, TypeOK
    <2>3. ASSUME NEW actor \in Actor, NEW c \in Container, NEW id \in DOMAIN held[c],
                 ClientCancel(actor, c, id)
          PROVE  LedgerTypeOK' /\ NeverOverReserved'
      BY <2>3, ReleaseKeeps DEF ClientCancel, TypeOK
    <2>4. ASSUME NEW actor \in Actor, NEW c \in Container, NEW id \in DOMAIN held[c],
                 NEW d \in Container, ClientCommit(actor, c, id, d)
          PROVE  LedgerTypeOK' /\ NeverOverReserved'
      BY <2>4, DeliverKeeps DEF ClientCommit, TypeOK
    <2> QED
      BY <2>1, <2>2, <2>3, <2>4 DEF ClientNext
  <1> QED
    BY <1>1 DEF jobVars, TypeOK

(* For any number of jobs, workers, containers and client commands, in any *)
(* order: values keep their types and no container has more units locked   *)
(* than it holds (the u32 subtractions of the inventory never underflow).  *)
THEOREM CoreInvariant == Spec => [](TypeOK /\ NeverOverReserved)
  <1>1. Init => CoreInv
    BY CoreInit
  <1>2. CoreInv /\ [Next]_vars => CoreInv'
    <2> SUFFICES ASSUME CoreInv, [Next]_vars PROVE CoreInv'
      OBVIOUS
    <2>1. CASE JobNext
      BY <2>1, JobStepKeepsCore
    <2>2. CASE ClientNext /\ UNCHANGED jobVars
      BY <2>2, ClientStepKeepsCore
    <2>3. CASE UNCHANGED vars
      BY <2>3 DEF vars, ledgerVars, jobVars, CoreInv, TypeOK, LedgerTypeOK, NeverOverReserved
    <2> QED
      BY <2>1, <2>2, <2>3 DEF Next
  <1> QED
    BY <1>1, <1>2, PTL DEF Spec, CoreInv

-----------------------------------------------------------------------------
(* Every step is a ledger step.                                            *)

LEMMA MoveIsLedgerStep ==
  ASSUME LedgerTypeOK, NEW c \in Container, NEW d \in Container, NEW r \in Resource,
         NEW n \in Nat \ {0}, Transfer(c, d, r, n)
  PROVE  LedgerNext
  <1>1. qty'[c][r] - qty[c][r] = -n
    BY DEF Transfer, LedgerTypeOK
  <1>2. -(-n) = n /\ -n < 0
    OBVIOUS
  <1> QED
    BY <1>1, <1>2 DEF LedgerNext

LEMMA LockIsLedgerStep ==
  ASSUME LedgerTypeOK, NEW c \in Container, NEW id \in ReservationId, NEW r \in Resource,
         NEW n \in Nat, Hold(c, id, r, n)
  PROVE  LedgerNext
  <1>1. id \in DOMAIN held'[c] \ DOMAIN held[c]
    BY DEF Hold, With, LedgerTypeOK
  <1>2. held'[c][id].resource = r /\ held'[c][id].amount = n
    BY DEF Hold, With, LedgerTypeOK
  <1> QED
    BY <1>1, <1>2 DEF LedgerNext

LEMMA UnlockIsLedgerStep ==
  ASSUME LedgerTypeOK, NEW c \in Container, NEW id,
         Release(c, id) \/ Consume(c, id) \/ \E d \in Container : Deliver(c, id, d)
  PROVE  LedgerNext
  <1>1. id \in DOMAIN held[c] /\ held' = [held EXCEPT ![c] = Without(@, id)]
    BY Zenon DEF Release, Consume, Deliver
  <1>2. id \in DOMAIN held[c] \ DOMAIN held'[c]
    BY <1>1 DEF Without, LedgerTypeOK
  <1> QED
    BY <1>2 DEF LedgerNext

LEMMA JobStepIsLedgerStep ==
  ASSUME TypeOK, JobNext
  PROVE  LedgerNext \/ UNCHANGED ledgerVars
  <1> USE DEF TypeOK
  <1>1. ASSUME NEW actor \in Actor, NEW s \in Endpoint, NEW d \in Endpoint, NEW r \in Resource,
               NEW n \in Amount, CreateJob(actor, s, d, r, n)
        PROVE  UNCHANGED ledgerVars
    BY <1>1 DEF CreateJob
  <1>2. ASSUME NEW actor \in Actor, NEW j \in DOMAIN jobs, CancelJob(actor, j)
        PROVE  LedgerNext \/ UNCHANGED ledgerVars
    BY <1>2, JobFields, UnlockIsLedgerStep DEF CancelJob
  <1>3. ASSUME NEW actor \in Actor, NEW j \in DOMAIN jobs, NEW v \in Worker, ClaimJob(actor, j, v)
        PROVE  LedgerNext \/ UNCHANGED ledgerVars
    BY <1>3, JobFields, LockIsLedgerStep DEF ClaimJob
  <1>4. ASSUME NEW actor \in Actor, NEW j \in DOMAIN jobs, NEW v \in Worker,
               ExecutePickup(actor, j, v)
        PROVE  LedgerNext
    BY <1>4, JobFields, PickupStep, UnlockIsLedgerStep, PlaceAssumption, Zenon DEF ExecutePickup
  <1>5. ASSUME NEW actor \in Actor, NEW j \in DOMAIN jobs, NEW v \in Worker,
               ExecuteDropoff(actor, j, v)
        PROVE  LedgerNext \/ UNCHANGED ledgerVars
    <2>1. jobs[j].amount \in Nat \ {0}
      BY JobFields, PlaceAssumption DEF JobRecord, Amount
    <2> QED
      BY <1>5, <2>1, JobFields, DropoffStep, MoveIsLedgerStep, PlaceAssumption DEF ExecuteDropoff
  <1> QED
    BY <1>1, <1>2, <1>3, <1>4, <1>5 DEF JobNext

LEMMA ClientStepIsLedgerStep ==
  ASSUME TypeOK, ClientNext
  PROVE  LedgerNext
  <1> USE DEF TypeOK
  <1>1. ASSUME NEW actor \in Actor, NEW c \in Container, NEW d \in Container,
               NEW r \in Resource, NEW n \in Amount, ClientTransfer(actor, c, d, r, n)
        PROVE  LedgerNext
    BY <1>1, MoveIsLedgerStep, PlaceAssumption DEF ClientTransfer, Amount
  <1>2. ASSUME NEW actor \in Actor, NEW c \in Container, NEW id \in ReservationId,
               NEW r \in Resource, NEW n \in Amount, ClientReserve(actor, c, id, r, n)
        PROVE  LedgerNext
    BY <1>2, LockIsLedgerStep, PlaceAssumption DEF ClientReserve, Amount
  <1>3. ASSUME NEW actor \in Actor, NEW c \in Container, NEW id \in DOMAIN held[c],
               \/ ClientCancel(actor, c, id)
               \/ \E d \in Container : ClientCommit(actor, c, id, d)
        PROVE  LedgerNext
    BY <1>3, UnlockIsLedgerStep, Zenon DEF ClientCancel, ClientCommit
  <1> QED
    BY <1>1, <1>2, <1>3 DEF ClientNext

(* Jobs and client commands, interleaved in any order, do to the           *)
(* containers only what the ledger allows: one move, lock, unlock or       *)
(* delivery of a whole reservation at a time.                              *)
THEOREM StepsAreLedgerSteps == Spec => LedgerSteps
  <1>1. CoreInv /\ [Next]_vars => [LedgerNext]_ledgerVars
    BY JobStepIsLedgerStep, ClientStepIsLedgerStep
       DEF CoreInv, Next, vars, ledgerVars
  <1>2. Spec => []CoreInv
    BY CoreInvariant, PTL DEF CoreInv
  <1> QED
    BY <1>1, <1>2, PTL DEF Spec, LedgerSteps

-----------------------------------------------------------------------------
(* Jobs and the locks they stand on.                                       *)

(* A claim's id comes from the counter, below which all ids in use lie.    *)
ClaimIdsSpent ==
  \A j \in JobsIn("Claimed") :
    /\ jobs[j].reservation \in ReservationId
    /\ jobs[j].reservation < nextReservationId

ClaimInv == TypeOK /\ ClaimIdsSpent /\ ClaimsDisjoint

LEMMA StatusStep ==
  ASSUME jobs \in Seq(JobRecord), NEW j \in DOMAIN jobs, NEW st \in Status,
         jobs' = [jobs EXCEPT ![j].status = st]
  PROVE  /\ DOMAIN jobs' = DOMAIN jobs
         /\ \A i \in DOMAIN jobs : i # j => jobs'[i] = jobs[i]
         /\ jobs'[j].status = st
         /\ jobs'[j].source = jobs[j].source
         /\ jobs'[j].resource = jobs[j].resource
         /\ jobs'[j].amount = jobs[j].amount
         /\ jobs'[j].workers = jobs[j].workers
         /\ jobs'[j].reservation = jobs[j].reservation
  <1>1. jobs[j] \in JobRecord
    OBVIOUS
  <1> QED
    BY <1>1, Zenon DEF JobRecord

Takes(j, v, id) ==
  jobs' = [jobs EXCEPT ![j].status = "Claimed", ![j].reservation = id,
                       ![j].workers = Append(@, v)]

LEMMA ClaimStep ==
  ASSUME TypeOK, NEW j \in DOMAIN jobs, NEW v \in Worker, NEW id \in ReservationId,
         Takes(j, v, id)
  PROVE  /\ DOMAIN jobs' = DOMAIN jobs
         /\ \A i \in DOMAIN jobs : i # j => jobs'[i] = jobs[i]
         /\ jobs'[j].status = "Claimed"
         /\ jobs'[j].source = jobs[j].source
         /\ jobs'[j].resource = jobs[j].resource
         /\ jobs'[j].amount = jobs[j].amount
         /\ jobs'[j].workers = Append(jobs[j].workers, v)
         /\ jobs'[j].reservation = id
  <1>1. jobs[j] \in JobRecord
    BY DEF TypeOK
  <1>2. /\ jobs' = [jobs EXCEPT ![j] = jobs'[j]]
        /\ jobs'[j] = [jobs[j] EXCEPT !.status = "Claimed", !.reservation = id,
                                      !.workers = Append(@, v)]
    BY ClaimTypes, Zenon DEF Takes
  <1> QED
    BY <1>1, <1>2 DEF JobRecord

LEMMA CreateStep ==
  ASSUME TypeOK, NEW actor \in Actor, NEW s \in Endpoint, NEW d \in Endpoint,
         NEW r \in Resource, NEW n \in Amount, CreateJob(actor, s, d, r, n),
         NEW i \in DOMAIN jobs'
  PROVE  \/ i \in DOMAIN jobs /\ jobs'[i] = jobs[i]
         \/ /\ i \notin DOMAIN jobs /\ jobs'[i].status = "Pending"
            /\ jobs'[i].source = s /\ jobs'[i].workers = <<>>
  <1> DEFINE job == [status |-> "Pending", owner |-> actor, source |-> s,
                     destination |-> d, resource |-> r, amount |-> n,
                     workers |-> <<>>, reservation |-> NoReservation]
  <1>1. job \in JobRecord /\ jobs' = Append(jobs, job)
    BY PlaceAssumption DEF JobRecord, CreateJob
  <1>2. job.status = "Pending" /\ job.source = s /\ job.workers = <<>>
    OBVIOUS
  <1> HIDE DEF job
  <1>3. /\ DOMAIN jobs' = 1 .. (Len(jobs) + 1) /\ DOMAIN jobs = 1 .. Len(jobs)
        /\ \A k \in 1 .. Len(jobs) : jobs'[k] = jobs[k]
        /\ jobs'[Len(jobs) + 1] = job
    BY <1>1, AppendProperties DEF TypeOK
  <1>4. Len(jobs) \in Nat
    BY DEF TypeOK
  <1>5. i \in 1 .. Len(jobs) \/ i = Len(jobs) + 1
    BY <1>3, <1>4
  <1>6. Len(jobs) + 1 \notin 1 .. Len(jobs)
    BY <1>4
  <1> QED
    BY <1>2, <1>3, <1>5, <1>6

(* A step that neither claims a job nor lowers the counter.                *)
LEMMA NoNewClaim ==
  ASSUME ClaimInv, nextReservationId' \in Nat, nextReservationId <= nextReservationId',
         \A i \in DOMAIN jobs' : jobs'[i].status = "Claimed" =>
           /\ i \in DOMAIN jobs /\ jobs[i].status = "Claimed"
           /\ jobs'[i].reservation = jobs[i].reservation
  PROVE  ClaimIdsSpent' /\ ClaimsDisjoint'
  <1>1. ASSUME NEW i \in JobsIn("Claimed")'
        PROVE  /\ i \in JobsIn("Claimed")
               /\ jobs'[i].reservation = jobs[i].reservation
    BY <1>1 DEF JobsIn
  <1>2. ASSUME NEW i \in JobsIn("Claimed")'
        PROVE  /\ jobs'[i].reservation \in ReservationId
               /\ jobs'[i].reservation < nextReservationId'
    <2>1. /\ jobs[i].reservation \in ReservationId
          /\ jobs[i].reservation < nextReservationId
      BY <1>1 DEF ClaimInv, ClaimIdsSpent
    <2>2. jobs[i].reservation \in Nat /\ nextReservationId \in Nat
      BY <2>1, ReservationIdAssumption, Zenon DEF ClaimInv, TypeOK
    <2> QED
      BY <1>1, <2>1, <2>2
  <1>3. ClaimIdsSpent'
    BY <1>2 DEF ClaimIdsSpent
  <1>4. ClaimsDisjoint'
    BY <1>1 DEF ClaimInv, ClaimsDisjoint
  <1> QED
    BY <1>3, <1>4

(* A claim takes an id no claimed job has.                                 *)
LEMMA ClaimKeepsClaims ==
  ASSUME ClaimInv, NEW j \in DOMAIN jobs, NEW v \in Worker,
         nextReservationId \in ReservationId,
         nextReservationId' = nextReservationId + 1,
         Takes(j, v, nextReservationId)
  PROVE  ClaimIdsSpent' /\ ClaimsDisjoint'
  <1>1. /\ DOMAIN jobs' = DOMAIN jobs
        /\ \A i \in DOMAIN jobs : i # j => jobs'[i] = jobs[i]
        /\ jobs'[j].reservation = nextReservationId
    BY ClaimStep DEF ClaimInv
  <1>2. ASSUME NEW i \in JobsIn("Claimed")', i # j
        PROVE  /\ i \in JobsIn("Claimed")
               /\ jobs'[i].reservation = jobs[i].reservation
    BY <1>1, <1>2 DEF JobsIn
  <1>3. nextReservationId \in Nat
    BY DEF ClaimInv, TypeOK
  <1>4. ASSUME NEW i \in JobsIn("Claimed")
        PROVE  /\ jobs[i].reservation \in ReservationId /\ jobs[i].reservation \in Nat
               /\ jobs[i].reservation < nextReservationId
    BY ReservationIdAssumption, Zenon DEF ClaimInv, ClaimIdsSpent
  <1>5. ClaimIdsSpent'
    <2> SUFFICES ASSUME NEW i \in JobsIn("Claimed")'
                 PROVE  /\ jobs'[i].reservation \in ReservationId
                        /\ jobs'[i].reservation < nextReservationId'
      BY DEF ClaimIdsSpent
    <2>1. CASE i = j
      BY <1>1, <1>3, <2>1
    <2>2. CASE i # j
      <3>1. /\ jobs[i].reservation \in ReservationId /\ jobs[i].reservation \in Nat
            /\ jobs[i].reservation < nextReservationId
        BY <1>2, <1>4, <2>2
      <3> QED
        BY <1>2, <1>3, <2>2, <3>1
    <2> QED
      BY <2>1, <2>2
  <1>6. ClaimsDisjoint'
    <2> SUFFICES ASSUME NEW i \in JobsIn("Claimed")', NEW k \in JobsIn("Claimed")',
                        jobs'[i].reservation = jobs'[k].reservation
                 PROVE  i = k
      BY DEF ClaimsDisjoint
    <2>1. CASE i # j /\ k # j
      BY <1>2, <2>1 DEF ClaimInv, ClaimsDisjoint
    <2>2. ASSUME NEW x \in JobsIn("Claimed")', x # j
          PROVE  jobs'[x].reservation # jobs'[j].reservation
      <3>1. jobs[x].reservation \in Nat /\ jobs[x].reservation < nextReservationId
        BY <1>2, <1>4, <2>2
      <3> QED
        BY <1>1, <1>2, <1>3, <2>2, <3>1
    <2> QED
      BY <2>1, <2>2
  <1> QED
    BY <1>5, <1>6

LEMMA JobStepKeepsClaims ==
  ASSUME ClaimInv, JobNext
  PROVE  ClaimIdsSpent' /\ ClaimsDisjoint'
  <1>1. TypeOK /\ nextReservationId \in Nat
    BY DEF ClaimInv, TypeOK
  <1>2. ASSUME NEW actor \in Actor, NEW s \in Endpoint, NEW d \in Endpoint, NEW r \in Resource,
               NEW n \in Amount, CreateJob(actor, s, d, r, n)
        PROVE  ClaimIdsSpent' /\ ClaimsDisjoint'
    <2>1. \A i \in DOMAIN jobs' : jobs'[i].status = "Claimed" =>
            i \in DOMAIN jobs /\ jobs'[i] = jobs[i]
      BY <1>1, <1>2, CreateStep
    <2>2. nextReservationId' = nextReservationId
      BY <1>2 DEF CreateJob
    <2> QED
      BY <1>1, <2>1, <2>2, NoNewClaim
  <1>3. ASSUME NEW j \in DOMAIN jobs, NEW st \in Status, st # "Claimed",
               jobs' = [jobs EXCEPT ![j].status = st],
               nextReservationId' = nextReservationId
        PROVE  ClaimIdsSpent' /\ ClaimsDisjoint'
    <2>1. \A i \in DOMAIN jobs' : jobs'[i].status = "Claimed" =>
            i \in DOMAIN jobs /\ jobs'[i] = jobs[i]
      BY <1>1, <1>3, StatusStep DEF TypeOK
    <2> QED
      BY <1>1, <1>3, <2>1, NoNewClaim
  <1>4. ASSUME NEW actor \in Actor, NEW j \in DOMAIN jobs, CancelJob(actor, j)
        PROVE  ClaimIdsSpent' /\ ClaimsDisjoint'
    BY <1>3, <1>4, Zenon DEF CancelJob, Status
  <1>5. ASSUME NEW actor \in Actor, NEW j \in DOMAIN jobs, NEW v \in Worker, ClaimJob(actor, j, v)
        PROVE  ClaimIdsSpent' /\ ClaimsDisjoint'
    <2>1. CASE UNCHANGED <<ledgerVars, jobs, telemetry>>
      BY <1>1, <1>5, <2>1, NoNewClaim DEF ClaimJob
    <2>2. CASE Takes(j, v, nextReservationId)
      BY <1>5, <2>2, ClaimKeepsClaims DEF ClaimJob
    <2> QED
      BY <1>5, <2>1, <2>2 DEF ClaimJob, Takes
  <1>6. ASSUME NEW actor \in Actor, NEW j \in DOMAIN jobs, NEW v \in Worker,
               ExecutePickup(actor, j, v)
        PROVE  ClaimIdsSpent' /\ ClaimsDisjoint'
    <2>1. jobs' = [jobs EXCEPT ![j].status = "InTransit"] \/ jobs' = jobs
      BY <1>1, <1>6, PickupStep, Zenon DEF ExecutePickup
    <2>2. nextReservationId' = nextReservationId
      BY <1>6 DEF ExecutePickup
    <2>3. CASE jobs' = jobs
      BY <1>1, <2>2, <2>3, NoNewClaim
    <2> QED
      BY <1>3, <2>1, <2>2, <2>3 DEF Status
  <1>7. ASSUME NEW actor \in Actor, NEW j \in DOMAIN jobs, NEW v \in Worker,
               ExecuteDropoff(actor, j, v)
        PROVE  ClaimIdsSpent' /\ ClaimsDisjoint'
    BY <1>1, <1>3, <1>7, DropoffStep DEF ExecuteDropoff, Status
  <1> QED
    BY <1>2, <1>4, <1>5, <1>6, <1>7 DEF JobNext

(* No two jobs that are claimed name the same reservation, whatever        *)
(* clients reserve, commit or cancel in between and however many workers   *)
(* a job admits: the registry's counter never gives an id twice.           *)
THEOREM ClaimsStayDisjoint == Spec => []ClaimsDisjoint
  <1>1. Init => ClaimIdsSpent /\ ClaimsDisjoint
    BY DEF Init, ClaimIdsSpent, ClaimsDisjoint, JobsIn
  <1>2. TypeOK /\ ClaimIdsSpent /\ ClaimsDisjoint /\ [Next]_vars
          => ClaimIdsSpent' /\ ClaimsDisjoint'
    <2> SUFFICES ASSUME ClaimInv, [Next]_vars PROVE ClaimIdsSpent' /\ ClaimsDisjoint'
      BY DEF ClaimInv
    <2>1. CASE JobNext
      BY <2>1, JobStepKeepsClaims
    <2>2. CASE UNCHANGED jobVars
      BY <2>2 DEF jobVars, ClaimInv, ClaimIdsSpent, ClaimsDisjoint, JobsIn
    <2> QED
      BY <2>1, <2>2 DEF Next, vars
  <1>3. Spec => []TypeOK
    BY CoreInvariant, PTL
  <1> QED
    BY <1>1, <1>2, <1>3, PTL DEF Spec

-----------------------------------------------------------------------------
(* Worlds: containers and jobs in between the operations of one step.      *)

Locks == UNION {[ids -> Holding] : ids \in SUBSET ReservationId}

Worlds == [qty : Totals, reserved : Totals, held : [Container -> Locks],
           jobs : Seq(JobRecord), telemetry : Telemetry]

In(w, status) == {j \in DOMAIN w.jobs : w.jobs[j].status = status}

NotOver(w) == \A c \in Container, r \in Resource : w.reserved[c][r] <= w.qty[c][r]

(* With one worker per job a claimed job admits no second claim.           *)
Staffed(job) ==
  /\ job.source \in Endpoint /\ job.destination \in Endpoint
  /\ job.status = "Pending" => job.workers = <<>>
  /\ job.status \in {"Claimed", "InTransit"} => \E v \in Worker : job.workers = <<v>>

(* A claim and its lock.                                                   *)
Locked(w) ==
  \A j \in In(w, "Claimed") :
    /\ w.jobs[j].reservation \in DOMAIN w.held[w.jobs[j].source]
    /\ w.held[w.jobs[j].source][w.jobs[j].reservation]
         = [resource |-> w.jobs[j].resource, amount |-> w.jobs[j].amount]
Disjoint(w) ==
  \A i, j \in In(w, "Claimed") : w.jobs[i].reservation = w.jobs[j].reservation => i = j
Owned(w) ==
  \A c \in Container : \A id \in DOMAIN w.held[c] :
    \E j \in In(w, "Claimed") : w.jobs[j].source = c /\ w.jobs[j].reservation = id
Spent(w, n) == \A c \in Container : \A id \in DOMAIN w.held[c] : id < n

(* Goods, cargo and counters.                                              *)
Sum(q, r) == Total([c \in Container |-> q[c][r]], Container)
Conserved(w) == \A r \in Resource : Sum(w.qty, r) = Sum(Stock, r)
Carried(w, v, r) ==
  {j \in In(w, "InTransit") : w.jobs[j].resource = r /\ w.jobs[j].workers = <<v>>}
Cargo(w, v, r) == Total([j \in Carried(w, v, r) |-> w.jobs[j].amount], Carried(w, v, r))
Aboard(w) ==
  \A v \in Worker, r \in Resource : Cargo(w, v, r) <= w.qty[v][r] - w.reserved[v][r]
Counted(w) ==
  /\ w.telemetry.pending = Cardinality(In(w, "Pending"))
  /\ w.telemetry.claimed = Cardinality(In(w, "Claimed"))
  /\ w.telemetry.inTransit = Cardinality(In(w, "InTransit"))
  /\ w.telemetry.completed = Cardinality(In(w, "Completed"))

LocksSound(w, n) == Locked(w) /\ Disjoint(w) /\ Owned(w) /\ Spent(w, n)
Sound(w, n) ==
  /\ w \in Worlds /\ n \in Nat /\ NotOver(w)
  /\ \A j \in DOMAIN w.jobs : Staffed(w.jobs[j])
  /\ LocksSound(w, n)
  /\ Conserved(w) /\ Aboard(w) /\ Counted(w)

(* What a sound world means for the properties the runs check.             *)
LEMMA SoundSays ==
  ASSUME Sound(World, nextReservationId)
  PROVE  ClaimedGoodsLocked /\ ClaimsDisjoint /\ NoOrphanLock /\ BooksBalance
  <1>1. \A status : In(World, status) = JobsIn(status)
    BY DEF In, World, JobsIn
  <1>2. Locked(World) /\ Disjoint(World) /\ Owned(World)
    BY DEF Sound, LocksSound
  <1>3. ClaimedGoodsLocked /\ ClaimsDisjoint /\ NoOrphanLock
    BY <1>1, <1>2 DEF Locked, Disjoint, Owned, ClaimedGoodsLocked, ClaimsDisjoint, NoOrphanLock, World
  <1>4. GoodsConserved
    BY DEF Sound, Conserved, GoodsConserved, World, Sum
  <1>5. CargoAboard
    <2>1. \A v, r : Carried(World, v, r) = {j \in JobsIn("InTransit") : jobs[j].resource = r /\ jobs[j].workers = <<v>>}
      BY <1>1 DEF Carried, World
    <2> SUFFICES ASSUME NEW v \in Worker, NEW r \in Resource,
                        NEW carried, carried = {j \in JobsIn("InTransit") :
                                        jobs[j].resource = r /\ jobs[j].workers = <<v>>}
                 PROVE  Total([j \in carried |-> jobs[j].amount], carried) <= Available(v, r)
      BY Zenon DEF CargoAboard
    <2>2. Carried(World, v, r) = carried
      BY <2>1
    <2>3. Cargo(World, v, r) <= qty[v][r] - reserved[v][r]
      BY DEF Sound, Aboard, World
    <2>4. Cargo(World, v, r) = Total([j \in carried |-> jobs[j].amount], carried)
      BY <2>2, Zenon DEF Cargo, World
    <2> QED
      BY <2>3, <2>4 DEF Available
  <1>6. TelemetryAgrees
    BY <1>1 DEF Sound, Counted, TelemetryAgrees, World
  <1> QED
    BY <1>3, <1>4, <1>5, <1>6 DEF BooksBalance

-----------------------------------------------------------------------------
(* Sums over containers and over jobs.                                     *)

LEMMA TotalIsSum == \A f, S : Total(f, S) = SumOf(f, S)
  BY DEF Total, SumOf

LEMMA TotalGrows ==
  ASSUME NEW S, IsFiniteSet(S), NEW x, x \notin S, NEW f \in [S -> Nat],
         NEW h \in [S \cup {x} -> Nat], \A y \in S : h[y] = f[y]
  PROVE  /\ Total(h, S \cup {x}) = Total(f, S) + h[x]
         /\ Total(f, S) \in Nat
  <1>1. SumOf(h, S \cup {x}) = SumOf(f, S) + h[x] /\ SumOf(f, S) \in Nat
    BY SumGrows
  <1> QED
    BY <1>1, TotalIsSum

LEMMA TotalIsNat ==
  ASSUME NEW S, IsFiniteSet(S), NEW f \in [S -> Nat]
  PROVE  Total(f, S) \in Nat
  BY SumIsNat, TotalIsSum

(* One cell of a table of totals is written.                               *)
Written(p, q, c, r, v) ==
  /\ p \in Totals
  /\ \A x \in Container, y \in Resource : p[x][y] = IF x = c /\ y = r THEN v ELSE q[x][y]

LEMMA WrittenSum ==
  ASSUME NEW q \in Totals, NEW c \in Container, NEW r \in Resource, NEW v \in Nat,
         NEW p, Written(p, q, c, r, v), NEW y \in Resource
  PROVE  /\ Sum(q, y) \in Nat /\ Sum(p, y) \in Nat
         /\ Sum(p, y) = IF y = r THEN Sum(q, y) - q[c][r] + v ELSE Sum(q, y)
  <1> DEFINE f == [x \in Container |-> q[x][y]]
             h == [x \in Container |-> p[x][y]]
  <1>2. IsFiniteSet(Container)
    BY PlaceAssumption
  <1>3. f \in [Container -> Nat] /\ h \in [Container -> Nat]
    BY DEF Totals, Written
  <1>4. \A x \in Container : h[x] = IF x = c /\ y = r THEN v ELSE f[x]
    BY DEF Written
  <1>5. Sum(q, y) = SumOf(f, Container) /\ Sum(p, y) = SumOf(h, Container)
    BY TotalIsSum DEF Sum
  <1>6. f[c] = q[c][y]
    OBVIOUS
  <1> HIDE DEF f, h
  <1>7. SumOf(f, Container) \in Nat /\ SumOf(h, Container) \in Nat
    BY <1>2, <1>3, SumIsNat
  <1>8. CASE y = r
    <2>1. Alike(f, h, Container, c) /\ h[c] = v
      BY <1>3, <1>4, <1>8 DEF Alike
    <2>2. SumOf(h, Container) = SumOf(f, Container) - f[c] + h[c]
      BY <1>2, <2>1, SumChanges
    <2> QED
      BY <1>5, <1>6, <1>7, <1>8, <2>1, <2>2
  <1>9. CASE y # r
    <2>1. f = h
      BY <1>3, <1>4, <1>9
    <2> QED
      BY <1>5, <1>7, <1>9, <2>1
  <1> QED
    BY <1>8, <1>9

(* What is taken from one container and put into another is conserved.     *)
LEMMA TwoCells ==
  ASSUME NEW q \in Totals, NEW c \in Container, NEW d \in Container, NEW r \in Resource,
         NEW n \in Nat, NEW left \in Nat, left = q[c][r] - n,
         NEW taken \in Totals, Written(taken, q, c, r, left),
         NEW more \in Nat, more = taken[d][r] + n, NEW p, Written(p, taken, d, r, more),
         NEW y \in Resource
  PROVE  Sum(p, y) = Sum(q, y)
  <1>1. /\ Sum(q, y) \in Nat /\ Sum(taken, y) \in Nat
        /\ Sum(taken, y) = IF y = r THEN Sum(q, y) - q[c][r] + left ELSE Sum(q, y)
    BY WrittenSum
  <1>2. Sum(p, y) = IF y = r THEN Sum(taken, y) - taken[d][r] + more ELSE Sum(taken, y)
    BY WrittenSum
  <1>3. q[c][r] \in Nat /\ taken[d][r] \in Nat
    BY DEF Totals
  <1> QED
    BY <1>1, <1>2, <1>3

LEMMA MoveConserves ==
  ASSUME NEW q \in Totals, NEW c \in Container, NEW d \in Container, NEW r \in Resource,
         NEW n \in Nat, n <= q[c][r], NEW taken, Written(taken, q, c, r, q[c][r] - n),
         NEW p, Written(p, taken, d, r, taken[d][r] + n)
  PROVE  \A y \in Resource : Sum(p, y) = Sum(q, y)
  <1>1. q[c][r] \in Nat /\ q[c][r] - n \in Nat
    BY DEF Totals
  <1>3. taken \in Totals
    BY DEF Written
  <1>4. taken[d][r] + n \in Nat
    BY <1>3 DEF Totals
  <1>5. PICK left \in Nat : left = q[c][r] - n
    BY <1>1
  <1>6. PICK more \in Nat : more = taken[d][r] + n
    BY <1>4
  <1>7. Written(taken, q, c, r, left) /\ Written(p, taken, d, r, more)
    BY <1>5, <1>6
  <1> QED
    BY <1>3, <1>5, <1>6, <1>7, TwoCells

LEMMA MoveWrites ==
  ASSUME NEW q \in Totals, NEW c \in Container, NEW d \in Container, NEW r \in Resource,
         NEW n \in Nat, n <= q[c][r], NEW taken, taken = [q EXCEPT ![c][r] = @ - n],
         NEW p, p = [taken EXCEPT ![d][r] = @ + n]
  PROVE  /\ Written(taken, q, c, r, q[c][r] - n)
         /\ Written(p, taken, d, r, taken[d][r] + n)
  <1>1. q[c][r] \in Nat /\ q[c][r] - n \in Nat
    BY DEF Totals
  <1>2. Written(taken, q, c, r, q[c][r] - n)
    BY <1>1 DEF Totals, Written
  <1>3. taken \in Totals /\ taken[d][r] + n \in Nat
    BY <1>2 DEF Totals, Written
  <1>4. Written(p, taken, d, r, taken[d][r] + n)
    BY <1>3, Zenon DEF Totals, Written
  <1> QED
    BY <1>2, <1>4

-----------------------------------------------------------------------------
(* One job of a list changes.                                              *)

(* b is a but for job j.                                                   *)
Elsewhere(a, b, j) ==
  /\ a \in Seq(JobRecord) /\ b \in Seq(JobRecord) /\ DOMAIN b = DOMAIN a /\ j \in DOMAIN a
  /\ \A i \in DOMAIN a : i # j => b[i] = a[i]

Restated(a, b, j, st) ==
  /\ Elsewhere(a, b, j)
  /\ b[j].status = st /\ b[j].workers = a[j].workers
  /\ b[j].source = a[j].source /\ b[j].destination = a[j].destination
  /\ b[j].resource = a[j].resource /\ b[j].amount = a[j].amount
  /\ b[j].reservation = a[j].reservation

LEMMA StatusRestates ==
  ASSUME NEW a \in Seq(JobRecord), NEW j \in DOMAIN a, NEW st \in Status,
         NEW b, b = [a EXCEPT ![j].status = st]
  PROVE  Restated(a, b, j, st)
  <1>1. a[j] \in JobRecord
    OBVIOUS
  <1>2. [a[j] EXCEPT !.status = st] \in JobRecord
    BY <1>1, Zenon DEF JobRecord, Status
  <1>3. b \in Seq(JobRecord)
    BY <1>2, ExceptSeq
  <1> QED
    BY <1>1, <1>3, Zenon DEF JobRecord, Restated, Elsewhere

LEMMA RecordFields ==
  ASSUME NEW a \in Seq(JobRecord), NEW j \in DOMAIN a
  PROVE  /\ a[j].status \in Status
         /\ a[j].source \in Container /\ a[j].destination \in Container
         /\ a[j].resource \in Resource /\ a[j].amount \in Nat
         /\ a[j].workers \in Seq(Worker)
         /\ a[j].reservation \in ReservationId \cup {NoReservation}
         /\ a[j] \in JobRecord
  <1>1. a[j] \in JobRecord
    OBVIOUS
  <1> QED
    BY <1>1, PlaceAssumption DEF JobRecord, Amount, Status

LEMMA JobsFinite ==
  ASSUME NEW w, w.jobs \in Seq(JobRecord), NEW S, S \subseteq DOMAIN w.jobs
  PROVE  IsFiniteSet(S) /\ Cardinality(S) \in Nat
  <1>1. IsFiniteSet(1 .. Len(w.jobs)) /\ DOMAIN w.jobs = 1 .. Len(w.jobs)
    BY FS_Interval
  <1> QED
    BY <1>1, FS_Subset, FS_CardinalityType

(* Counting the jobs in a state when one changes its state.                *)
Recounted(w, u, j, st) ==
  /\ Cardinality(In(w, st)) \in Nat
  /\ w.jobs[j].status = st => Cardinality(In(w, st)) > 0
  /\ Cardinality(In(u, st))
       = Cardinality(In(w, st)) - (IF w.jobs[j].status = st THEN 1 ELSE 0)
                                + (IF u.jobs[j].status = st THEN 1 ELSE 0)

(* Changing the state of one job moves it from one count to another.       *)
LEMMA CountMoves ==
  ASSUME NEW w, NEW u, NEW j, Elsewhere(w.jobs, u.jobs, j), NEW st
  PROVE  Recounted(w, u, j, st)
  <1> DEFINE rest == In(w, st) \ {j}
  <1>1. /\ j \in DOMAIN w.jobs /\ DOMAIN u.jobs = DOMAIN w.jobs
        /\ w.jobs \in Seq(JobRecord) /\ \A i \in DOMAIN w.jobs : i # j => u.jobs[i] = w.jobs[i]
    BY DEF Elsewhere
  <1>2. In(w, st) = IF w.jobs[j].status = st THEN rest \cup {j} ELSE rest
    BY <1>1 DEF In
  <1>3. In(u, st) = IF u.jobs[j].status = st THEN rest \cup {j} ELSE rest
    BY <1>1 DEF In
  <1>4. rest \subseteq DOMAIN w.jobs /\ j \notin rest
    BY DEF In
  <1> HIDE DEF rest
  <1>5. IsFiniteSet(rest) /\ Cardinality(rest) \in Nat
    BY <1>1, <1>4, JobsFinite
  <1>6. Cardinality(rest \cup {j}) = Cardinality(rest) + 1
    BY <1>4, <1>5, FS_AddElement, Zenon
  <1> QED
    BY <1>2, <1>3, <1>5, <1>6 DEF Recounted

-----------------------------------------------------------------------------
(* The cargo of a worker when one job changes.                             *)

Rest(w, v, r, j) ==
  Total([i \in Carried(w, v, r) \ {j} |-> w.jobs[i].amount], Carried(w, v, r) \ {j})

(* A worker's cargo is what the other jobs weigh, and this one if he       *)
(* carries it.                                                             *)
LEMMA CargoSplits ==
  ASSUME NEW w, w.jobs \in Seq(JobRecord), NEW v, NEW r, NEW j \in DOMAIN w.jobs
  PROVE  /\ Rest(w, v, r, j) \in Nat /\ w.jobs[j].amount \in Nat
         /\ Cargo(w, v, r) = Rest(w, v, r, j)
                               + (IF j \in Carried(w, v, r) THEN w.jobs[j].amount ELSE 0)
  <1> DEFINE all == Carried(w, v, r)
             rest == all \ {j}
             f == [i \in rest |-> w.jobs[i].amount]
             h == [i \in all |-> w.jobs[i].amount]
  <1>1. all \subseteq DOMAIN w.jobs
    BY DEF Carried, In
  <1>2. \A i \in DOMAIN w.jobs : w.jobs[i].amount \in Nat
    BY RecordFields
  <1>3. IsFiniteSet(rest) /\ rest \subseteq DOMAIN w.jobs /\ j \notin rest
    BY <1>1, JobsFinite
  <1>4. Cargo(w, v, r) = Total(h, all) /\ Rest(w, v, r, j) = Total(f, rest)
    BY DEF Cargo, Rest
  <1>5. f \in [rest -> Nat]
    BY <1>2, <1>3
  <1>6. CASE j \in all
    <2>1. all = rest \cup {j}
      BY <1>6
    <2>2. h \in [rest \cup {j} -> Nat] /\ (\A y \in rest : h[y] = f[y]) /\ h[j] = w.jobs[j].amount
      BY <1>1, <1>2, <1>6, <2>1
    <2> HIDE DEF h, f, all, rest
    <2>3. Total(h, rest \cup {j}) = Total(f, rest) + h[j] /\ Total(f, rest) \in Nat
      BY <1>3, <1>5, <2>2, TotalGrows, Zenon
    <2> QED
      BY <1>2, <1>4, <1>6, <2>1, <2>2, <2>3 DEF all
  <1>7. CASE j \notin all
    <2>1. all = rest
      BY <1>7
    <2>2. h = f
      BY <2>1
    <2>3. Total(f, rest) \in Nat
      BY <1>3, <1>5, TotalIsNat
    <2> HIDE DEF h, f, rest
    <2> QED
      BY <1>2, <1>4, <1>7, <2>1, <2>2, <2>3
  <1> QED
    BY <1>6, <1>7

CargoShifts(w, u, v, r, j) ==
  \E rest \in Nat :
    /\ w.jobs[j].amount \in Nat /\ u.jobs[j].amount \in Nat
    /\ Cargo(w, v, r) = rest + (IF j \in Carried(w, v, r) THEN w.jobs[j].amount ELSE 0)
    /\ Cargo(u, v, r) = rest + (IF j \in Carried(u, v, r) THEN u.jobs[j].amount ELSE 0)

(* Only the part of the job that changes can change.                       *)
LEMMA CargoChanges ==
  ASSUME NEW w, NEW u, NEW j, Elsewhere(w.jobs, u.jobs, j), NEW v, NEW r
  PROVE  CargoShifts(w, u, v, r, j)
  <1>1. /\ j \in DOMAIN w.jobs /\ DOMAIN u.jobs = DOMAIN w.jobs
        /\ w.jobs \in Seq(JobRecord) /\ u.jobs \in Seq(JobRecord)
        /\ \A i \in DOMAIN w.jobs : i # j => u.jobs[i] = w.jobs[i]
    BY DEF Elsewhere
  <1>2. Carried(w, v, r) \ {j} = Carried(u, v, r) \ {j}
    BY <1>1 DEF Carried, In
  <1>3. \A i \in Carried(w, v, r) \ {j} : w.jobs[i].amount = u.jobs[i].amount
    BY <1>1 DEF Carried, In
  <1>4. Rest(w, v, r, j) = Rest(u, v, r, j)
    <2> DEFINE S == Carried(w, v, r) \ {j}
               f == [i \in S |-> w.jobs[i].amount]
               h == [i \in S |-> u.jobs[i].amount]
    <2>1. f = h
      BY <1>3
    <2>2. Rest(w, v, r, j) = Total(f, S) /\ Rest(u, v, r, j) = Total(h, S)
      BY <1>2 DEF Rest
    <2> QED
      BY <2>1, <2>2
  <1>5. PICK rest : rest = Rest(w, v, r, j)
    OBVIOUS
  <1>6. /\ rest \in Nat /\ w.jobs[j].amount \in Nat
        /\ Cargo(w, v, r) = rest + (IF j \in Carried(w, v, r) THEN w.jobs[j].amount ELSE 0)
    BY <1>1, <1>5, CargoSplits
  <1>7. /\ u.jobs[j].amount \in Nat
        /\ Cargo(u, v, r) = rest + (IF j \in Carried(u, v, r) THEN u.jobs[j].amount ELSE 0)
    BY <1>1, <1>4, <1>5, CargoSplits
  <1> QED
    BY <1>6, <1>7 DEF CargoShifts

LEMMA CargoStays ==
  ASSUME NEW w, NEW u, NEW v, NEW r, In(u, "InTransit") = In(w, "InTransit"),
         \A i \in In(w, "InTransit") : u.jobs[i] = w.jobs[i]
  PROVE  Cargo(u, v, r) = Cargo(w, v, r)
  <1>1. Carried(u, v, r) = Carried(w, v, r)
    BY DEF Carried
  <1> DEFINE S == Carried(w, v, r)
             f == [i \in S |-> w.jobs[i].amount]
             h == [i \in S |-> u.jobs[i].amount]
  <1>2. f = h
    BY DEF Carried
  <1>3. Cargo(w, v, r) = Total(f, S) /\ Cargo(u, v, r) = Total(h, S)
    BY <1>1 DEF Cargo
  <1> QED
    BY <1>2, <1>3

-----------------------------------------------------------------------------
(* The jobs in a state, but for job j, stay what they are.                 *)
Kept(w, u, j, st) ==
  /\ In(u, st) \ {j} = In(w, st) \ {j}
  /\ \A i \in In(w, st) : i # j => u.jobs[i] = w.jobs[i]

(* Three ways a step can touch claims and locks: not at all,               *)
LEMMA LocksStay ==
  ASSUME NEW w, NEW u, NEW n, LocksSound(w, n), u.held = w.held,
         NEW j, j \notin In(w, "Claimed"), j \notin In(u, "Claimed"), Kept(w, u, j, "Claimed")
  PROVE  LocksSound(u, n)
  <1>0. In(u, "Claimed") = In(w, "Claimed") /\ \A i \in In(w, "Claimed") : u.jobs[i] = w.jobs[i]
    BY DEF Kept
  <1>1. Locked(w) /\ Disjoint(w) /\ Owned(w) /\ Spent(w, n)
    BY DEF LocksSound
  <1>2. Locked(u)
    BY <1>0, <1>1 DEF Locked
  <1>3. Disjoint(u)
    BY <1>0, <1>1 DEF Disjoint
  <1>4. Owned(u)
    BY <1>0, <1>1 DEF Owned
  <1>5. Spent(u, n)
    BY <1>0, <1>1 DEF Spent
  <1> QED
    BY <1>2, <1>3, <1>4, <1>5 DEF LocksSound

(* a claim ends and its lock goes with it,                                 *)
Dropped(w, u, c, id) ==
  /\ \A x \in Container : DOMAIN u.held[x] = IF x = c THEN DOMAIN w.held[x] \ {id} ELSE DOMAIN w.held[x]
  /\ \A x \in Container : \A y \in DOMAIN u.held[x] : u.held[x][y] = w.held[x][y]

LEMMA LockEnds ==
  ASSUME NEW w, NEW u, NEW n, w.jobs \in Seq(JobRecord), LocksSound(w, n), NEW j \in In(w, "Claimed"),
         Dropped(w, u, w.jobs[j].source, w.jobs[j].reservation),
         j \notin In(u, "Claimed"), Kept(w, u, j, "Claimed")
  PROVE  LocksSound(u, n)
  <1>0. /\ In(u, "Claimed") = In(w, "Claimed") \ {j}
        /\ \A i \in In(w, "Claimed") : i # j => u.jobs[i] = w.jobs[i]
    BY DEF Kept
  <1>1. Locked(w) /\ Disjoint(w) /\ Owned(w) /\ Spent(w, n)
    BY DEF LocksSound
  <1>2. \A i \in In(w, "Claimed") : w.jobs[i].source \in Container
    BY RecordFields DEF In
  <1>3. ASSUME NEW i \in In(u, "Claimed")
        PROVE  i \in In(w, "Claimed") /\ i # j /\ u.jobs[i] = w.jobs[i]
    BY <1>0
  <1>4. Disjoint(u)
    BY <1>1, <1>3 DEF Disjoint
  <1>5. Spent(u, n)
    <2> SUFFICES ASSUME NEW c \in Container, NEW id \in DOMAIN u.held[c] PROVE id < n
      BY DEF Spent
    <2>1. id \in DOMAIN w.held[c]
      BY Zenon DEF Dropped
    <2> QED
      BY <1>1, <2>1 DEF Spent
  <1>6. Locked(u)
    <2> SUFFICES ASSUME NEW i \in In(u, "Claimed")
                 PROVE  /\ u.jobs[i].reservation \in DOMAIN u.held[u.jobs[i].source]
                        /\ u.held[u.jobs[i].source][u.jobs[i].reservation]
                             = [resource |-> u.jobs[i].resource, amount |-> u.jobs[i].amount]
      BY Zenon DEF Locked
    <2>1. i \in In(w, "Claimed") /\ i # j /\ u.jobs[i] = w.jobs[i]
      BY <1>3
    <2>0. PICK id : id = w.jobs[i].reservation
      OBVIOUS
    <2>2. PICK c \in Container : c = w.jobs[i].source
      BY <1>2, <2>1
    <2>3. /\ id \in DOMAIN w.held[c]
          /\ w.held[c][id] = [resource |-> w.jobs[i].resource, amount |-> w.jobs[i].amount]
      BY <1>1, <2>1, <2>0, <2>2, Zenon DEF Locked
    <2>4. id # w.jobs[j].reservation
      BY <1>1, <2>1, <2>0, <2>2 DEF Disjoint
    <2>5. id \in DOMAIN u.held[c]
      BY <2>3, <2>4, Zenon DEF Dropped
    <2>6. u.held[c][id] = w.held[c][id]
      BY <2>5 DEF Dropped
    <2> QED
      BY <2>1, <2>0, <2>2, <2>3, <2>5, <2>6, Zenon
  <1>7. Owned(u)
    <2> SUFFICES ASSUME NEW c \in Container, NEW id \in DOMAIN u.held[c]
                 PROVE  \E i \in In(u, "Claimed") : u.jobs[i].source = c /\ u.jobs[i].reservation = id
      BY DEF Owned
    <2>1. id \in DOMAIN w.held[c] /\ ~(c = w.jobs[j].source /\ id = w.jobs[j].reservation)
      <3>1. CASE c = w.jobs[j].source
        <4>1. DOMAIN u.held[c] = DOMAIN w.held[c] \ {w.jobs[j].reservation}
          BY <3>1, Zenon DEF Dropped
        <4> QED
          BY <4>1
      <3>2. CASE c # w.jobs[j].source
        <4>1. DOMAIN u.held[c] = DOMAIN w.held[c]
          BY <3>2, Zenon DEF Dropped
        <4> QED
          BY <3>2, <4>1
      <3> QED
        BY <3>1, <3>2
    <2>2. PICK i \in In(w, "Claimed") : w.jobs[i].source = c /\ w.jobs[i].reservation = id
      BY <1>1, <2>1 DEF Owned
    <2>3. i # j
      BY <2>1, <2>2
    <2> QED
      BY <1>0, <2>2, <2>3
  <1> QED
    BY <1>4, <1>5, <1>6, <1>7 DEF LocksSound

(* a claim begins under an id that locks nothing yet.                      *)
Added(w, u, c, id, lock) ==
  /\ \A x \in Container : DOMAIN u.held[x] = IF x = c THEN DOMAIN w.held[x] \cup {id} ELSE DOMAIN w.held[x]
  /\ \A x \in Container : \A y \in DOMAIN w.held[x] : ~(x = c /\ y = id) => u.held[x][y] = w.held[x][y]
  /\ u.held[c][id] = lock

LEMMA LockBegins ==
  ASSUME NEW w, NEW u, NEW n \in Nat, w.jobs \in Seq(JobRecord), LocksSound(w, n),
         \A c \in Container : DOMAIN w.held[c] \subseteq Nat,
         NEW j \in DOMAIN w.jobs, j \notin In(w, "Claimed"),
         Added(w, u, w.jobs[j].source, n, [resource |-> w.jobs[j].resource, amount |-> w.jobs[j].amount]),
         j \in In(u, "Claimed"), Kept(w, u, j, "Claimed"),
         u.jobs[j].source = w.jobs[j].source, u.jobs[j].resource = w.jobs[j].resource,
         u.jobs[j].amount = w.jobs[j].amount, u.jobs[j].reservation = n
  PROVE  LocksSound(u, n + 1)
  <1>0. /\ In(u, "Claimed") = In(w, "Claimed") \cup {j}
        /\ \A i \in In(w, "Claimed") : u.jobs[i] = w.jobs[i]
    BY DEF Kept
  <1>1. Locked(w) /\ Disjoint(w) /\ Owned(w) /\ Spent(w, n)
    BY DEF LocksSound
  <1>2. \A i \in DOMAIN w.jobs : w.jobs[i].source \in Container
    BY RecordFields
  <1>3. PICK src \in Container : src = w.jobs[j].source
    BY <1>2
  <1>4. PICK lock : lock = [resource |-> w.jobs[j].resource, amount |-> w.jobs[j].amount]
    OBVIOUS
  <1>5. Added(w, u, src, n, lock)
    BY <1>3, <1>4
  <1>6. \A c \in Container : \A x \in DOMAIN w.held[c] : x \in Nat /\ x < n
    BY <1>1 DEF Spent
  <1>7. ASSUME NEW i \in In(w, "Claimed")
        PROVE  /\ i \in DOMAIN w.jobs /\ w.jobs[i].source \in Container
               /\ w.jobs[i].reservation \in DOMAIN w.held[w.jobs[i].source]
               /\ w.jobs[i].reservation # n
    <2>1. i \in DOMAIN w.jobs /\ w.jobs[i].reservation \in DOMAIN w.held[w.jobs[i].source]
      BY <1>1, Zenon DEF Locked, In
    <2>2. PICK c, x : c \in Container /\ x = w.jobs[i].reservation /\ c = w.jobs[i].source
      BY <1>2, <2>1, Zenon
    <2>3. x \in Nat /\ x < n
      BY <1>6, <2>1, <2>2
    <2>4. x # n
      BY <2>3
    <2> QED
      BY <2>1, <2>2, <2>4
  <1>8. Disjoint(u)
    BY <1>0, <1>1, <1>7 DEF Disjoint
  <1>9. Spent(u, n + 1)
    <2> SUFFICES ASSUME NEW c \in Container, NEW id \in DOMAIN u.held[c] PROVE id < n + 1
      BY DEF Spent
    <2>1. id = n \/ id \in DOMAIN w.held[c]
      <3>1. DOMAIN u.held[c] = IF c = src THEN DOMAIN w.held[c] \cup {n} ELSE DOMAIN w.held[c]
        BY <1>5, Zenon DEF Added
      <3> QED
        BY <3>1
    <2>2. id = n \/ (id \in Nat /\ id < n)
      BY <1>6, <2>1
    <2> QED
      BY <2>2
  <1>10. Locked(u)
    <2> SUFFICES ASSUME NEW i \in In(u, "Claimed")
                 PROVE  /\ u.jobs[i].reservation \in DOMAIN u.held[u.jobs[i].source]
                        /\ u.held[u.jobs[i].source][u.jobs[i].reservation]
                             = [resource |-> u.jobs[i].resource, amount |-> u.jobs[i].amount]
      BY Zenon DEF Locked
    <2>1. CASE i = j
      <3>1. n \in DOMAIN u.held[src] /\ u.held[src][n] = lock
        BY <1>5, Zenon DEF Added
      <3> QED
        BY <1>3, <1>4, <2>1, <3>1, Zenon
    <2>2. CASE i # j
      <3>1. i \in In(w, "Claimed") /\ u.jobs[i] = w.jobs[i]
        BY <1>0, <2>2
      <3>0. PICK id : id = w.jobs[i].reservation
        OBVIOUS
      <3>2. PICK c \in Container : c = w.jobs[i].source
        BY <1>7, <3>1, Zenon
      <3>3. /\ id \in DOMAIN w.held[c] /\ id # n
            /\ w.held[c][id] = [resource |-> w.jobs[i].resource, amount |-> w.jobs[i].amount]
        BY <1>1, <1>7, <3>1, <3>0, <3>2, Zenon DEF Locked
      <3>4. id \in DOMAIN u.held[c] /\ u.held[c][id] = w.held[c][id]
        BY <1>5, <3>3, Zenon DEF Added
      <3> QED
        BY <3>1, <3>0, <3>2, <3>3, <3>4, Zenon
    <2> QED
      BY <2>1, <2>2, Zenon
  <1>11. Owned(u)
    <2> SUFFICES ASSUME NEW c \in Container, NEW id \in DOMAIN u.held[c]
                 PROVE  \E i \in In(u, "Claimed") : u.jobs[i].source = c /\ u.jobs[i].reservation = id
      BY DEF Owned
    <2>1. CASE c = src /\ id = n
      BY <1>0, <1>3, <2>1
    <2>2. CASE ~(c = src /\ id = n)
      <3>1. id \in DOMAIN w.held[c]
        <4>1. DOMAIN u.held[c] = IF c = src THEN DOMAIN w.held[c] \cup {n} ELSE DOMAIN w.held[c]
          BY <1>5, Zenon DEF Added
        <4> QED
          BY <2>2, <4>1
      <3>2. PICK i \in In(w, "Claimed") : w.jobs[i].source = c /\ w.jobs[i].reservation = id
        BY <1>1, <3>1 DEF Owned
      <3> QED
        BY <1>0, <3>2
    <2> QED
      BY <2>1, <2>2
  <1> QED
    BY <1>8, <1>9, <1>10, <1>11 DEF LocksSound

LEMMA WorldFields ==
  ASSUME NEW w \in Worlds
  PROVE  /\ w.qty \in Totals /\ w.reserved \in Totals /\ w.held \in [Container -> Locks]
         /\ w.jobs \in Seq(JobRecord) /\ w.telemetry \in Telemetry
  BY DEF Worlds

LEMMA LockFields ==
  ASSUME NEW w \in Worlds, NEW c \in Container
  PROVE  /\ w.held[c] \in Locks /\ DOMAIN w.held[c] \subseteq ReservationId
         /\ w.held[c] = [x \in DOMAIN w.held[c] |-> w.held[c][x]]
         /\ \A id \in DOMAIN w.held[c] : w.held[c][id].amount \in Nat /\ w.held[c][id] \in Holding
  <1>1. w.held[c] \in Locks
    BY WorldFields
  <1>2. PICK ids \in SUBSET ReservationId : w.held[c] \in [ids -> Holding]
    BY <1>1 DEF Locks
  <1> QED
    BY <1>1, <1>2 DEF Holding

LEMMA WithoutLocks ==
  ASSUME NEW f \in Locks, NEW id
  PROVE  Without(f, id) \in Locks
  <1>1. PICK ids \in SUBSET ReservationId : f \in [ids -> Holding]
    BY DEF Locks
  <1>2. Without(f, id) \in [ids \ {id} -> Holding] /\ ids \ {id} \in SUBSET ReservationId
    BY <1>1 DEF Without
  <1> QED
    BY <1>2 DEF Locks

LEMMA WithLocks ==
  ASSUME NEW f \in Locks, NEW id \in ReservationId, NEW h \in Holding
  PROVE  With(f, id, h) \in Locks
  <1>1. PICK ids \in SUBSET ReservationId : f \in [ids -> Holding]
    BY DEF Locks
  <1>2. With(f, id, h) \in [ids \cup {id} -> Holding] /\ ids \cup {id} \in SUBSET ReservationId
    BY <1>1 DEF With
  <1> QED
    BY <1>2 DEF Locks

(* What a pickup does to a sound world.                                    *)
PickedUp(w, u, j, v, taken) ==
  LET job == w.jobs[j] IN
  /\ job.status = "Claimed" /\ v \in Range(job.workers)
  /\ u \in Worlds
  /\ job.amount <= w.reserved[job.source][job.resource]
  /\ Written(taken, w.qty, job.source, job.resource, w.qty[job.source][job.resource] - job.amount)
  /\ Written(u.qty, taken, v, job.resource, taken[v][job.resource] + job.amount)
  /\ Written(u.reserved, w.reserved, job.source, job.resource,
             w.reserved[job.source][job.resource] - job.amount)
  /\ Dropped(w, u, job.source, job.reservation)
  /\ Restated(w.jobs, u.jobs, j, "InTransit")
  /\ u.telemetry.pending = w.telemetry.pending
  /\ u.telemetry.claimed = Less(w.telemetry.claimed)
  /\ u.telemetry.inTransit = w.telemetry.inTransit + 1
  /\ u.telemetry.completed = w.telemetry.completed

(* ExecutePickup: the goods of a claimed job go, locked until then, from   *)
(* its source to the worker's buffer.                                      *)
LEMMA PickupDoes ==
  ASSUME NEW w, NEW n, Sound(w, n), Endpoint \cap Worker = {},
         NEW j \in DOMAIN w.jobs, NEW v \in Worker, CanPickup(w, j, v),
         NEW u, u = AfterPickup(w, j, v)
  PROVE  \E taken : PickedUp(w, u, j, v, taken)
  <1>1. w \in Worlds /\ Staffed(w.jobs[j]) /\ Locked(w) /\ NotOver(w)
    BY DEF Sound, LocksSound
  <1>2. w.qty \in Totals /\ w.reserved \in Totals /\ w.jobs \in Seq(JobRecord) /\ w.telemetry \in Telemetry
    BY <1>1, WorldFields
  <1> DEFINE src == w.jobs[j].source
             id == w.jobs[j].reservation
             r == w.held[src][id].resource
             k == w.held[src][id].amount
             taken == [w.qty EXCEPT ![src][r] = @ - k]
             put == [taken EXCEPT ![v][r] = @ + k]
  <1>3. u = IF HasRoom(taken, v, k)
            THEN [qty |-> put,
                  reserved |-> [w.reserved EXCEPT ![src][r] = @ - k],
                  held |-> [w.held EXCEPT ![src] = Without(@, id)],
                  jobs |-> [w.jobs EXCEPT ![j].status = "InTransit"],
                  telemetry |-> [w.telemetry EXCEPT !.claimed = Less(@), !.inTransit = @ + 1]]
            ELSE [w EXCEPT !.qty = taken,
                           !.reserved = [w.reserved EXCEPT ![src][r] = @ - k],
                           !.held = [w.held EXCEPT ![src] = Without(@, id)]]
    BY Zenon DEF AfterPickup
  <1>6. /\ w.jobs[j].status = "Claimed" /\ v \in Range(w.jobs[j].workers)
        /\ HasRoom(w.qty, v, w.jobs[j].amount) /\ id \in DOMAIN w.held[src]
        /\ k <= w.reserved[src][r]
    BY Zenon DEF CanPickup
  <1>7. w.held[src][id] = [resource |-> w.jobs[j].resource, amount |-> w.jobs[j].amount]
    BY <1>1, <1>6, Zenon DEF Locked, In
  <1>8. r = w.jobs[j].resource /\ k = w.jobs[j].amount
    BY <1>7
  <1>4. src \in Container /\ src \in Endpoint /\ r \in Resource /\ k \in Nat
    BY <1>1, <1>2, <1>8, RecordFields DEF Staffed
  <1> HIDE DEF r, k
  <1>5. v # src /\ v \in Container
    BY <1>4, PlaceAssumption
  <1> HIDE DEF src
  <1>10. k <= w.qty[src][r]
    BY <1>1, <1>2, <1>4, <1>6 DEF NotOver, Totals
  <1>14. taken[v] = w.qty[v]
    BY <1>2, <1>5 DEF Totals
  <1>11. taken = [w.qty EXCEPT ![src][r] = @ - k] /\ put = [taken EXCEPT ![v][r] = @ + k]
    OBVIOUS
  <1> HIDE DEF taken, put, id
  <1>13. /\ Written(taken, w.qty, src, r, w.qty[src][r] - k)
         /\ Written(put, taken, v, r, taken[v][r] + k)
    BY <1>2, <1>4, <1>5, <1>10, <1>11, MoveWrites, Zenon
  <1>15. HasRoom(taken, v, k)
    BY <1>6, <1>8, <1>14 DEF HasRoom, Load
  <1>16. u = [qty |-> put,
              reserved |-> [w.reserved EXCEPT ![src][r] = @ - k],
              held |-> [w.held EXCEPT ![src] = Without(@, id)],
              jobs |-> [w.jobs EXCEPT ![j].status = "InTransit"],
              telemetry |-> [w.telemetry EXCEPT !.claimed = Less(@), !.inTransit = @ + 1]]
    BY <1>3, <1>15, Zenon
  <1>17. /\ u.qty = put /\ u.reserved = [w.reserved EXCEPT ![src][r] = @ - k]
         /\ u.held = [w.held EXCEPT ![src] = Without(@, id)]
         /\ u.jobs = [w.jobs EXCEPT ![j].status = "InTransit"]
         /\ u.telemetry = [w.telemetry EXCEPT !.claimed = Less(@), !.inTransit = @ + 1]
         /\ u = [qty |-> u.qty, reserved |-> u.reserved, held |-> u.held, jobs |-> u.jobs,
                 telemetry |-> u.telemetry]
    BY <1>16
  <1>18. Written(u.reserved, w.reserved, src, r, w.reserved[src][r] - k)
    <2>1. w.reserved[src][r] \in Nat /\ w.reserved[src][r] - k \in Nat
      BY <1>2, <1>4, <1>6 DEF Totals
    <2> QED
      BY <1>2, <1>4, <1>17, <2>1 DEF Totals, Written
  <1>19. u.held \in [Container -> Locks] /\ Dropped(w, u, src, id)
    <2>1. w.held \in [Container -> Locks] /\ Without(w.held[src], id) \in Locks
      BY <1>1, <1>4, WorldFields, LockFields, WithoutLocks
    <2>2. /\ u.held \in [Container -> Locks]
          /\ \A x \in Container : u.held[x] = IF x = src THEN Without(w.held[src], id) ELSE w.held[x]
      BY <1>4, <1>17, <2>1
    <2>3. PICK spent : spent = Without(w.held[src], id)
      OBVIOUS
    <2>4. DOMAIN spent = DOMAIN w.held[src] \ {id} /\ \A y \in DOMAIN spent : spent[y] = w.held[src][y]
      BY <2>3 DEF Without
    <2>5. \A x \in Container : u.held[x] = IF x = src THEN spent ELSE w.held[x]
      BY <2>2, <2>3
    <2> QED
      BY <2>2, <2>4, <2>5, Zenon DEF Dropped
  <1>20. Restated(w.jobs, u.jobs, j, "InTransit")
    BY <1>2, <1>17, StatusRestates, Zenon DEF Status
  <1>21. /\ u.telemetry \in Telemetry
         /\ u.telemetry.pending = w.telemetry.pending
         /\ u.telemetry.claimed = Less(w.telemetry.claimed)
         /\ u.telemetry.inTransit = w.telemetry.inTransit + 1
         /\ u.telemetry.completed = w.telemetry.completed
    <2>1. \A x \in Nat : Less(x) \in Nat /\ x + 1 \in Nat
      BY DEF Less
    <2>2. PICK t \in Telemetry : t = w.telemetry
      BY <1>2
    <2>3. PICK s : s = [t EXCEPT !.claimed = Less(@), !.inTransit = @ + 1]
      OBVIOUS
    <2>4. /\ s \in Telemetry
          /\ s.pending = t.pending /\ s.claimed = Less(t.claimed)
          /\ s.inTransit = t.inTransit + 1 /\ s.completed = t.completed
      BY <2>1, <2>3, Zenon DEF Telemetry
    <2> QED
      BY <1>17, <2>2, <2>3, <2>4
  <1>22. u \in Worlds
    <2>1. u.qty \in Totals /\ u.reserved \in Totals
      BY <1>13, <1>17, <1>18 DEF Written
    <2>2. u.jobs \in Seq(JobRecord)
      BY <1>20 DEF Restated, Elsewhere
    <2> HIDE <1>16
    <2> QED
      BY <1>17, <1>19, <1>21, <2>1, <2>2, Zenon DEF Worlds
  <1>23. PickedUp(w, u, j, v, taken)
    BY <1>6, <1>8, <1>13, <1>17, <1>18, <1>19, <1>20, <1>21, <1>22, Zenon DEF PickedUp, src, id
  <1> QED
    BY <1>23

LEMMA StaysStaffed ==
  ASSUME NEW a, NEW b, NEW j, NEW st, Restated(a, b, j, st),
         \A i \in DOMAIN a : Staffed(a[i]), st # "Pending",
         st \in {"Claimed", "InTransit"} => a[j].status \in {"Claimed", "InTransit"}
  PROVE  \A i \in DOMAIN b : Staffed(b[i])
  <1>1. /\ DOMAIN b = DOMAIN a /\ j \in DOMAIN a /\ \A i \in DOMAIN a : i # j => b[i] = a[i]
        /\ b[j].status = st /\ b[j].workers = a[j].workers
        /\ b[j].source = a[j].source /\ b[j].destination = a[j].destination
    BY DEF Restated, Elsewhere
  <1>2. Staffed(b[j])
    BY <1>1 DEF Staffed
  <1> QED
    BY <1>1, <1>2

(* The jobs in the other states stay what they are.                        *)
LEMMA OthersStay ==
  ASSUME NEW w, NEW u, NEW j, NEW st, Restated(w.jobs, u.jobs, j, st), NEW s,
         st # s
  PROVE  Kept(w, u, j, s)
  BY DEF Restated, Elsewhere, In, Kept

(* A pickup keeps each part of soundness.                                  *)
LEMMA PickupStaffed ==
  ASSUME NEW w, NEW n, Sound(w, n), NEW j \in DOMAIN w.jobs, NEW v \in Worker, NEW u, NEW taken,
         PickedUp(w, u, j, v, taken)
  PROVE  /\ w.jobs[j].workers = <<v>> /\ w.jobs[j].source \in Endpoint
         /\ \A i \in DOMAIN u.jobs : Staffed(u.jobs[i])
  <1>1. /\ w.jobs[j].status = "Claimed" /\ v \in Range(w.jobs[j].workers)
        /\ Restated(w.jobs, u.jobs, j, "InTransit")
    BY Zenon DEF PickedUp
  <1>2. \A i \in DOMAIN w.jobs : Staffed(w.jobs[i])
    BY DEF Sound
  <1>3. w.jobs[j].source \in Endpoint
    BY <1>2 DEF Staffed
  <1>4. PICK x \in Worker : w.jobs[j].workers = <<x>>
    BY <1>1, <1>2 DEF Staffed
  <1>5. v = x
    BY <1>1, <1>4 DEF Range
  <1> QED
    BY <1>1, <1>2, <1>3, <1>4, <1>5, StaysStaffed

LEMMA PickupLocks ==
  ASSUME NEW w, NEW n, Sound(w, n), NEW j \in DOMAIN w.jobs, NEW v \in Worker, NEW u, NEW taken,
         PickedUp(w, u, j, v, taken)
  PROVE  LocksSound(u, n)
  <1>1. /\ w.jobs[j].status = "Claimed" /\ Restated(w.jobs, u.jobs, j, "InTransit")
        /\ Dropped(w, u, w.jobs[j].source, w.jobs[j].reservation)
    BY Zenon DEF PickedUp
  <1>2. j \in In(w, "Claimed")
    BY <1>1 DEF In
  <1>3. LocksSound(w, n) /\ w.jobs \in Seq(JobRecord)
    BY DEF Sound, Worlds
  <1>4. Kept(w, u, j, "Claimed")
    BY <1>1, OthersStay, Zenon
  <1>5. w.jobs \in Seq(JobRecord) /\ LocksSound(w, n)
    BY <1>3
  <1>6. j \notin In(u, "Claimed")
    BY <1>1 DEF Restated, In
  <1> QED
    BY <1>1, <1>2, <1>4, <1>5, <1>6, LockEnds

LEMMA PickupCounted ==
  ASSUME NEW w, NEW n, Sound(w, n), NEW j \in DOMAIN w.jobs, NEW v \in Worker, NEW u, NEW taken,
         PickedUp(w, u, j, v, taken)
  PROVE  Counted(u)
  <1>1. /\ w.jobs[j].status = "Claimed" /\ Restated(w.jobs, u.jobs, j, "InTransit")
    BY Zenon DEF PickedUp
  <1>2. Counted(w) /\ w.telemetry \in Telemetry
    BY DEF Sound, Worlds
  <1>3. Elsewhere(w.jobs, u.jobs, j) /\ u.jobs[j].status = "InTransit"
    BY <1>1 DEF Restated
  <1>4. \A st : Recounted(w, u, j, st)
    BY <1>3, CountMoves
  <1>5. /\ u.telemetry.pending = w.telemetry.pending
        /\ u.telemetry.claimed = Less(w.telemetry.claimed)
        /\ u.telemetry.inTransit = w.telemetry.inTransit + 1
        /\ u.telemetry.completed = w.telemetry.completed
    BY Zenon DEF PickedUp
  <1>6. u.telemetry.pending = Cardinality(In(u, "Pending"))
    BY <1>1, <1>2, <1>3, <1>4, <1>5 DEF Counted, Recounted
  <1>7. u.telemetry.claimed = Cardinality(In(u, "Claimed"))
    BY <1>1, <1>2, <1>3, <1>4, <1>5 DEF Counted, Recounted, Less
  <1>8. u.telemetry.inTransit = Cardinality(In(u, "InTransit"))
    BY <1>1, <1>2, <1>3, <1>4, <1>5 DEF Counted, Recounted
  <1>9. u.telemetry.completed = Cardinality(In(u, "Completed"))
    BY <1>1, <1>2, <1>3, <1>4, <1>5 DEF Counted, Recounted
  <1> QED
    BY <1>6, <1>7, <1>8, <1>9 DEF Counted

LEMMA PickupGoods ==
  ASSUME NEW w, NEW n, Sound(w, n), Endpoint \cap Worker = {},
         NEW j \in DOMAIN w.jobs, NEW v \in Worker, NEW u, NEW taken,
         PickedUp(w, u, j, v, taken)
  PROVE  Conserved(u) /\ NotOver(u) /\ Aboard(u)
  <1> DEFINE src == w.jobs[j].source
             r == w.jobs[j].resource
             k == w.jobs[j].amount
  <1>1. w \in Worlds /\ NotOver(w) /\ Conserved(w) /\ Aboard(w)
    BY DEF Sound
  <1>2. w.qty \in Totals /\ w.reserved \in Totals /\ w.jobs \in Seq(JobRecord)
    BY <1>1, WorldFields
  <1>3. u.qty \in Totals /\ u.reserved \in Totals
    BY WorldFields, Zenon DEF PickedUp
  <1>4. r \in Resource /\ k \in Nat /\ src \in Container /\ src \in Endpoint /\ v \in Container
    BY <1>2, RecordFields, PickupStaffed, PlaceAssumption
  <1>5. /\ w.jobs[j].status = "Claimed" /\ w.jobs[j].workers = <<v>>
        /\ Elsewhere(w.jobs, u.jobs, j)
        /\ u.jobs[j].status = "InTransit" /\ u.jobs[j].workers = <<v>>
        /\ u.jobs[j].resource = r /\ u.jobs[j].amount = k
    <2>1. w.jobs[j].workers = <<v>>
      BY PickupStaffed
    <2>2. w.jobs[j].status = "Claimed" /\ Restated(w.jobs, u.jobs, j, "InTransit")
      BY Zenon DEF PickedUp
    <2> QED
      BY <2>1, <2>2 DEF Restated
  <1>6. /\ k <= w.reserved[src][r]
        /\ Written(taken, w.qty, src, r, w.qty[src][r] - k)
        /\ Written(u.qty, taken, v, r, taken[v][r] + k)
        /\ Written(u.reserved, w.reserved, src, r, w.reserved[src][r] - k)
    BY Zenon DEF PickedUp
  <1> HIDE DEF src, r, k
  <1>7. w.reserved[src][r] <= w.qty[src][r] /\ w.qty[src][r] \in Nat /\ w.reserved[src][r] \in Nat
    BY <1>1, <1>2, <1>4 DEF NotOver, Totals
  <1>8. k <= w.qty[src][r]
    BY <1>4, <1>6, <1>7
  <1>9. Conserved(u)
    <2>1. \A y \in Resource : Sum(u.qty, y) = Sum(w.qty, y)
      BY <1>2, <1>4, <1>6, <1>8, MoveConserves
    <2> QED
      BY <1>1, <2>1 DEF Conserved
  <1>10. ASSUME NEW c \in Container, NEW y \in Resource
         PROVE  /\ u.qty[c][y] = IF c = src /\ y = r THEN w.qty[c][y] - k
                                 ELSE IF c = v /\ y = r THEN w.qty[c][y] + k ELSE w.qty[c][y]
                /\ u.reserved[c][y] = IF c = src /\ y = r THEN w.reserved[c][y] - k
                                      ELSE w.reserved[c][y]
    <2>1. v # src
      BY <1>4
    <2>2. taken[c][y] = IF c = src /\ y = r THEN w.qty[src][r] - k ELSE w.qty[c][y]
      BY <1>6 DEF Written
    <2>3. u.qty[c][y] = IF c = v /\ y = r THEN taken[v][r] + k ELSE taken[c][y]
      BY <1>6 DEF Written
    <2>4. u.reserved[c][y] = IF c = src /\ y = r THEN w.reserved[src][r] - k ELSE w.reserved[c][y]
      BY <1>6 DEF Written
    <2> QED
      BY <2>1, <2>2, <2>3, <2>4
  <1>11. NotOver(u)
    <2> SUFFICES ASSUME NEW c \in Container, NEW y \in Resource
                 PROVE  u.reserved[c][y] <= u.qty[c][y]
      BY DEF NotOver
    <2>1. w.reserved[c][y] <= w.qty[c][y] /\ w.reserved[c][y] \in Nat /\ w.qty[c][y] \in Nat
      BY <1>1, <1>2 DEF NotOver, Totals
    <2> QED
      BY <1>4, <1>10, <2>1
  <1>12. Aboard(u)
    <2> SUFFICES ASSUME NEW x \in Worker, NEW y \in Resource
                 PROVE  Cargo(u, x, y) <= u.qty[x][y] - u.reserved[x][y]
      BY DEF Aboard
    <2>1. /\ Cargo(w, x, y) \in Nat
          /\ Cargo(u, x, y)
               = Cargo(w, x, y) - (IF j \in Carried(w, x, y) THEN w.jobs[j].amount ELSE 0)
                                + (IF j \in Carried(u, x, y) THEN u.jobs[j].amount ELSE 0)
      <3>0. Elsewhere(w.jobs, u.jobs, j)
        BY <1>5
      <3>2. CargoShifts(w, u, x, y, j)
        BY <3>0, CargoChanges
      <3>1. PICK rest \in Nat :
              /\ w.jobs[j].amount \in Nat /\ u.jobs[j].amount \in Nat
              /\ Cargo(w, x, y) = rest + (IF j \in Carried(w, x, y) THEN w.jobs[j].amount ELSE 0)
              /\ Cargo(u, x, y) = rest + (IF j \in Carried(u, x, y) THEN u.jobs[j].amount ELSE 0)
        BY <3>2 DEF CargoShifts
      <3> QED
        BY <3>1
    <2>2. j \notin Carried(w, x, y)
      BY <1>5 DEF Carried, In
    <2>3. j \in Carried(u, x, y) => x = v /\ y = r
      <3>1. <<v>> = <<x>> => v = x
        OBVIOUS
      <3> QED
        BY <1>5, <3>1 DEF Carried, In
    <2>4. x \in Container /\ x # src
      BY <1>4, PlaceAssumption
    <2>5. Cargo(w, x, y) <= w.qty[x][y] - w.reserved[x][y] /\ w.qty[x][y] \in Nat /\ w.reserved[x][y] \in Nat
      BY <1>1, <1>2, <2>4 DEF Aboard, Totals
    <2>6. /\ u.qty[x][y] = IF x = v /\ y = r THEN w.qty[x][y] + k ELSE w.qty[x][y]
          /\ u.reserved[x][y] = w.reserved[x][y]
      BY <1>10, <2>4
    <2>7. Cargo(u, x, y) <= Cargo(w, x, y) + (IF x = v /\ y = r THEN k ELSE 0)
      BY <1>4, <1>5, <2>1, <2>2, <2>3
    <2>8. Cargo(u, x, y) \in Int
      BY <1>4, <1>5, <2>1, <2>2
    <2> QED
      BY <1>4, <2>1, <2>5, <2>6, <2>7, <2>8
  <1> QED
    BY <1>9, <1>11, <1>12

LEMMA PickupSound ==
  ASSUME NEW w, NEW n, Sound(w, n), Endpoint \cap Worker = {},
         NEW j \in DOMAIN w.jobs, NEW v \in Worker, CanPickup(w, j, v),
         NEW u, u = AfterPickup(w, j, v)
  PROVE  Sound(u, n) /\ Restated(w.jobs, u.jobs, j, "InTransit") /\ w.jobs[j].status = "Claimed"
  <1>1. PICK taken : PickedUp(w, u, j, v, taken)
    BY PickupDoes
  <1>2. Conserved(u) /\ NotOver(u) /\ Aboard(u)
    BY <1>1, PickupGoods
  <1>3. Counted(u)
    BY <1>1, PickupCounted
  <1>4. LocksSound(u, n)
    BY <1>1, PickupLocks
  <1>5. \A i \in DOMAIN u.jobs : Staffed(u.jobs[i])
    BY <1>1, PickupStaffed
  <1>6. /\ u \in Worlds /\ Restated(w.jobs, u.jobs, j, "InTransit")
        /\ w.jobs[j].status = "Claimed"
    BY <1>1, Zenon DEF PickedUp
  <1>7. n \in Nat
    BY DEF Sound
  <1> QED
    BY <1>2, <1>3, <1>4, <1>5, <1>6, <1>7 DEF Sound

(* What a dropoff does to a sound world.                                   *)
DroppedOff(w, u, j, v, taken) ==
  LET job == w.jobs[j] IN
  /\ job.status = "InTransit" /\ v \in Range(job.workers)
  /\ u \in Worlds
  /\ job.amount <= w.qty[v][job.resource] - w.reserved[v][job.resource]
  /\ Written(taken, w.qty, v, job.resource, w.qty[v][job.resource] - job.amount)
  /\ Written(u.qty, taken, job.destination, job.resource, taken[job.destination][job.resource] + job.amount)
  /\ u.reserved = w.reserved /\ u.held = w.held
  /\ Restated(w.jobs, u.jobs, j, "Completed")
  /\ u.telemetry.pending = w.telemetry.pending
  /\ u.telemetry.claimed = w.telemetry.claimed
  /\ u.telemetry.inTransit = Less(w.telemetry.inTransit)
  /\ u.telemetry.completed = w.telemetry.completed + 1

(* ExecuteDropoff: the goods of a job in transit go from the worker's      *)
(* buffer to its destination.                                              *)
LEMMA DropoffDoes ==
  ASSUME NEW w, NEW n, Sound(w, n),
         NEW j \in DOMAIN w.jobs, NEW v \in Worker, CanDropoff(w, j, v),
         NEW u, u = AfterDropoff(w, j, v)
  PROVE  \E taken : DroppedOff(w, u, j, v, taken)
  <1>1. w \in Worlds
    BY DEF Sound
  <1>2. w.qty \in Totals /\ w.reserved \in Totals /\ w.jobs \in Seq(JobRecord) /\ w.telemetry \in Telemetry
    BY <1>1, WorldFields
  <1> DEFINE to == w.jobs[j].destination
             r == w.jobs[j].resource
             k == w.jobs[j].amount
             taken == [w.qty EXCEPT ![v][r] = @ - k]
             put == [taken EXCEPT ![to][r] = @ + k]
  <1>3. u = [w EXCEPT !.qty = put, !.jobs[j].status = "Completed",
                      !.telemetry.inTransit = Less(@), !.telemetry.completed = @ + 1]
    BY DEF AfterDropoff, Moved
  <1>4. to \in Container /\ r \in Resource /\ k \in Nat /\ v \in Container
    BY <1>2, RecordFields, PlaceAssumption
  <1>6. /\ w.jobs[j].status = "InTransit" /\ v \in Range(w.jobs[j].workers)
        /\ k <= w.qty[v][r] - w.reserved[v][r]
    BY DEF CanDropoff
  <1> HIDE DEF to, r, k
  <1>10. k <= w.qty[v][r]
    BY <1>2, <1>4, <1>6 DEF Totals
  <1>11. taken = [w.qty EXCEPT ![v][r] = @ - k] /\ put = [taken EXCEPT ![to][r] = @ + k]
    OBVIOUS
  <1> HIDE DEF taken, put
  <1>13. /\ Written(taken, w.qty, v, r, w.qty[v][r] - k)
         /\ Written(put, taken, to, r, taken[to][r] + k)
    BY <1>2, <1>4, <1>10, <1>11, MoveWrites, Zenon
  <1>16. /\ u.qty = put /\ u.reserved = w.reserved /\ u.held = w.held
         /\ u.jobs = [w.jobs EXCEPT ![j].status = "Completed"]
         /\ u = [qty |-> u.qty, reserved |-> u.reserved, held |-> u.held, jobs |-> u.jobs,
                 telemetry |-> u.telemetry]
    BY <1>1, <1>3, Zenon DEF Worlds
  <1>17. u.telemetry = [[w.telemetry EXCEPT !.inTransit = Less(@)] EXCEPT !.completed = @ + 1]
    BY <1>1, <1>3 DEF Worlds
  <1>20. Restated(w.jobs, u.jobs, j, "Completed")
    BY <1>2, <1>16, StatusRestates, Zenon DEF Status
  <1>21. /\ u.telemetry \in Telemetry
         /\ u.telemetry.pending = w.telemetry.pending
         /\ u.telemetry.claimed = w.telemetry.claimed
         /\ u.telemetry.inTransit = Less(w.telemetry.inTransit)
         /\ u.telemetry.completed = w.telemetry.completed + 1
    <2>1. \A x \in Nat : Less(x) \in Nat /\ x + 1 \in Nat
      BY DEF Less
    <2>2. PICK t \in Telemetry : t = w.telemetry
      BY <1>2
    <2>3. PICK s : s = [[t EXCEPT !.inTransit = Less(@)] EXCEPT !.completed = @ + 1]
      OBVIOUS
    <2>4. /\ s \in Telemetry
          /\ s.pending = t.pending /\ s.claimed = t.claimed
          /\ s.inTransit = Less(t.inTransit) /\ s.completed = t.completed + 1
      BY <2>1, <2>3, Zenon DEF Telemetry
    <2> QED
      BY <1>17, <2>2, <2>3, <2>4
  <1>22. u \in Worlds
    <2>1. u.qty \in Totals /\ u.reserved \in Totals /\ u.held \in [Container -> Locks]
      BY <1>1, <1>2, <1>13, <1>16, WorldFields DEF Written
    <2>2. u.jobs \in Seq(JobRecord)
      BY <1>20 DEF Restated, Elsewhere
    <2> QED
      BY <1>16, <1>21, <2>1, <2>2, Zenon DEF Worlds
  <1>23. DroppedOff(w, u, j, v, taken)
    BY <1>6, <1>13, <1>16, <1>20, <1>21, <1>22, Zenon DEF DroppedOff, to, r, k
  <1> QED
    BY <1>23

(* A dropoff keeps each part of soundness.                                 *)
LEMMA DropoffStaffed ==
  ASSUME NEW w, NEW n, Sound(w, n), NEW j \in DOMAIN w.jobs, NEW v \in Worker, NEW u, NEW taken,
         DroppedOff(w, u, j, v, taken)
  PROVE  /\ w.jobs[j].workers = <<v>> /\ w.jobs[j].destination \in Endpoint
         /\ \A i \in DOMAIN u.jobs : Staffed(u.jobs[i])
  <1>1. /\ w.jobs[j].status = "InTransit" /\ v \in Range(w.jobs[j].workers)
        /\ Restated(w.jobs, u.jobs, j, "Completed")
    BY Zenon DEF DroppedOff
  <1>2. \A i \in DOMAIN w.jobs : Staffed(w.jobs[i])
    BY DEF Sound
  <1>3. w.jobs[j].destination \in Endpoint
    BY <1>2 DEF Staffed
  <1>4. PICK x \in Worker : w.jobs[j].workers = <<x>>
    BY <1>1, <1>2 DEF Staffed
  <1>5. v = x
    BY <1>1, <1>4 DEF Range
  <1> QED
    BY <1>1, <1>2, <1>3, <1>4, <1>5, StaysStaffed

LEMMA DropoffLocks ==
  ASSUME NEW w, NEW n, Sound(w, n), NEW j \in DOMAIN w.jobs, NEW v \in Worker, NEW u, NEW taken,
         DroppedOff(w, u, j, v, taken)
  PROVE  LocksSound(u, n)
  <1>1. /\ w.jobs[j].status = "InTransit" /\ Restated(w.jobs, u.jobs, j, "Completed")
        /\ u.held = w.held
    BY Zenon DEF DroppedOff
  <1>2. j \notin In(w, "Claimed") /\ j \notin In(u, "Claimed")
    BY <1>1 DEF In, Restated
  <1>3. LocksSound(w, n)
    BY DEF Sound
  <1>4. Kept(w, u, j, "Claimed")
    BY <1>1, OthersStay, Zenon
  <1> QED
    BY <1>1, <1>2, <1>3, <1>4, LocksStay

LEMMA DropoffCounted ==
  ASSUME NEW w, NEW n, Sound(w, n), NEW j \in DOMAIN w.jobs, NEW v \in Worker, NEW u, NEW taken,
         DroppedOff(w, u, j, v, taken)
  PROVE  Counted(u)
  <1>1. w.jobs[j].status = "InTransit" /\ Restated(w.jobs, u.jobs, j, "Completed")
    BY Zenon DEF DroppedOff
  <1>2. Counted(w) /\ w.telemetry \in Telemetry
    BY DEF Sound, Worlds
  <1>3. Elsewhere(w.jobs, u.jobs, j) /\ u.jobs[j].status = "Completed"
    BY <1>1 DEF Restated
  <1>4. \A st : Recounted(w, u, j, st)
    BY <1>3, CountMoves
  <1>5. /\ u.telemetry.pending = w.telemetry.pending
        /\ u.telemetry.claimed = w.telemetry.claimed
        /\ u.telemetry.inTransit = Less(w.telemetry.inTransit)
        /\ u.telemetry.completed = w.telemetry.completed + 1
    BY Zenon DEF DroppedOff
  <1>6. u.telemetry.pending = Cardinality(In(u, "Pending"))
    BY <1>1, <1>2, <1>3, <1>4, <1>5 DEF Counted, Recounted
  <1>7. u.telemetry.claimed = Cardinality(In(u, "Claimed"))
    BY <1>1, <1>2, <1>3, <1>4, <1>5 DEF Counted, Recounted
  <1>8. u.telemetry.inTransit = Cardinality(In(u, "InTransit"))
    BY <1>1, <1>2, <1>3, <1>4, <1>5 DEF Counted, Recounted, Less
  <1>9. u.telemetry.completed = Cardinality(In(u, "Completed"))
    BY <1>1, <1>2, <1>3, <1>4, <1>5 DEF Counted, Recounted
  <1> QED
    BY <1>6, <1>7, <1>8, <1>9 DEF Counted

LEMMA DropoffGoods ==
  ASSUME NEW w, NEW n, Sound(w, n), Endpoint \cap Worker = {},
         NEW j \in DOMAIN w.jobs, NEW v \in Worker, NEW u, NEW taken,
         DroppedOff(w, u, j, v, taken)
  PROVE  Conserved(u) /\ NotOver(u) /\ Aboard(u)
  <1> DEFINE to == w.jobs[j].destination
             r == w.jobs[j].resource
             k == w.jobs[j].amount
  <1>1. w \in Worlds /\ NotOver(w) /\ Conserved(w) /\ Aboard(w)
    BY DEF Sound
  <1>2. w.qty \in Totals /\ w.reserved \in Totals /\ w.jobs \in Seq(JobRecord)
    BY <1>1, WorldFields
  <1>4. r \in Resource /\ k \in Nat /\ to \in Container /\ to \in Endpoint /\ v \in Container
    BY <1>2, RecordFields, DropoffStaffed, PlaceAssumption
  <1>5. /\ w.jobs[j].status = "InTransit" /\ w.jobs[j].workers = <<v>>
        /\ Elsewhere(w.jobs, u.jobs, j) /\ u.jobs[j].status = "Completed"
    <2>1. w.jobs[j].workers = <<v>>
      BY DropoffStaffed
    <2>2. w.jobs[j].status = "InTransit" /\ Restated(w.jobs, u.jobs, j, "Completed")
      BY Zenon DEF DroppedOff
    <2> QED
      BY <2>1, <2>2 DEF Restated
  <1>6. /\ k <= w.qty[v][r] - w.reserved[v][r]
        /\ Written(taken, w.qty, v, r, w.qty[v][r] - k)
        /\ Written(u.qty, taken, to, r, taken[to][r] + k)
        /\ u.reserved = w.reserved
    BY Zenon DEF DroppedOff
  <1> HIDE DEF to, r, k
  <1>7. w.qty[v][r] \in Nat /\ w.reserved[v][r] \in Nat
    BY <1>2, <1>4 DEF Totals
  <1>8. k <= w.qty[v][r]
    BY <1>4, <1>6, <1>7
  <1>9. Conserved(u)
    <2>1. \A y \in Resource : Sum(u.qty, y) = Sum(w.qty, y)
      BY <1>2, <1>4, <1>6, <1>8, MoveConserves
    <2> QED
      BY <1>1, <2>1 DEF Conserved
  <1>10. ASSUME NEW c \in Container, NEW y \in Resource
         PROVE  u.qty[c][y] = IF c = v /\ y = r THEN w.qty[c][y] - k
                              ELSE IF c = to /\ y = r THEN w.qty[c][y] + k ELSE w.qty[c][y]
    <2>1. v # to
      BY <1>4
    <2>2. taken[c][y] = IF c = v /\ y = r THEN w.qty[v][r] - k ELSE w.qty[c][y]
      BY <1>6 DEF Written
    <2>3. u.qty[c][y] = IF c = to /\ y = r THEN taken[to][r] + k ELSE taken[c][y]
      BY <1>6 DEF Written
    <2> QED
      BY <2>1, <2>2, <2>3
  <1>11. NotOver(u)
    <2> SUFFICES ASSUME NEW c \in Container, NEW y \in Resource
                 PROVE  w.reserved[c][y] <= u.qty[c][y]
      BY <1>6 DEF NotOver
    <2>1. w.reserved[c][y] <= w.qty[c][y] /\ w.reserved[c][y] \in Nat /\ w.qty[c][y] \in Nat
      BY <1>1, <1>2 DEF NotOver, Totals
    <2> QED
      BY <1>4, <1>6, <1>10, <2>1
  <1>12. Aboard(u)
    <2> SUFFICES ASSUME NEW x \in Worker, NEW y \in Resource
                 PROVE  Cargo(u, x, y) <= u.qty[x][y] - w.reserved[x][y]
      BY <1>6 DEF Aboard
    <2>1. /\ Cargo(w, x, y) \in Nat
          /\ Cargo(u, x, y)
               = Cargo(w, x, y) - (IF j \in Carried(w, x, y) THEN k ELSE 0)
                                + (IF j \in Carried(u, x, y) THEN u.jobs[j].amount ELSE 0)
      <3>1. Elsewhere(w.jobs, u.jobs, j)
        BY <1>5
      <3>2. CargoShifts(w, u, x, y, j)
        BY <3>1, CargoChanges
      <3>3. PICK rest \in Nat :
              /\ w.jobs[j].amount \in Nat /\ u.jobs[j].amount \in Nat
              /\ Cargo(w, x, y) = rest + (IF j \in Carried(w, x, y) THEN w.jobs[j].amount ELSE 0)
              /\ Cargo(u, x, y) = rest + (IF j \in Carried(u, x, y) THEN u.jobs[j].amount ELSE 0)
        BY <3>2 DEF CargoShifts
      <3> QED
        BY <3>3 DEF k
    <2>2. j \notin Carried(u, x, y)
      BY <1>5 DEF Carried, In
    <2>3. x = v /\ y = r => j \in Carried(w, x, y)
      BY <1>5 DEF Carried, In, r
    <2>4. x \in Container /\ x # to
      BY <1>4, PlaceAssumption
    <2>5. Cargo(w, x, y) <= w.qty[x][y] - w.reserved[x][y] /\ w.qty[x][y] \in Nat /\ w.reserved[x][y] \in Nat
      BY <1>1, <1>2, <2>4 DEF Aboard, Totals
    <2>6. u.qty[x][y] = IF x = v /\ y = r THEN w.qty[x][y] - k ELSE w.qty[x][y]
      BY <1>10, <2>4
    <2>7. Cargo(u, x, y) \in Int /\ Cargo(u, x, y) <= Cargo(w, x, y) - (IF x = v /\ y = r THEN k ELSE 0)
      BY <1>4, <2>1, <2>2, <2>3
    <2> QED
      BY <1>4, <2>1, <2>5, <2>6, <2>7
  <1> QED
    BY <1>9, <1>11, <1>12

LEMMA DropoffSound ==
  ASSUME NEW w, NEW n, Sound(w, n), Endpoint \cap Worker = {},
         NEW j \in DOMAIN w.jobs, NEW v \in Worker, CanDropoff(w, j, v),
         NEW u, u = AfterDropoff(w, j, v)
  PROVE  Sound(u, n) /\ Restated(w.jobs, u.jobs, j, "Completed") /\ w.jobs[j].status = "InTransit"
  <1>1. PICK taken : DroppedOff(w, u, j, v, taken)
    BY DropoffDoes
  <1>2. Conserved(u) /\ NotOver(u) /\ Aboard(u)
    BY <1>1, DropoffGoods
  <1>3. Counted(u)
    BY <1>1, DropoffCounted
  <1>4. LocksSound(u, n)
    BY <1>1, DropoffLocks
  <1>5. \A i \in DOMAIN u.jobs : Staffed(u.jobs[i])
    BY <1>1, DropoffStaffed
  <1>6. /\ u \in Worlds /\ Restated(w.jobs, u.jobs, j, "Completed")
        /\ w.jobs[j].status = "InTransit"
    BY <1>1, Zenon DEF DroppedOff
  <1>7. n \in Nat
    BY DEF Sound
  <1> QED
    BY <1>2, <1>3, <1>4, <1>5, <1>6, <1>7 DEF Sound

-----------------------------------------------------------------------------
(* The commands of the job board.                                          *)

(* What a new job does to a sound world.                                   *)
Created(w, u, job) ==
  /\ u \in Worlds /\ u.qty = w.qty /\ u.reserved = w.reserved /\ u.held = w.held
  /\ job \in JobRecord /\ Staffed(job) /\ job.status = "Pending"
  /\ u.jobs = Append(w.jobs, job)
  /\ u.telemetry.pending = w.telemetry.pending + 1
  /\ u.telemetry.claimed = w.telemetry.claimed
  /\ u.telemetry.inTransit = w.telemetry.inTransit
  /\ u.telemetry.completed = w.telemetry.completed

LEMMA CreatedSound ==
  ASSUME NEW w, NEW n, Sound(w, n), NEW u, NEW job, Created(w, u, job)
  PROVE  Sound(u, n)
  <1>1. w \in Worlds /\ w.jobs \in Seq(JobRecord) /\ w.telemetry \in Telemetry
    BY WorldFields DEF Sound
  <1>2. /\ u \in Worlds /\ u.qty = w.qty /\ u.reserved = w.reserved /\ u.held = w.held
        /\ u.jobs = Append(w.jobs, job) /\ job \in JobRecord /\ Staffed(job) /\ job.status = "Pending"
    BY DEF Created
  <1> DEFINE m == Len(w.jobs) + 1
  <1>3. /\ DOMAIN u.jobs = DOMAIN w.jobs \cup {m} /\ m \notin DOMAIN w.jobs
        /\ u.jobs[m] = job /\ \A i \in DOMAIN w.jobs : u.jobs[i] = w.jobs[i]
    BY <1>1, <1>2
  <1> HIDE DEF m
  <1>4. ASSUME NEW st, st # "Pending"
        PROVE  In(u, st) = In(w, st)
    BY <1>2, <1>3, <1>4 DEF In
  <1>5. In(u, "Pending") = In(w, "Pending") \cup {m} /\ m \notin In(w, "Pending")
    BY <1>2, <1>3 DEF In
  <1>6. Counted(u)
    <2>1. Counted(w)
      BY DEF Sound
    <2>2. IsFiniteSet(In(w, "Pending")) /\ Cardinality(In(w, "Pending")) \in Nat
      <3>1. In(w, "Pending") \subseteq DOMAIN w.jobs
        BY DEF In
      <3> QED
        BY <1>1, <3>1, JobsFinite
    <2>3. Cardinality(In(u, "Pending")) = Cardinality(In(w, "Pending")) + 1
      BY <1>5, <2>2, FS_AddElement
    <2>4. /\ In(u, "Claimed") = In(w, "Claimed") /\ In(u, "InTransit") = In(w, "InTransit")
          /\ In(u, "Completed") = In(w, "Completed")
      BY <1>4
    <2>5. /\ u.telemetry.pending = w.telemetry.pending + 1
          /\ u.telemetry.claimed = w.telemetry.claimed
          /\ u.telemetry.inTransit = w.telemetry.inTransit
          /\ u.telemetry.completed = w.telemetry.completed
      BY DEF Created
    <2> QED
      BY <2>1, <2>3, <2>4, <2>5 DEF Counted
  <1>7. LocksSound(u, n)
    <2>1. m \notin In(w, "Claimed") /\ m \notin In(u, "Claimed")
      BY <1>2, <1>3 DEF In
    <2>2. Kept(w, u, m, "Claimed")
      BY <1>3, <1>4 DEF Kept, In
    <2>3. LocksSound(w, n)
      BY DEF Sound
    <2> QED
      BY <1>2, <2>1, <2>2, <2>3, LocksStay
  <1>8. \A i \in DOMAIN u.jobs : Staffed(u.jobs[i])
    BY <1>2, <1>3 DEF Sound
  <1>9. Conserved(u) /\ NotOver(u)
    BY <1>2 DEF Sound, Conserved, NotOver
  <1>10. Aboard(u)
    <2> SUFFICES ASSUME NEW x \in Worker, NEW y \in Resource
                 PROVE  Cargo(u, x, y) <= w.qty[x][y] - w.reserved[x][y]
      BY <1>2 DEF Aboard
    <2>1. Cargo(u, x, y) = Cargo(w, x, y)
      <3>1. In(u, "InTransit") = In(w, "InTransit")
        BY <1>4
      <3>2. \A i \in In(w, "InTransit") : u.jobs[i] = w.jobs[i]
        BY <1>3 DEF In
      <3> QED
        BY <3>1, <3>2, CargoStays
    <2> QED
      BY <2>1 DEF Sound, Aboard
  <1>11. n \in Nat
    BY DEF Sound
  <1> QED
    BY <1>2, <1>6, <1>7, <1>8, <1>9, <1>10, <1>11 DEF Sound

(* CreateJob keeps a world sound.                                          *)
LEMMA CreateSound ==
  ASSUME Sound(World, nextReservationId),
         NEW actor \in Actor, NEW s \in Endpoint, NEW d \in Endpoint, NEW r \in Resource,
         NEW n \in Amount, CreateJob(actor, s, d, r, n)
  PROVE  Sound(World', nextReservationId')
  <1>1. PICK w, u : w = World /\ u = World'
    OBVIOUS
  <1> DEFINE job == [status |-> "Pending", owner |-> actor, source |-> s,
                     destination |-> d, resource |-> r, amount |-> n,
                     workers |-> <<>>, reservation |-> NoReservation]
  <1>2. /\ jobs' = Append(jobs, job) /\ telemetry' = [telemetry EXCEPT !.pending = @ + 1]
        /\ qty' = qty /\ reserved' = reserved /\ held' = held
        /\ nextReservationId' = nextReservationId
    BY DEF CreateJob, ledgerVars
  <1>3. /\ job \in JobRecord /\ Staffed(job) /\ job.status = "Pending"
    <2>1. s \in Container /\ d \in Container
      BY PlaceAssumption
    <2>2. <<>> \in Seq(Worker)
      OBVIOUS
    <2> QED
      BY <2>1, <2>2 DEF JobRecord, Staffed
  <1> HIDE DEF job
  <1>4. World \in Worlds
    BY DEF Sound
  <1>5. /\ qty \in Totals /\ reserved \in Totals /\ held \in [Container -> Locks]
        /\ jobs \in Seq(JobRecord) /\ telemetry \in Telemetry
    BY <1>4 DEF World, Worlds
  <1>6. /\ telemetry' \in Telemetry /\ telemetry'.pending = telemetry.pending + 1
        /\ telemetry'.claimed = telemetry.claimed
        /\ telemetry'.inTransit = telemetry.inTransit
        /\ telemetry'.completed = telemetry.completed
    <2>1. PICK t \in Telemetry : t = telemetry
      BY <1>5
    <2>2. PICK x : x = [t EXCEPT !.pending = @ + 1]
      BY Zenon
    <2>3. /\ x \in Telemetry /\ x.pending = t.pending + 1 /\ x.claimed = t.claimed
          /\ x.inTransit = t.inTransit /\ x.completed = t.completed
      BY <2>2 DEF Telemetry
    <2> QED
      BY <1>2, <2>1, <2>2, <2>3
  <1>7. jobs' \in Seq(JobRecord)
    BY <1>2, <1>3, <1>5
  <1>8. /\ World' = [qty |-> qty, reserved |-> reserved, held |-> held,
                     jobs |-> jobs', telemetry |-> telemetry']
        /\ World'.qty = qty /\ World'.reserved = reserved /\ World'.held = held
        /\ World'.jobs = jobs' /\ World'.telemetry = telemetry'
    BY <1>2 DEF World
  <1>9. /\ World.qty = qty /\ World.reserved = reserved /\ World.held = held
        /\ World.jobs = jobs /\ World.telemetry = telemetry
    BY DEF World
  <1>10. World' \in Worlds
    BY <1>5, <1>6, <1>7, <1>8 DEF Worlds
  <1>11. Created(World, World', job)
    BY <1>2, <1>3, <1>6, <1>8, <1>9, <1>10, Zenon DEF Created
  <1>12. Created(w, u, job) /\ Sound(w, nextReservationId)
    BY <1>1, <1>11
  <1>13. Sound(u, nextReservationId)
    BY <1>12, CreatedSound
  <1> QED
    BY <1>1, <1>2, <1>13

(* What a claim does to a sound world.                                     *)
ClaimedBy(w, u, j, v, n) ==
  LET job == w.jobs[j] IN
  /\ job.status = "Pending" /\ j \in DOMAIN w.jobs /\ v \in Worker
  /\ u \in Worlds /\ u.qty = w.qty
  /\ job.amount <= w.qty[job.source][job.resource] - w.reserved[job.source][job.resource]
  /\ Written(u.reserved, w.reserved, job.source, job.resource,
             w.reserved[job.source][job.resource] + job.amount)
  /\ Added(w, u, job.source, n, [resource |-> job.resource, amount |-> job.amount])
  /\ Elsewhere(w.jobs, u.jobs, j)
  /\ u.jobs[j].status = "Claimed" /\ u.jobs[j].workers = <<v>>
  /\ u.jobs[j].source = job.source /\ u.jobs[j].destination = job.destination
  /\ u.jobs[j].resource = job.resource /\ u.jobs[j].amount = job.amount
  /\ u.jobs[j].reservation = n
  /\ u.telemetry.pending = Less(w.telemetry.pending)
  /\ u.telemetry.claimed = w.telemetry.claimed + 1
  /\ u.telemetry.inTransit = w.telemetry.inTransit
  /\ u.telemetry.completed = w.telemetry.completed

(* A claim keeps each part of soundness.                                   *)
LEMMA ClaimedCounted ==
  ASSUME NEW w, NEW n, Sound(w, n), NEW u, NEW j, NEW v, ClaimedBy(w, u, j, v, n)
  PROVE  Counted(u)
  <1>1. /\ w.jobs[j].status = "Pending" /\ u.jobs[j].status = "Claimed"
        /\ Elsewhere(w.jobs, u.jobs, j)
    BY Zenon DEF ClaimedBy
  <1>2. Counted(w) /\ w.telemetry \in Telemetry
    BY DEF Sound, Worlds
  <1>3. Elsewhere(w.jobs, u.jobs, j)
    BY <1>1
  <1>4. \A st : Recounted(w, u, j, st)
    BY <1>3, CountMoves
  <1>5. /\ u.telemetry.pending = Less(w.telemetry.pending)
        /\ u.telemetry.claimed = w.telemetry.claimed + 1
        /\ u.telemetry.inTransit = w.telemetry.inTransit
        /\ u.telemetry.completed = w.telemetry.completed
    BY Zenon DEF ClaimedBy
  <1>6. u.telemetry.pending = Cardinality(In(u, "Pending"))
    BY <1>1, <1>2, <1>4, <1>5 DEF Counted, Recounted, Less
  <1>7. u.telemetry.claimed = Cardinality(In(u, "Claimed"))
    BY <1>1, <1>2, <1>4, <1>5 DEF Counted, Recounted
  <1>8. u.telemetry.inTransit = Cardinality(In(u, "InTransit"))
    BY <1>1, <1>2, <1>4, <1>5 DEF Counted, Recounted
  <1>9. u.telemetry.completed = Cardinality(In(u, "Completed"))
    BY <1>1, <1>2, <1>4, <1>5 DEF Counted, Recounted
  <1> QED
    BY <1>6, <1>7, <1>8, <1>9 DEF Counted, Recounted

LEMMA ClaimedLocks ==
  ASSUME NEW w, NEW n, Sound(w, n), NEW u, NEW j, NEW v, ClaimedBy(w, u, j, v, n)
  PROVE  LocksSound(u, n + 1)
  <1>1. /\ w.jobs[j].status = "Pending" /\ u.jobs[j].status = "Claimed" /\ j \in DOMAIN w.jobs
        /\ Elsewhere(w.jobs, u.jobs, j)
    BY Zenon DEF ClaimedBy
  <1>2. w \in Worlds /\ w.jobs \in Seq(JobRecord) /\ LocksSound(w, n) /\ n \in Nat
    BY WorldFields DEF Sound
  <1>3. \A c \in Container : DOMAIN w.held[c] \subseteq Nat
    BY <1>2, LockFields, ReservationIdAssumption, Zenon
  <1>4. j \notin In(w, "Claimed") /\ j \in In(u, "Claimed") /\ Kept(w, u, j, "Claimed")
    BY <1>1 DEF In, Kept, Elsewhere
  <1>5. Added(w, u, w.jobs[j].source, n, [resource |-> w.jobs[j].resource, amount |-> w.jobs[j].amount])
    BY Zenon DEF ClaimedBy
  <1>6. /\ u.jobs[j].source = w.jobs[j].source /\ u.jobs[j].resource = w.jobs[j].resource
        /\ u.jobs[j].amount = w.jobs[j].amount /\ u.jobs[j].reservation = n
    BY Zenon DEF ClaimedBy
  <1> QED
    BY <1>1, <1>2, <1>3, <1>4, <1>5, <1>6, LockBegins, Zenon

LEMMA ClaimedStaffed ==
  ASSUME NEW w, NEW n, Sound(w, n), NEW u, NEW j, NEW v, ClaimedBy(w, u, j, v, n)
  PROVE  \A i \in DOMAIN u.jobs : Staffed(u.jobs[i])
  <1>1. \A i \in DOMAIN w.jobs : Staffed(w.jobs[i])
    BY DEF Sound
  <1>2. /\ j \in DOMAIN w.jobs /\ v \in Worker
        /\ u.jobs[j].status = "Claimed" /\ u.jobs[j].workers = <<v>>
        /\ u.jobs[j].source = w.jobs[j].source /\ u.jobs[j].destination = w.jobs[j].destination
        /\ Elsewhere(w.jobs, u.jobs, j)
    BY Zenon DEF ClaimedBy
  <1>3. Staffed(u.jobs[j])
    BY <1>1, <1>2 DEF Staffed
  <1> QED
    BY <1>1, <1>2, <1>3 DEF Elsewhere

LEMMA ClaimedGoods ==
  ASSUME NEW w, NEW n, Sound(w, n), Endpoint \cap Worker = {},
         NEW u, NEW j, NEW v, ClaimedBy(w, u, j, v, n)
  PROVE  Conserved(u) /\ NotOver(u) /\ Aboard(u)
  <1> DEFINE src == w.jobs[j].source
             r == w.jobs[j].resource
             k == w.jobs[j].amount
  <1>1. w \in Worlds /\ NotOver(w) /\ Conserved(w) /\ Aboard(w)
    BY DEF Sound
  <1>2. w.qty \in Totals /\ w.reserved \in Totals /\ w.jobs \in Seq(JobRecord)
    BY <1>1, WorldFields
  <1>3. /\ j \in DOMAIN w.jobs /\ w.jobs[j].status = "Pending" /\ u.jobs[j].status = "Claimed"
        /\ Elsewhere(w.jobs, u.jobs, j) /\ u.qty = w.qty
    BY Zenon DEF ClaimedBy
  <1>4. r \in Resource /\ k \in Nat /\ src \in Container /\ src \in Endpoint
    <2>1. Staffed(w.jobs[j])
      BY <1>3 DEF Sound
    <2> QED
      BY <1>2, <1>3, <2>1, RecordFields DEF Staffed
  <1>6. /\ k <= w.qty[src][r] - w.reserved[src][r]
        /\ Written(u.reserved, w.reserved, src, r, w.reserved[src][r] + k)
    BY Zenon DEF ClaimedBy
  <1> HIDE DEF src, r, k
  <1>9. Conserved(u)
    BY <1>1, <1>3 DEF Conserved
  <1>10. ASSUME NEW c \in Container, NEW y \in Resource
         PROVE  u.reserved[c][y] = IF c = src /\ y = r THEN w.reserved[c][y] + k ELSE w.reserved[c][y]
    BY <1>6 DEF Written
  <1>11. NotOver(u)
    <2> SUFFICES ASSUME NEW c \in Container, NEW y \in Resource
                 PROVE  u.reserved[c][y] <= w.qty[c][y]
      BY <1>3 DEF NotOver
    <2>1. w.reserved[c][y] <= w.qty[c][y] /\ w.reserved[c][y] \in Nat /\ w.qty[c][y] \in Nat
      BY <1>1, <1>2 DEF NotOver, Totals
    <2> QED
      BY <1>4, <1>6, <1>10, <2>1
  <1>12. Aboard(u)
    <2> SUFFICES ASSUME NEW x \in Worker, NEW y \in Resource
                 PROVE  Cargo(u, x, y) <= w.qty[x][y] - u.reserved[x][y]
      BY <1>3 DEF Aboard
    <2>1. Cargo(u, x, y) = Cargo(w, x, y)
      <3>1. CargoShifts(w, u, x, y, j)
        BY <1>3, CargoChanges
      <3>2. PICK rest \in Nat :
              /\ w.jobs[j].amount \in Nat /\ u.jobs[j].amount \in Nat
              /\ Cargo(w, x, y) = rest + (IF j \in Carried(w, x, y) THEN w.jobs[j].amount ELSE 0)
              /\ Cargo(u, x, y) = rest + (IF j \in Carried(u, x, y) THEN u.jobs[j].amount ELSE 0)
        BY <3>1 DEF CargoShifts
      <3>3. j \notin Carried(w, x, y) /\ j \notin Carried(u, x, y)
        BY <1>3 DEF Carried, In
      <3> QED
        BY <3>2, <3>3
    <2>2. x \in Container /\ x # src
      BY <1>4, PlaceAssumption
    <2> QED
      BY <1>1, <1>10, <2>1, <2>2 DEF Aboard
  <1> QED
    BY <1>9, <1>11, <1>12

LEMMA ClaimedSound ==
  ASSUME NEW w, NEW n, Sound(w, n), Endpoint \cap Worker = {},
         NEW u, NEW j, NEW v, ClaimedBy(w, u, j, v, n)
  PROVE  Sound(u, n + 1)
  <1>1. Conserved(u) /\ NotOver(u) /\ Aboard(u)
    BY ClaimedGoods
  <1>2. Counted(u) /\ LocksSound(u, n + 1) /\ \A i \in DOMAIN u.jobs : Staffed(u.jobs[i])
    BY ClaimedCounted, ClaimedLocks, ClaimedStaffed
  <1>3. u \in Worlds
    BY Zenon DEF ClaimedBy
  <1>4. n + 1 \in Nat
    BY DEF Sound
  <1> QED
    BY <1>1, <1>2, <1>3, <1>4 DEF Sound

(* An id spent on a refused claim.                                         *)
LEMMA SpentSound ==
  ASSUME NEW w, NEW n, Sound(w, n)
  PROVE  Sound(w, n + 1)
  <1>1. n \in Nat /\ LocksSound(w, n) /\ w \in Worlds
    BY DEF Sound
  <1>2. Spent(w, n + 1)
    <2> SUFFICES ASSUME NEW c \in Container, NEW id \in DOMAIN w.held[c] PROVE id < n + 1
      BY DEF Spent
    <2>1. id \in Nat
      BY <1>1, LockFields, ReservationIdAssumption, Zenon
    <2>2. id < n
      BY <1>1 DEF LocksSound, Spent
    <2> QED
      BY <1>1, <2>1, <2>2
  <1>3. LocksSound(w, n + 1)
    BY <1>1, <1>2 DEF LocksSound
  <1> QED
    BY <1>1, <1>3 DEF Sound

LEMMA WorldNow ==
  ASSUME Sound(World, nextReservationId)
  PROVE  /\ qty \in Totals /\ reserved \in Totals /\ held \in [Container -> Locks]
         /\ jobs \in Seq(JobRecord) /\ telemetry \in Telemetry /\ nextReservationId \in Nat
         /\ World.qty = qty /\ World.reserved = reserved /\ World.held = held
         /\ World.jobs = jobs /\ World.telemetry = telemetry
         /\ World'.qty = qty' /\ World'.reserved = reserved' /\ World'.held = held'
         /\ World'.jobs = jobs' /\ World'.telemetry = telemetry'
  <1>1. World \in Worlds /\ nextReservationId \in Nat
    BY DEF Sound
  <1>2. /\ World.qty = qty /\ World.reserved = reserved /\ World.held = held
        /\ World.jobs = jobs /\ World.telemetry = telemetry
        /\ World'.qty = qty' /\ World'.reserved = reserved' /\ World'.held = held'
        /\ World'.jobs = jobs' /\ World'.telemetry = telemetry'
    BY DEF World
  <1> QED
    BY <1>1, <1>2, WorldFields

LEMMA WorldNext ==
  ASSUME qty' \in Totals, reserved' \in Totals, held' \in [Container -> Locks],
         jobs' \in Seq(JobRecord), telemetry' \in Telemetry
  PROVE  World' \in Worlds
  BY DEF World, Worlds

(* A job that one worker holds takes no second claim.                      *)
LEMMA ClaimsOnce ==
  ASSUME Sound(World, nextReservationId), WorkerLimit = 1,
         NEW j \in DOMAIN jobs, jobs[j].status \in {"Pending", "Claimed"},
         Len(jobs[j].workers) < WorkerLimit
  PROVE  jobs[j].status = "Pending" /\ jobs[j].workers = <<>>
  <1>1. Staffed(jobs[j])
    BY WorldNow DEF Sound
  <1>2. jobs[j].status = "Pending"
    <2> SUFFICES ASSUME NEW x \in Worker, jobs[j].workers = <<x>> PROVE FALSE
      BY <1>1 DEF Staffed
    <2>1. Len(<<x>>) = 1
      OBVIOUS
    <2> QED
      BY <2>1
  <1> QED
    BY <1>1, <1>2 DEF Staffed

(* ClaimJob: nothing, or a lock under a fresh id and the job that owns it. *)
LEMMA ClaimDoes ==
  ASSUME Sound(World, nextReservationId), WorkerLimit = 1,
         NEW actor, NEW j \in DOMAIN jobs, NEW v \in Worker, ClaimJob(actor, j, v)
  PROVE  /\ nextReservationId' = nextReservationId + 1
         /\ World' = World \/ ClaimedBy(World, World', j, v, nextReservationId)
  <1>1. /\ qty \in Totals /\ reserved \in Totals /\ held \in [Container -> Locks]
        /\ jobs \in Seq(JobRecord) /\ telemetry \in Telemetry /\ nextReservationId \in Nat
    BY WorldNow
  <1>2. /\ World.qty = qty /\ World.reserved = reserved /\ World.held = held
        /\ World.jobs = jobs /\ World.telemetry = telemetry
        /\ World'.qty = qty' /\ World'.reserved = reserved' /\ World'.held = held'
        /\ World'.jobs = jobs' /\ World'.telemetry = telemetry'
    BY WorldNow
  <1>3. jobs[j].status = "Pending" /\ jobs[j].workers = <<>>
    BY ClaimsOnce DEF ClaimJob
  <1> DEFINE id == nextReservationId
             src == jobs[j].source
             r == jobs[j].resource
             k == jobs[j].amount
  <1>4. id \in ReservationId /\ nextReservationId' = id + 1
    BY DEF ClaimJob
  <1>5. CASE UNCHANGED <<ledgerVars, jobs, telemetry>>
    BY <1>4, <1>5 DEF World, ledgerVars
  <1>6. CASE /\ Hold(src, id, r, k)
             /\ jobs' = [jobs EXCEPT ![j].status = "Claimed", ![j].reservation = id,
                                     ![j].workers = Append(@, v)]
             /\ telemetry' = [telemetry EXCEPT !.pending = Less(@), !.claimed = @ + 1]
    <2>1. /\ src \in Container /\ r \in Resource /\ k \in Nat /\ jobs[j] \in JobRecord
      BY <1>1, RecordFields
    <2>2. /\ k <= qty[src][r] - reserved[src][r]
          /\ reserved' = [reserved EXCEPT ![src][r] = @ + k]
          /\ held' = [held EXCEPT ![src] = With(@, id, [resource |-> r, amount |-> k])]
          /\ qty' = qty
      BY <1>6 DEF Hold, Available
    <2> HIDE DEF src, r, k, id
    <2>3. Written(reserved', reserved, src, r, reserved[src][r] + k)
      <3>1. reserved[src][r] \in Nat /\ reserved[src][r] + k \in Nat
        BY <1>1, <2>1 DEF Totals
      <3> QED
        BY <1>1, <2>1, <2>2, <3>1, Zenon DEF Totals, Written
    <2>4. held' \in [Container -> Locks] /\ Added(World, World', src, id, [resource |-> r, amount |-> k])
      <3>1. [resource |-> r, amount |-> k] \in Holding
        BY <2>1 DEF Holding
      <3>2. PICK h \in Holding : h = [resource |-> r, amount |-> k]
        BY <3>1
      <3>3. PICK more \in Locks : more = With(held[src], id, h)
        BY <1>1, <1>4, <2>1, WithLocks DEF id
      <3>4. held' \in [Container -> Locks] /\ \A x \in Container : held'[x] = IF x = src THEN more ELSE held[x]
        BY <1>1, <2>1, <2>2, <3>2, <3>3
      <3>5. /\ DOMAIN more = DOMAIN held[src] \cup {id} /\ more[id] = h
            /\ \A y \in DOMAIN held[src] : y # id => more[y] = held[src][y]
        BY <3>3 DEF With
      <3>6. World'.held[src][id] = h
        BY <1>2, <2>1, <3>4, <3>5
      <3>7. \A x \in Container : DOMAIN World'.held[x] = IF x = src THEN DOMAIN World.held[x] \cup {id}
                                                         ELSE DOMAIN World.held[x]
        BY <1>2, <3>4, <3>5, Zenon
      <3>8. \A x \in Container : \A y \in DOMAIN World.held[x] :
              ~(x = src /\ y = id) => World'.held[x][y] = World.held[x][y]
        BY <1>2, <3>4, <3>5
      <3> QED
        BY <3>2, <3>4, <3>6, <3>7, <3>8, Zenon DEF Added
    <2>5. /\ Elsewhere(jobs, jobs', j)
          /\ jobs'[j].status = "Claimed" /\ jobs'[j].workers = <<v>>
          /\ jobs'[j].source = src /\ jobs'[j].destination = jobs[j].destination
          /\ jobs'[j].resource = r /\ jobs'[j].amount = k /\ jobs'[j].reservation = id
      <3>1. PICK job \in JobRecord : job = jobs[j]
        BY <2>1
      <3>2. PICK new : new = [job EXCEPT !.status = "Claimed", !.reservation = id, !.workers = Append(@, v)]
        OBVIOUS
      <3>3. jobs' = [jobs EXCEPT ![j] = new]
        BY <1>1, <1>6, <3>1, <3>2, Zenon DEF id
      <3>4. Append(<<>>, v) = <<v>> /\ <<v>> \in Seq(Worker)
        OBVIOUS
      <3>5. /\ new \in JobRecord /\ new.status = "Claimed" /\ new.workers = <<v>>
            /\ new.source = job.source /\ new.destination = job.destination
            /\ new.resource = job.resource /\ new.amount = job.amount /\ new.reservation = id
        BY <1>3, <1>4, <3>1, <3>2, <3>4, Zenon DEF JobRecord, id
      <3>6. jobs' \in Seq(JobRecord) /\ DOMAIN jobs' = DOMAIN jobs
        BY <1>1, <3>3, <3>5, ExceptSeq
      <3> QED
        BY <1>1, <3>1, <3>3, <3>5, <3>6 DEF Elsewhere, src, r, k
    <2>6. /\ telemetry' \in Telemetry
          /\ telemetry'.pending = Less(telemetry.pending)
          /\ telemetry'.claimed = telemetry.claimed + 1
          /\ telemetry'.inTransit = telemetry.inTransit
          /\ telemetry'.completed = telemetry.completed
      <3>1. \A x \in Nat : Less(x) \in Nat /\ x + 1 \in Nat
        BY DEF Less
      <3>2. PICK t \in Telemetry : t = telemetry
        BY <1>1
      <3>3. PICK x : x = [t EXCEPT !.pending = Less(@), !.claimed = @ + 1]
        OBVIOUS
      <3>4. /\ x \in Telemetry /\ x.pending = Less(t.pending) /\ x.claimed = t.claimed + 1
            /\ x.inTransit = t.inTransit /\ x.completed = t.completed
        BY <3>1, <3>3, Zenon DEF Telemetry
      <3> QED
        BY <1>6, <3>2, <3>3, <3>4
    <2>7. World' \in Worlds
      <3>1. reserved' \in Totals /\ qty' \in Totals /\ jobs' \in Seq(JobRecord)
        BY <1>1, <2>2, <2>3, <2>5 DEF Written, Elsewhere
      <3> QED
        BY <2>4, <2>6, <3>1, WorldNext
    <2>8. ClaimedBy(World, World', j, v, id)
      BY <1>2, <1>3, <2>2, <2>3, <2>4, <2>5, <2>6, <2>7 DEF ClaimedBy, src, r, k
    <2> QED
      BY <1>4, <2>8 DEF id
  <1> QED
    BY <1>5, <1>6 DEF ClaimJob

LEMMA ClaimSound ==
  ASSUME Sound(World, nextReservationId), WorkerLimit = 1, Endpoint \cap Worker = {},
         NEW actor, NEW j \in DOMAIN jobs, NEW v \in Worker, ClaimJob(actor, j, v)
  PROVE  Sound(World', nextReservationId')
  <1>1. PICK w, u, n : w = World /\ u = World' /\ n = nextReservationId
    OBVIOUS
  <1>2. Sound(w, n)
    BY <1>1
  <1>3. nextReservationId' = n + 1 /\ (u = w \/ ClaimedBy(w, u, j, v, n))
    BY <1>1, ClaimDoes
  <1>4. Sound(u, n + 1)
    BY <1>2, <1>3, ClaimedSound, SpentSound
  <1> QED
    BY <1>1, <1>3, <1>4

(* What a cancellation does to a sound world.                              *)
Off(w, u, j) ==
  LET job == w.jobs[j]
      was(status) == IF job.status = status THEN 1 ELSE 0
  IN
  /\ j \in DOMAIN w.jobs /\ job.status \in {"Pending", "Claimed", "InTransit"}
  /\ u \in Worlds /\ u.qty = w.qty
  /\ Restated(w.jobs, u.jobs, j, "Cancelled")
  /\ u.telemetry.pending = IF job.status = "Pending" THEN Less(w.telemetry.pending) ELSE w.telemetry.pending
  /\ u.telemetry.claimed = IF job.status = "Claimed" THEN Less(w.telemetry.claimed) ELSE w.telemetry.claimed
  /\ u.telemetry.inTransit = IF job.status = "InTransit" THEN Less(w.telemetry.inTransit) ELSE w.telemetry.inTransit
  /\ u.telemetry.completed = w.telemetry.completed

Unlocked(w, u, j) ==
  LET job == w.jobs[j] IN
  /\ job.amount <= w.reserved[job.source][job.resource]
  /\ Written(u.reserved, w.reserved, job.source, job.resource,
             w.reserved[job.source][job.resource] - job.amount)
  /\ Dropped(w, u, job.source, job.reservation)

CalledOff(w, u, j) ==
  /\ Off(w, u, j)
  /\ IF w.jobs[j].status = "Claimed" THEN Unlocked(w, u, j)
     ELSE u.reserved = w.reserved /\ u.held = w.held

(* The parts of a cancellation, by the state the job was in.               *)
LEMMA OffSays ==
  ASSUME NEW w, NEW n, Sound(w, n), NEW u, NEW j, Off(w, u, j)
  PROVE  /\ j \in DOMAIN w.jobs /\ w.jobs[j].status \in {"Pending", "Claimed", "InTransit"}
         /\ u \in Worlds /\ u.qty = w.qty
         /\ Restated(w.jobs, u.jobs, j, "Cancelled")
         /\ Elsewhere(w.jobs, u.jobs, j) /\ u.jobs[j].status = "Cancelled"
  BY DEF Off, Restated

LEMMA OffCounted ==
  ASSUME NEW w, NEW n, Sound(w, n), NEW u, NEW j, Off(w, u, j)
  PROVE  Counted(u)
  <1>1. w.jobs[j].status \in {"Pending", "Claimed", "InTransit"} /\ u.jobs[j].status = "Cancelled"
    BY OffSays
  <1>2. Counted(w) /\ w.telemetry \in Telemetry
    BY DEF Sound, Worlds
  <1>3. Elsewhere(w.jobs, u.jobs, j)
    BY OffSays
  <1>4. \A st : Recounted(w, u, j, st)
    BY <1>3, CountMoves
  <1>5. /\ u.telemetry.pending = IF w.jobs[j].status = "Pending" THEN Less(w.telemetry.pending)
                                 ELSE w.telemetry.pending
        /\ u.telemetry.claimed = IF w.jobs[j].status = "Claimed" THEN Less(w.telemetry.claimed)
                                 ELSE w.telemetry.claimed
        /\ u.telemetry.inTransit = IF w.jobs[j].status = "InTransit" THEN Less(w.telemetry.inTransit)
                                   ELSE w.telemetry.inTransit
        /\ u.telemetry.completed = w.telemetry.completed
    BY DEF Off
  <1>6. u.telemetry.pending = Cardinality(In(u, "Pending"))
    BY <1>1, <1>2, <1>4, <1>5 DEF Counted, Recounted, Less
  <1>7. u.telemetry.claimed = Cardinality(In(u, "Claimed"))
    BY <1>1, <1>2, <1>4, <1>5 DEF Counted, Recounted, Less
  <1>8. u.telemetry.inTransit = Cardinality(In(u, "InTransit"))
    BY <1>1, <1>2, <1>4, <1>5 DEF Counted, Recounted, Less
  <1>9. u.telemetry.completed = Cardinality(In(u, "Completed"))
    BY <1>1, <1>2, <1>4, <1>5 DEF Counted, Recounted
  <1> QED
    BY <1>6, <1>7, <1>8, <1>9 DEF Counted

LEMMA OffLocks ==
  ASSUME NEW w, NEW n, Sound(w, n), NEW u, NEW j, CalledOff(w, u, j)
  PROVE  LocksSound(u, n)
  <1>1. Off(w, u, j)
    BY Zenon DEF CalledOff
  <1>2. /\ Restated(w.jobs, u.jobs, j, "Cancelled") /\ j \in DOMAIN w.jobs
        /\ u.jobs[j].status = "Cancelled"
    BY <1>1, OffSays
  <1>3. w.jobs \in Seq(JobRecord) /\ LocksSound(w, n)
    BY DEF Sound, Worlds
  <1>4. Kept(w, u, j, "Claimed") /\ j \notin In(u, "Claimed")
    BY <1>2, OthersStay, Zenon DEF In
  <1>5. CASE w.jobs[j].status = "Claimed"
    <2>1. j \in In(w, "Claimed")
      BY <1>2, <1>5 DEF In
    <2>2. Dropped(w, u, w.jobs[j].source, w.jobs[j].reservation)
      BY <1>5, Zenon DEF CalledOff, Unlocked
    <2> QED
      BY <1>3, <1>4, <2>1, <2>2, LockEnds
  <1>6. CASE w.jobs[j].status # "Claimed"
    <2>1. j \notin In(w, "Claimed") /\ u.held = w.held
      BY <1>6 DEF In, CalledOff
    <2> QED
      BY <1>3, <1>4, <2>1, LocksStay
  <1> QED
    BY <1>5, <1>6

LEMMA OffGoods ==
  ASSUME NEW w, NEW n, Sound(w, n), Endpoint \cap Worker = {},
         NEW u, NEW j, CalledOff(w, u, j)
  PROVE  Conserved(u) /\ NotOver(u) /\ Aboard(u)
  <1> DEFINE src == w.jobs[j].source
             r == w.jobs[j].resource
             k == w.jobs[j].amount
  <1>1. w \in Worlds /\ NotOver(w) /\ Conserved(w) /\ Aboard(w)
    BY DEF Sound
  <1>2. w.qty \in Totals /\ w.reserved \in Totals /\ w.jobs \in Seq(JobRecord)
    BY <1>1, WorldFields
  <1>3. /\ j \in DOMAIN w.jobs /\ u.jobs[j].status = "Cancelled"
        /\ Elsewhere(w.jobs, u.jobs, j) /\ u.qty = w.qty
    BY OffSays DEF CalledOff
  <1>4. r \in Resource /\ k \in Nat /\ src \in Container /\ src \in Endpoint
    <2>1. Staffed(w.jobs[j])
      BY <1>3 DEF Sound
    <2> QED
      BY <1>2, <1>3, <2>1, RecordFields DEF Staffed
  <1>6. \/ u.reserved = w.reserved
        \/ /\ k <= w.reserved[src][r]
           /\ Written(u.reserved, w.reserved, src, r, w.reserved[src][r] - k)
    BY DEF CalledOff, Unlocked
  <1> HIDE DEF src, r, k
  <1>9. Conserved(u)
    BY <1>1, <1>3 DEF Conserved
  <1>10. ASSUME NEW c \in Container, NEW y \in Resource
         PROVE  /\ u.reserved[c][y] = w.reserved[c][y]
                     \/ (c = src /\ y = r /\ u.reserved[c][y] = w.reserved[c][y] - k)
    BY <1>6 DEF Written
  <1>11. NotOver(u)
    <2> SUFFICES ASSUME NEW c \in Container, NEW y \in Resource
                 PROVE  u.reserved[c][y] <= w.qty[c][y]
      BY <1>3 DEF NotOver
    <2>1. w.reserved[c][y] <= w.qty[c][y] /\ w.reserved[c][y] \in Nat /\ w.qty[c][y] \in Nat
      BY <1>1, <1>2 DEF NotOver, Totals
    <2> QED
      BY <1>4, <1>10, <2>1
  <1>12. Aboard(u)
    <2> SUFFICES ASSUME NEW x \in Worker, NEW y \in Resource
                 PROVE  Cargo(u, x, y) <= w.qty[x][y] - u.reserved[x][y]
      BY <1>3 DEF Aboard
    <2>1. Cargo(u, x, y) <= Cargo(w, x, y) /\ Cargo(u, x, y) \in Nat /\ Cargo(w, x, y) \in Nat
      <3>1. CargoShifts(w, u, x, y, j)
        BY <1>3, CargoChanges
      <3>2. PICK rest \in Nat :
              /\ w.jobs[j].amount \in Nat /\ u.jobs[j].amount \in Nat
              /\ Cargo(w, x, y) = rest + (IF j \in Carried(w, x, y) THEN w.jobs[j].amount ELSE 0)
              /\ Cargo(u, x, y) = rest + (IF j \in Carried(u, x, y) THEN u.jobs[j].amount ELSE 0)
        BY <3>1 DEF CargoShifts
      <3>3. j \notin Carried(u, x, y)
        BY <1>3 DEF Carried, In
      <3> QED
        BY <3>2, <3>3
    <2>2. x \in Container /\ x # src
      BY <1>4, PlaceAssumption
    <2>3. u.reserved[x][y] = w.reserved[x][y]
      BY <1>10, <2>2
    <2>4. Cargo(w, x, y) <= w.qty[x][y] - w.reserved[x][y] /\ w.qty[x][y] \in Nat /\ w.reserved[x][y] \in Nat
      BY <1>1, <1>2, <2>2 DEF Aboard, Totals
    <2> QED
      BY <2>1, <2>3, <2>4
  <1> QED
    BY <1>9, <1>11, <1>12

LEMMA OffSound ==
  ASSUME NEW w, NEW n, Sound(w, n), Endpoint \cap Worker = {},
         NEW u, NEW j, CalledOff(w, u, j)
  PROVE  Sound(u, n)
  <1>1. Conserved(u) /\ NotOver(u) /\ Aboard(u)
    BY OffGoods
  <1>2. Off(w, u, j)
    BY Zenon DEF CalledOff
  <1>3. Counted(u) /\ LocksSound(u, n)
    BY <1>2, OffCounted, OffLocks
  <1>4. u \in Worlds /\ Restated(w.jobs, u.jobs, j, "Cancelled")
    BY <1>2, OffSays
  <1>5. \A i \in DOMAIN w.jobs : Staffed(w.jobs[i])
    BY DEF Sound
  <1>6. \A i \in DOMAIN u.jobs : Staffed(u.jobs[i])
    BY <1>4, <1>5, StaysStaffed
  <1>7. n \in Nat
    BY DEF Sound
  <1> QED
    BY <1>1, <1>3, <1>4, <1>6, <1>7 DEF Sound

(* CancelJob: the lock of a claimed job is released, and only then.        *)
LEMMA CancelDoes ==
  ASSUME Sound(World, nextReservationId), NEW actor, NEW j \in DOMAIN jobs, CancelJob(actor, j)
  PROVE  CalledOff(World, World', j)
  <1>1. /\ qty \in Totals /\ reserved \in Totals /\ held \in [Container -> Locks]
        /\ jobs \in Seq(JobRecord) /\ telemetry \in Telemetry
    BY WorldNow
  <1>2. /\ World.qty = qty /\ World.reserved = reserved /\ World.held = held
        /\ World.jobs = jobs /\ World.telemetry = telemetry
        /\ World'.qty = qty' /\ World'.reserved = reserved' /\ World'.held = held'
        /\ World'.jobs = jobs' /\ World'.telemetry = telemetry'
    BY WorldNow
  <1> DEFINE st == jobs[j].status
             id == jobs[j].reservation
             src == jobs[j].source
             r == jobs[j].resource
             k == jobs[j].amount
  <1>3. /\ src \in Container /\ r \in Resource /\ k \in Nat /\ st \in Status
    BY <1>1, RecordFields
  <1>4. st \in {"Pending", "Claimed", "InTransit"}
    BY <1>3 DEF CancelJob, Status
  <1>5. Restated(jobs, jobs', j, "Cancelled")
    BY <1>1, StatusRestates, Zenon DEF CancelJob, Status
  <1>6. telemetry' = CASE st = "Pending"   -> [telemetry EXCEPT !.pending = Less(@)]
                       [] st = "Claimed"   -> [telemetry EXCEPT !.claimed = Less(@)]
                       [] st = "InTransit" -> [telemetry EXCEPT !.inTransit = Less(@)]
    BY DEF CancelJob
  <1>7. /\ telemetry' \in Telemetry
        /\ telemetry'.pending = IF st = "Pending" THEN Less(telemetry.pending) ELSE telemetry.pending
        /\ telemetry'.claimed = IF st = "Claimed" THEN Less(telemetry.claimed) ELSE telemetry.claimed
        /\ telemetry'.inTransit = IF st = "InTransit" THEN Less(telemetry.inTransit) ELSE telemetry.inTransit
        /\ telemetry'.completed = telemetry.completed
    <2>1. \A x \in Nat : Less(x) \in Nat
      BY DEF Less
    <2> HIDE DEF st
    <2>2. CASE st = "Pending"
      <3>1. telemetry' = [telemetry EXCEPT !.pending = Less(@)]
        BY <1>6, <2>2
      <3> QED
        BY <1>1, <2>1, <2>2, <3>1, Zenon DEF Telemetry
    <2>3. CASE st = "Claimed"
      <3>1. telemetry' = [telemetry EXCEPT !.claimed = Less(@)]
        BY <1>6, <2>3
      <3> QED
        BY <1>1, <2>1, <2>3, <3>1, Zenon DEF Telemetry
    <2>4. CASE st = "InTransit"
      <3>1. telemetry' = [telemetry EXCEPT !.inTransit = Less(@)]
        BY <1>6, <2>4
      <3> QED
        BY <1>1, <2>1, <2>4, <3>1, Zenon DEF Telemetry
    <2> QED
      BY <1>4, <2>2, <2>3, <2>4
  <1>8. Locked(World)
    BY DEF Sound, LocksSound
  <1>9. CASE st = "Claimed"
    <2>1. id \in DOMAIN held[src] /\ held[src][id] = [resource |-> r, amount |-> k]
      BY <1>2, <1>8, <1>9 DEF Locked, In
    <2>2. Release(src, id)
      BY <1>9, <2>1 DEF CancelJob
    <2>3. k <= reserved[src][r] /\ reserved' = [reserved EXCEPT ![src][r] = @ - k]
          /\ held' = [held EXCEPT ![src] = Without(@, id)] /\ qty' = qty
      BY <2>1, <2>2 DEF Release
    <2> HIDE DEF src, r, k, id, st
    <2>4. Written(reserved', reserved, src, r, reserved[src][r] - k)
      <3>1. reserved[src][r] \in Nat /\ reserved[src][r] - k \in Nat
        BY <1>1, <1>3, <2>3 DEF Totals
      <3> QED
        BY <1>1, <1>3, <2>3, <3>1, Zenon DEF Totals, Written
    <2>5. held' \in [Container -> Locks] /\ Dropped(World, World', src, id)
      <3>1. PICK spent \in Locks : spent = Without(held[src], id)
        BY <1>1, <1>3, WithoutLocks
      <3>2. held' \in [Container -> Locks] /\ \A x \in Container : held'[x] = IF x = src THEN spent ELSE held[x]
        BY <1>1, <1>3, <2>3, <3>1
      <3>3. DOMAIN spent = DOMAIN held[src] \ {id} /\ \A y \in DOMAIN spent : spent[y] = held[src][y]
        BY <3>1 DEF Without
      <3> QED
        BY <1>2, <3>2, <3>3 DEF Dropped
    <2>6. World' \in Worlds
      <3>1. reserved' \in Totals /\ qty' \in Totals /\ jobs' \in Seq(JobRecord)
        BY <1>1, <1>5, <2>3, <2>4 DEF Written, Restated, Elsewhere
      <3> QED
        BY <1>7, <2>5, <3>1, WorldNext
    <2>7. Off(World, World', j)
      BY <1>2, <1>4, <1>5, <1>7, <2>3, <2>6 DEF Off, st
    <2>8. Unlocked(World, World', j)
      BY <1>2, <2>3, <2>4, <2>5 DEF Unlocked, src, r, k, id
    <2> QED
      BY <1>2, <1>9, <2>7, <2>8 DEF CalledOff, st
  <1>10. CASE st # "Claimed"
    <2>1. qty' = qty /\ reserved' = reserved /\ held' = held
      BY <1>10 DEF CancelJob, ledgerVars
    <2>2. World' \in Worlds
      <3>1. jobs' \in Seq(JobRecord)
        BY <1>5 DEF Restated, Elsewhere
      <3> QED
        BY <1>1, <1>7, <2>1, <3>1, WorldNext
    <2>3. Off(World, World', j)
      BY <1>2, <1>4, <1>5, <1>7, <2>1, <2>2 DEF Off
    <2> QED
      BY <1>2, <1>10, <2>1, <2>3 DEF CalledOff
  <1> QED
    BY <1>9, <1>10

LEMMA CancelSound ==
  ASSUME Sound(World, nextReservationId), Endpoint \cap Worker = {},
         NEW actor, NEW j \in DOMAIN jobs, CancelJob(actor, j)
  PROVE  Sound(World', nextReservationId')
  <1>1. PICK w, u, n : w = World /\ u = World' /\ n = nextReservationId
    OBVIOUS
  <1>2. Sound(w, n) /\ CalledOff(w, u, j)
    BY <1>1, CancelDoes
  <1>3. Sound(u, n)
    BY <1>2, OffSound
  <1>4. nextReservationId' = nextReservationId
    BY DEF CancelJob
  <1> QED
    BY <1>1, <1>3, <1>4

(* Jobs only move on.                                                      *)
Later(w, u) ==
  \A j \in DOMAIN w.jobs :
    /\ j \in DOMAIN u.jobs
    /\ u.jobs[j] = w.jobs[j] \/ Rank[u.jobs[j].status] > Rank[w.jobs[j].status]

LEMMA Ranks ==
  /\ Rank["Pending"] = 0 /\ Rank["Claimed"] = 1 /\ Rank["InTransit"] = 2
  /\ Rank["Completed"] = 3 /\ Rank["Cancelled"] = 3
  /\ \A st \in Status : Rank[st] \in Nat
  BY DEF Rank, Status

LEMMA LaterElsewhere ==
  ASSUME NEW w, NEW u, NEW j, Elsewhere(w.jobs, u.jobs, j),
         Rank[u.jobs[j].status] > Rank[w.jobs[j].status]
  PROVE  Later(w, u)
  BY DEF Elsewhere, Later

(* Moving on is transitive: a step of the docks may move a job on more     *)
(* than once.                                                              *)
LEMMA LaterStill ==
  ASSUME NEW w, w \in Worlds, NEW u, u \in Worlds, NEW x, x \in Worlds, Later(w, u), Later(u, x)
  PROVE  Later(w, x)
  <1> SUFFICES ASSUME NEW j \in DOMAIN w.jobs
               PROVE  /\ j \in DOMAIN x.jobs
                      /\ x.jobs[j] = w.jobs[j] \/ Rank[x.jobs[j].status] > Rank[w.jobs[j].status]
    BY DEF Later
  <1>1. j \in DOMAIN u.jobs /\ j \in DOMAIN x.jobs
    BY DEF Later
  <1>2. /\ u.jobs[j] = w.jobs[j] \/ Rank[u.jobs[j].status] > Rank[w.jobs[j].status]
        /\ x.jobs[j] = u.jobs[j] \/ Rank[x.jobs[j].status] > Rank[u.jobs[j].status]
    BY <1>1 DEF Later
  <1>3. /\ w.jobs[j].status \in Status /\ u.jobs[j].status \in Status /\ x.jobs[j].status \in Status
    BY <1>1, WorldFields, RecordFields
  <1>4. PICK a \in Nat, b \in Nat, c \in Nat :
          /\ a = Rank[w.jobs[j].status] /\ b = Rank[u.jobs[j].status] /\ c = Rank[x.jobs[j].status]
    BY <1>3, Ranks
  <1> QED
    BY <1>1, <1>2, <1>4

LEMMA PickupLater ==
  ASSUME NEW w, NEW u, NEW j, Restated(w.jobs, u.jobs, j, "InTransit"), w.jobs[j].status = "Claimed"
  PROVE  Later(w, u)
  <1>1. Elsewhere(w.jobs, u.jobs, j) /\ u.jobs[j].status = "InTransit"
    BY DEF Restated
  <1>2. Rank[u.jobs[j].status] > Rank[w.jobs[j].status]
    BY <1>1, Ranks
  <1> QED
    BY <1>1, <1>2, LaterElsewhere

LEMMA DropoffLater ==
  ASSUME NEW w, NEW u, NEW j, Restated(w.jobs, u.jobs, j, "Completed"), w.jobs[j].status = "InTransit"
  PROVE  Later(w, u)
  <1>1. Elsewhere(w.jobs, u.jobs, j) /\ u.jobs[j].status = "Completed"
    BY DEF Restated
  <1>2. Rank[u.jobs[j].status] > Rank[w.jobs[j].status]
    BY <1>1, Ranks
  <1> QED
    BY <1>1, <1>2, LaterElsewhere

LEMMA BecomesWorld ==
  ASSUME NEW w, w \in Worlds, Becomes(w)
  PROVE  World' = w
  <1>1. World' = [qty |-> w.qty, reserved |-> w.reserved, held |-> w.held,
                  jobs |-> w.jobs, telemetry |-> w.telemetry]
    BY DEF World, Becomes
  <1>2. w = [qty |-> w.qty, reserved |-> w.reserved, held |-> w.held,
             jobs |-> w.jobs, telemetry |-> w.telemetry]
    BY DEF Worlds
  <1> QED
    BY <1>1, <1>2

LEMMA StaysSame ==
  ASSUME NEW w
  PROVE  Later(w, w)
  BY DEF Later

(* Every operation of the job board, whoever calls it, keeps a sound world *)
(* sound and moves no job back.                                            *)
LEMMA JobStep ==
  ASSUME Sound(World, nextReservationId), WorkerLimit = 1, Endpoint \cap Worker = {}, JobNext
  PROVE  Sound(World', nextReservationId') /\ Later(World, World')
  <1>0. PICK actor \in Actor :
          \/ \E s, d \in Endpoint, r \in Resource, n \in Amount : CreateJob(actor, s, d, r, n)
          \/ \E j \in DOMAIN jobs :
               \/ CancelJob(actor, j)
               \/ \E v \in Worker :
                    \/ ClaimJob(actor, j, v)
                    \/ ExecutePickup(actor, j, v)
                    \/ ExecuteDropoff(actor, j, v)
    BY DEF JobNext
  <1>f. World.jobs = jobs /\ World'.jobs = jobs' /\ jobs \in Seq(JobRecord)
    BY WorldNow
  <1>1. ASSUME NEW s \in Endpoint, NEW d \in Endpoint, NEW r \in Resource, NEW n \in Amount,
               CreateJob(actor, s, d, r, n)
        PROVE  Sound(World', nextReservationId') /\ Later(World, World')
    <2>1. Sound(World', nextReservationId')
      BY <1>1, CreateSound
    <2>2. PICK job : jobs' = Append(jobs, job)
      BY <1>1 DEF CreateJob
    <2>3. \A j \in DOMAIN jobs : j \in DOMAIN jobs' /\ jobs'[j] = jobs[j]
      BY <1>f, <2>2
    <2> QED
      BY <1>f, <2>1, <2>3 DEF Later
  <1>2. ASSUME NEW j \in DOMAIN jobs, CancelJob(actor, j)
        PROVE  Sound(World', nextReservationId') /\ Later(World, World')
    <2>1. Sound(World', nextReservationId')
      BY <1>2, CancelSound
    <2>2. CalledOff(World, World', j)
      BY <1>2, CancelDoes
    <2>3. /\ Elsewhere(World.jobs, World'.jobs, j) /\ World'.jobs[j].status = "Cancelled"
          /\ World.jobs[j].status \in {"Pending", "Claimed", "InTransit"}
      BY <2>2 DEF CalledOff, Off, Restated
    <2>4. Rank[World'.jobs[j].status] > Rank[World.jobs[j].status]
      BY <2>3, Ranks
    <2>5. PICK w, u : w = World /\ u = World'
      OBVIOUS
    <2>6. Later(w, u)
      BY <2>3, <2>4, <2>5, LaterElsewhere
    <2> QED
      BY <2>1, <2>5, <2>6
  <1>3. ASSUME NEW j \in DOMAIN jobs, NEW v \in Worker, ClaimJob(actor, j, v)
        PROVE  Sound(World', nextReservationId') /\ Later(World, World')
    <2>1. Sound(World', nextReservationId')
      BY <1>3, ClaimSound
    <2>2. World' = World \/ ClaimedBy(World, World', j, v, nextReservationId)
      BY <1>3, ClaimDoes
    <2>5. PICK w, u : w = World /\ u = World'
      OBVIOUS
    <2>6. CASE u = w
      BY <2>1, <2>5, <2>6, StaysSame
    <2>7. CASE ClaimedBy(w, u, j, v, nextReservationId)
      <3>1. /\ Elsewhere(w.jobs, u.jobs, j) /\ u.jobs[j].status = "Claimed"
            /\ w.jobs[j].status = "Pending"
        BY <2>7, Zenon DEF ClaimedBy
      <3>2. Later(w, u)
        BY <3>1, Ranks, LaterElsewhere
      <3> QED
        BY <2>1, <2>5, <3>2
    <2> QED
      BY <2>2, <2>5, <2>6, <2>7
  <1>4. ASSUME NEW j \in DOMAIN jobs, NEW v \in Worker, ExecutePickup(actor, j, v)
        PROVE  Sound(World', nextReservationId') /\ Later(World, World')
    <2>1. PICK w, n : w = World /\ n = nextReservationId
      OBVIOUS
    <2>2. PICK u : u = AfterPickup(w, j, v)
      OBVIOUS
    <2>3. Sound(w, n) /\ CanPickup(w, j, v) /\ j \in DOMAIN w.jobs /\ Becomes(u) /\ nextReservationId' = n
      BY <1>f, <1>4, <2>1, <2>2 DEF ExecutePickup
    <2>4. Sound(u, n) /\ Restated(w.jobs, u.jobs, j, "InTransit") /\ w.jobs[j].status = "Claimed"
      BY <2>2, <2>3, PickupSound
    <2>5. Later(w, u)
      BY <2>4, PickupLater
    <2>6. World' = u
      BY <2>3, <2>4, BecomesWorld DEF Sound
    <2> QED
      BY <2>1, <2>3, <2>4, <2>5, <2>6
  <1>5. ASSUME NEW j \in DOMAIN jobs, NEW v \in Worker, ExecuteDropoff(actor, j, v)
        PROVE  Sound(World', nextReservationId') /\ Later(World, World')
    <2>1. PICK w, n : w = World /\ n = nextReservationId
      OBVIOUS
    <2>2. PICK u : u = AfterDropoff(w, j, v)
      OBVIOUS
    <2>3. Sound(w, n) /\ CanDropoff(w, j, v) /\ j \in DOMAIN w.jobs /\ Becomes(u) /\ nextReservationId' = n
      BY <1>f, <1>5, <2>1, <2>2 DEF ExecuteDropoff
    <2>4. Sound(u, n) /\ Restated(w.jobs, u.jobs, j, "Completed") /\ w.jobs[j].status = "InTransit"
      BY <2>2, <2>3, DropoffSound
    <2>5. Later(w, u)
      BY <2>4, DropoffLater
    <2>6. World' = u
      BY <2>3, <2>4, BecomesWorld DEF Sound
    <2> QED
      BY <2>1, <2>3, <2>4, <2>5, <2>6
  <1> QED
    BY <1>0, <1>1, <1>2, <1>3, <1>4, <1>5

(* The program starts in a sound world.                                    *)
LEMMA InitSound ==
  ASSUME Init
  PROVE  Sound(World, nextReservationId)
  <1>1. /\ qty = Stock /\ jobs = <<>> /\ nextReservationId = 1
        /\ reserved = [c \in Container |-> [r \in Resource |-> 0]]
        /\ held = [c \in Container |-> [id \in {} |-> id]]
        /\ telemetry = [pending |-> 0, claimed |-> 0, inTransit |-> 0, completed |-> 0]
    BY DEF Init
  <1>2. /\ World.qty = qty /\ World.reserved = reserved /\ World.held = held
        /\ World.jobs = jobs /\ World.telemetry = telemetry
    BY DEF World
  <1>3. qty \in Totals /\ reserved \in Totals
    BY <1>1, StockAssumption DEF Totals
  <1>4. held \in [Container -> Locks]
    <2>1. [id \in {} |-> id] \in [{} -> Holding] /\ {} \in SUBSET ReservationId
      OBVIOUS
    <2>2. [id \in {} |-> id] \in Locks
      BY <2>1, Zenon DEF Locks
    <2> QED
      BY <1>1, <2>2
  <1>5. World \in Worlds
    <2>1. jobs \in Seq(JobRecord) /\ telemetry \in Telemetry
      BY <1>1 DEF Telemetry
    <2> QED
      BY <1>3, <1>4, <2>1 DEF World, Worlds
  <1>6. DOMAIN World.jobs = {} /\ \A st : In(World, st) = {}
    BY <1>1, <1>2 DEF In
  <1>7. Counted(World)
    <2>1. Cardinality({}) = 0
      BY FS_EmptySet
    <2>2. /\ World.telemetry.pending = 0 /\ World.telemetry.claimed = 0
          /\ World.telemetry.inTransit = 0 /\ World.telemetry.completed = 0
      BY <1>1, <1>2
    <2>3. \A st : Cardinality(In(World, st)) = 0
      BY <1>6, <2>1
    <2> QED
      BY <2>2, <2>3 DEF Counted
  <1>8. LocksSound(World, nextReservationId)
    <2>1. \A c \in Container : DOMAIN World.held[c] = {}
      BY <1>1, <1>2
    <2> QED
      BY <1>6, <2>1 DEF LocksSound, Locked, Disjoint, Owned, Spent
  <1>9. Conserved(World)
    BY <1>1, <1>2 DEF Conserved
  <1>10. NotOver(World)
    BY <1>1, <1>2, <1>3 DEF NotOver, Totals
  <1>11. Aboard(World)
    <2> SUFFICES ASSUME NEW x \in Worker, NEW y \in Resource
                 PROVE  Cargo(World, x, y) <= World.qty[x][y] - World.reserved[x][y]
      BY DEF Aboard
    <2>1. Carried(World, x, y) = {}
      BY <1>6 DEF Carried
    <2>2. Cargo(World, x, y) = SumOf([j \in {} |-> World.jobs[j].amount], {})
      BY <2>1, TotalIsSum DEF Cargo
    <2>3. PICK f : f = [j \in {} |-> World.jobs[j].amount]
      OBVIOUS
    <2>4. f \in [{} -> Nat] /\ \A z \in {} : f[z] = 0
      BY <2>3
    <2>5. SumOf(f, {}) = 0
      BY <2>4, FS_EmptySet, SumIsZero, Zenon
    <2>6. x \in Container
      BY PlaceAssumption
    <2> QED
      BY <1>1, <1>2, <1>3, <2>2, <2>3, <2>5, <2>6 DEF Totals
  <1> QED
    BY <1>1, <1>5, <1>6, <1>7, <1>8, <1>9, <1>10, <1>11 DEF Sound

-----------------------------------------------------------------------------
(* The job board on its own.                                               *)

LEMMA BoardStaysSound ==
  ASSUME WorkerLimit = 1, Endpoint \cap Worker = {}
  PROVE  Sound(World, nextReservationId) /\ [JobNext]_vars => Sound(World, nextReservationId)'
  <1> SUFFICES ASSUME Sound(World, nextReservationId), [JobNext]_vars
               PROVE  Sound(World', nextReservationId')
    OBVIOUS
  <1>1. CASE UNCHANGED vars
    <2>1. World' = World /\ nextReservationId' = nextReservationId
      BY <1>1 DEF World, vars, jobVars, ledgerVars
    <2> QED
      BY <2>1
  <1> QED
    BY <1>1, JobStep

(* Single-worker jobs between endpoints that are not haulers' buffers, on  *)
(* containers only the job board touches: a claimed job has its goods      *)
(* locked at the source, exactly, and no lock outlives its claim.          *)
THEOREM LocksFollowClaims ==
  ASSUME WorkerLimit = 1, Endpoint \cap Worker = {}
  PROVE  JobSpec => [](ClaimedGoodsLocked /\ NoOrphanLock)
  <1>1. Init => Sound(World, nextReservationId)
    BY InitSound
  <1>2. Sound(World, nextReservationId) /\ [JobNext]_vars => Sound(World, nextReservationId)'
    BY BoardStaysSound
  <1>3. Sound(World, nextReservationId) => ClaimedGoodsLocked /\ NoOrphanLock
    BY SoundSays
  <1> QED
    BY <1>1, <1>2, <1>3, PTL DEF JobSpec

(* The same without the goods: no lock is left behind by a job that is     *)
(* cancelled, delivered, taken over or never claimed.                      *)
THEOREM OrphansImpossible ==
  ASSUME WorkerLimit = 1, Endpoint \cap Worker = {}
  PROVE  JobSpec => []NoOrphanLock
  BY LocksFollowClaims, PTL
=============================================================================
