----------------------------- MODULE Logistics ------------------------------
(***************************************************************************)
(* The job board of crates/sim-core/src/logistics.rs: a job moves an       *)
(* amount of one resource from a source to a destination in the buffer of  *)
(* a worker.  It is created, claimed by a worker (which locks the goods at *)
(* the source), picked up (the lock is committed and the goods enter the   *)
(* worker's buffer) and dropped off, or it is cancelled on the way.        *)
(*                                                                         *)
(* Containers are those of the ledger: totals per resource, locked units   *)
(* and reservations.  The same containers are open to the resource         *)
(* commands of a client (transfer, reserve, commit, cancel), which name    *)
(* reservations by id and know nothing of jobs: ClientNext.  Spec has both *)
(* kinds of step, JobSpec only the job board's own.                        *)
(*                                                                         *)
(* Abstracted: ticks and journal entries; priorities; a container's room   *)
(* is its volume, one unit of volume per unit of goods.                    *)
(***************************************************************************)
EXTENDS Ledger, Sequences, FiniteSetsExt, Functions

CONSTANTS
  Worker,      \* containers that are buffers of haulers
  Endpoint,    \* containers that jobs name as source or destination
  Actor,       \* the factions that give commands
  NoFaction,   \* FactionId::null()
  Owner,       \* Owner[c]: the faction a container is stamped with
  Capacity,    \* Capacity[c]: units that fit in c
  Stock,       \* Stock[c][r]: units in c when the model starts
  WorkerLimit, \* workers a job admits: 1 is SingleWorker, more MultiWorker
  MaxAmount,   \* bound: units a job or a command is about
  MaxJobs,     \* bound: jobs created
  NoReservation

ASSUME ReservationIdAssumption ==
  /\ ReservationId \subseteq Nat
  /\ NoReservation \notin ReservationId

ASSUME StockAssumption == Stock \in [Container -> [Resource -> Nat]]

ASSUME PlaceAssumption ==
  /\ IsFiniteSet(Container) /\ IsFiniteSet(Resource)
  /\ Worker \subseteq Container
  /\ Endpoint \subseteq Container
  /\ MaxAmount \in Nat
  /\ WorkerLimit \in Nat \ {0}

VARIABLES
  jobs,               \* sequence of job records; the index is the job id
  nextReservationId,  \* the registry's id counter
  telemetry           \* counters kept beside the jobs

jobVars == <<jobs, nextReservationId, telemetry>>
vars == <<ledgerVars, jobVars>>

Amount == 1 .. MaxAmount

JobRecord ==
  [status : {"Pending", "Claimed", "InTransit", "Completed", "Cancelled"},
   owner : Actor, source : Container, destination : Container,
   resource : Resource, amount : Amount,
   workers : Seq(Worker), reservation : ReservationId \cup {NoReservation}]

Accessible(actor, c) ==
  actor = NoFaction \/ Owner[c] = NoFaction \/ Owner[c] = actor

(* Fault: anybody may handle a job.                                        *)
MayHandleAny(actor, job) == TRUE

MayHandle(actor, job) ==
  actor = NoFaction \/ job.owner = NoFaction \/ job.owner = actor

Less(n) == IF n > 0 THEN n - 1 ELSE 0

Total(f, S) == MapThenSumSet(LAMBDA x : f[x], S)
Load(q, c) == Total(q[c], Resource)
HasRoom(q, c, n) == Load(q, c) + n <= Capacity[c]

(* Fault: the goods arrive and are also still where they were.             *)
Copied(q, c, d, r, n) == [q EXCEPT ![d][r] = @ + n]

Moved(q, c, d, r, n) ==
  LET taken == [q EXCEPT ![c][r] = @ - n]
  IN [taken EXCEPT ![d][r] = @ + n]

(* What the containers and the job board hold, as one value: a step of the *)
(* simulation may run several of the operations below one after another.   *)
World == [qty |-> qty, reserved |-> reserved, held |-> held,
          jobs |-> jobs, telemetry |-> telemetry]

Becomes(w) ==
  /\ qty' = w.qty
  /\ reserved' = w.reserved
  /\ held' = w.held
  /\ jobs' = w.jobs
  /\ telemetry' = w.telemetry

Init ==
  /\ qty = Stock
  /\ reserved = [c \in Container |-> [r \in Resource |-> 0]]
  /\ held = [c \in Container |-> [id \in {} |-> id]]
  /\ jobs = <<>>
  /\ nextReservationId = 1
  /\ telemetry = [pending |-> 0, claimed |-> 0, inTransit |-> 0, completed |-> 0]

-----------------------------------------------------------------------------
(* The operations of the job board.                                        *)

CreateJob(actor, source, destination, r, n) ==
  /\ Len(jobs) < MaxJobs
  /\ source # destination
  /\ Accessible(actor, source) /\ Accessible(actor, destination)
  /\ jobs' = Append(jobs,
       [status |-> "Pending", owner |-> actor, source |-> source,
        destination |-> destination, resource |-> r, amount |-> n,
        workers |-> <<>>, reservation |-> NoReservation])
  /\ telemetry' = [telemetry EXCEPT !.pending = @ + 1]
  /\ UNCHANGED <<ledgerVars, nextReservationId>>

(* Fault: the job is claimed although its goods cannot be locked.          *)
ClaimJobUnlocked(actor, j, v) ==
  /\ Accessible(actor, v) /\ MayHandle(actor, jobs[j])
  /\ jobs[j].status = "Pending"
  /\ nextReservationId \in ReservationId
  /\ nextReservationId' = nextReservationId + 1
  /\ jobs' = [jobs EXCEPT ![j].status = "Claimed", ![j].workers = <<v>>,
                          ![j].reservation = nextReservationId]
  /\ telemetry' = [telemetry EXCEPT !.pending = Less(@), !.claimed = @ + 1]
  /\ UNCHANGED ledgerVars

(* Fault: the counter is not moved on.                                     *)
ClaimJobSameId(actor, j, v) ==
  /\ Accessible(actor, v) /\ MayHandle(actor, jobs[j])
  /\ jobs[j].status = "Pending"
  /\ nextReservationId \in ReservationId
  /\ Hold(jobs[j].source, nextReservationId, jobs[j].resource, jobs[j].amount)
  /\ jobs' = [jobs EXCEPT ![j].status = "Claimed", ![j].workers = <<v>>,
                          ![j].reservation = nextReservationId]
  /\ telemetry' = [telemetry EXCEPT !.pending = Less(@), !.claimed = @ + 1]
  /\ UNCHANGED nextReservationId

(* The registry's next id is spent whether or not the goods can be locked. *)
ClaimJob(actor, j, v) ==
  LET job == jobs[j]
      id == nextReservationId
      Lockable == /\ id \notin DOMAIN held[job.source]
                  /\ job.amount <= Available(job.source, job.resource)
  IN
  /\ Accessible(actor, v) /\ MayHandle(actor, job)
  /\ job.status \in {"Pending", "Claimed"}
  /\ Len(job.workers) < WorkerLimit
  /\ id \in ReservationId
  /\ nextReservationId' = id + 1
  /\ \/ /\ Hold(job.source, id, job.resource, job.amount)
        /\ jobs' = [jobs EXCEPT ![j].status = "Claimed", ![j].reservation = id,
                                ![j].workers = Append(@, v)]
        /\ telemetry' = [telemetry EXCEPT !.pending = Less(@), !.claimed = @ + 1]
     \/ ~Lockable /\ UNCHANGED <<ledgerVars, jobs, telemetry>>

CanPickup(w, j, v) ==
  LET job == w.jobs[j] IN
  /\ job.status = "Claimed"
  /\ v \in Range(job.workers)
  /\ HasRoom(w.qty, v, job.amount)
  /\ job.reservation \in DOMAIN w.held[job.source]
  /\ LET lock == w.held[job.source][job.reservation]
     IN lock.amount <= w.reserved[job.source][lock.resource]

(* Fault: the reservation stays on record after its goods have left.       *)
AfterPickupKeepingLock(w, j, v) ==
  LET job == w.jobs[j]
      lock == w.held[job.source][job.reservation]
  IN [w EXCEPT !.qty = Moved(@, job.source, v, lock.resource, lock.amount),
               !.reserved[job.source][lock.resource] = @ - lock.amount,
               !.jobs[j].status = "InTransit",
               !.telemetry.claimed = Less(@), !.telemetry.inTransit = @ + 1]

(* The room was checked for the job's amount; what arrives is what the     *)
(* reservation locks.  If that does not fit it is gone from the source     *)
(* already, and the job is left as it was.                                 *)
AfterPickup(w, j, v) ==
  LET job == w.jobs[j]
      lock == w.held[job.source][job.reservation]
      unlocked == [w.reserved EXCEPT ![job.source][lock.resource] = @ - lock.amount]
      spent == [w.held EXCEPT ![job.source] = Without(@, job.reservation)]
      taken == [w.qty EXCEPT ![job.source][lock.resource] = @ - lock.amount]
  IN IF HasRoom(taken, v, lock.amount)
     THEN [qty |-> [taken EXCEPT ![v][lock.resource] = @ + lock.amount],
           reserved |-> unlocked, held |-> spent,
           jobs |-> [w.jobs EXCEPT ![j].status = "InTransit"],
           telemetry |-> [w.telemetry EXCEPT !.claimed = Less(@), !.inTransit = @ + 1]]
     ELSE [w EXCEPT !.qty = taken, !.reserved = unlocked, !.held = spent]

(* Fault: locked goods count as free.                                      *)
CanDropoffLocked(w, j, v) ==
  /\ w.jobs[j].status = "InTransit"
  /\ v \in Range(w.jobs[j].workers)
  /\ HasRoom(w.qty, w.jobs[j].destination, w.jobs[j].amount)
  /\ w.jobs[j].amount <= w.qty[v][w.jobs[j].resource]

CanDropoff(w, j, v) ==
  LET job == w.jobs[j] IN
  /\ job.status = "InTransit"
  /\ v \in Range(job.workers)
  /\ HasRoom(w.qty, job.destination, job.amount)
  /\ job.amount <= w.qty[v][job.resource] - w.reserved[v][job.resource]

AfterDropoff(w, j, v) ==
  LET job == w.jobs[j] IN
  [w EXCEPT !.qty = Moved(@, v, job.destination, job.resource, job.amount),
            !.jobs[j].status = "Completed",
            !.telemetry.inTransit = Less(@),
            !.telemetry.completed = @ + 1]

ExecutePickup(actor, j, v) ==
  /\ Accessible(actor, v) /\ MayHandle(actor, jobs[j])
  /\ CanPickup(World, j, v)
  /\ Becomes(AfterPickup(World, j, v))
  /\ UNCHANGED nextReservationId

ExecuteDropoff(actor, j, v) ==
  /\ Accessible(actor, v) /\ MayHandle(actor, jobs[j])
  /\ CanDropoff(World, j, v)
  /\ Becomes(AfterDropoff(World, j, v))
  /\ UNCHANGED nextReservationId

(* Fault: the lock is forgotten.                                           *)
CancelJobKeepingLock(actor, j) ==
  /\ MayHandle(actor, jobs[j])
  /\ jobs[j].status \notin {"Completed", "Cancelled"}
  /\ jobs' = [jobs EXCEPT ![j].status = "Cancelled"]
  /\ UNCHANGED <<ledgerVars, nextReservationId, telemetry>>

(* The lock of a claimed job is released, if the source still knows it;    *)
(* goods that were picked up stay in the worker's buffer.                  *)
CancelJob(actor, j) ==
  LET job == jobs[j]
      Releasable == /\ job.status = "Claimed"
                    /\ job.reservation \in DOMAIN held[job.source]
  IN
  /\ MayHandle(actor, job)
  /\ job.status \notin {"Completed", "Cancelled"}
  /\ jobs' = [jobs EXCEPT ![j].status = "Cancelled"]
  /\ telemetry' = CASE job.status = "Pending"   -> [telemetry EXCEPT !.pending = Less(@)]
                    [] job.status = "Claimed"   -> [telemetry EXCEPT !.claimed = Less(@)]
                    [] job.status = "InTransit" -> [telemetry EXCEPT !.inTransit = Less(@)]
  /\ \/ Releasable /\ Release(job.source, job.reservation)
     \/ ~Releasable /\ UNCHANGED ledgerVars
  /\ UNCHANGED nextReservationId

JobNext ==
  \E actor \in Actor :
    \/ \E s, d \in Endpoint, r \in Resource, n \in Amount : CreateJob(actor, s, d, r, n)
    \/ \E j \in DOMAIN jobs :
         \/ CancelJob(actor, j)
         \/ \E v \in Worker :
              \/ ClaimJob(actor, j, v)
              \/ ExecutePickup(actor, j, v)
              \/ ExecuteDropoff(actor, j, v)

(* The resource commands of a client, on the same containers.              *)
ClientTransfer(actor, c, d, r, n) ==
  /\ Accessible(actor, c) /\ Accessible(actor, d)
  /\ HasRoom(qty, d, n)
  /\ Transfer(c, d, r, n)

ClientReserve(actor, c, id, r, n) ==
  Accessible(actor, c) /\ Hold(c, id, r, n)

ClientCommit(actor, c, id, d) ==
  /\ Accessible(actor, c) /\ Accessible(actor, d)
  /\ id \in DOMAIN held[c] /\ HasRoom(qty, d, held[c][id].amount)
  /\ Deliver(c, id, d)

ClientCancel(actor, c, id) ==
  Accessible(actor, c) /\ Release(c, id)

ClientNext ==
  \E actor \in Actor, c \in Container :
    \/ \E d \in Container, r \in Resource, n \in Amount : ClientTransfer(actor, c, d, r, n)
    \/ \E id \in ReservationId, r \in Resource, n \in Amount : ClientReserve(actor, c, id, r, n)
    \/ \E id \in DOMAIN held[c] :
         \/ ClientCancel(actor, c, id)
         \/ \E d \in Container : ClientCommit(actor, c, id, d)

Next == JobNext \/ (ClientNext /\ UNCHANGED jobVars)

Spec == Init /\ [][Next]_vars
JobSpec == Init /\ [][JobNext]_vars

-----------------------------------------------------------------------------
(* Properties.                                                             *)

TypeOK ==
  /\ LedgerTypeOK
  /\ jobs \in Seq(JobRecord)
  /\ nextReservationId \in Nat \ {0}
  /\ telemetry \in [pending : Nat, claimed : Nat, inTransit : Nat, completed : Nat]

JobsIn(status) == {j \in DOMAIN jobs : jobs[j].status = status}

(* "Locks the requested goods in the source inventory so they cannot be    *)
(* double-spent or claimed by another job": as long as a job is claimed,   *)
(* its source holds a lock of exactly its resource and amount for it.      *)
ClaimedGoodsLocked ==
  \A j \in JobsIn("Claimed") :
    LET job == jobs[j] IN
    /\ job.reservation \in DOMAIN held[job.source]
    /\ held[job.source][job.reservation] = [resource |-> job.resource, amount |-> job.amount]

(* No two claimed jobs stand on the same lock.                             *)
ClaimsDisjoint ==
  \A i, j \in JobsIn("Claimed") :
    jobs[i].reservation = jobs[j].reservation => i = j

(* "Cancel ... and cleanly release any active reservations": with only the *)
(* job board at work every lock belongs to a job that is still claimed, so *)
(* no goods stay locked behind a job that is over.                         *)
NoOrphanLock ==
  \A c \in Container : \A id \in DOMAIN held[c] :
    \E j \in JobsIn("Claimed") : jobs[j].source = c /\ jobs[j].reservation = id

(* Picking up and dropping off neither duplicates nor loses goods: the     *)
(* containers together always hold what they started with.                 *)
GoodsConserved ==
  \A r \in Resource :
    Total([c \in Container |-> qty[c][r]], Container)
      = Total([c \in Container |-> Stock[c][r]], Container)

(* The goods of the jobs in transit are all in the buffers of the workers  *)
(* that carry them, not locked for anything else.                          *)
CargoAboard ==
  \A v \in Worker, r \in Resource :
    LET carried == {j \in JobsIn("InTransit") :
                      jobs[j].resource = r /\ jobs[j].workers = <<v>>}
    IN Total([j \in carried |-> jobs[j].amount], carried) <= Available(v, r)

(* The counters are adjusted by hand in five operations, each with its own *)
(* saturating subtraction; they still count the jobs in each state.        *)
TelemetryAgrees ==
  /\ telemetry.pending = Cardinality(JobsIn("Pending"))
  /\ telemetry.claimed = Cardinality(JobsIn("Claimed"))
  /\ telemetry.inTransit = Cardinality(JobsIn("InTransit"))
  /\ telemetry.completed = Cardinality(JobsIn("Completed"))

(* The books balance: what the containers hold, what the workers carry and *)
(* what the counters say tell the same story, whatever was claimed, picked *)
(* up, cancelled or cut off in between (logistics.rs:561-800).             *)
BooksBalance == GoodsConserved /\ CargoAboard /\ TelemetryAgrees

(* How far a job is.                                                       *)
Rank == [Pending |-> 0, Claimed |-> 1, InTransit |-> 2, Completed |-> 3, Cancelled |-> 3]

(* Whatever jobs and clients do, each step is one the ledger allows.       *)
LedgerSteps == [][LedgerNext]_ledgerVars

(* Goods of a faction stay in its containers when only factions act: jobs  *)
(* and commands, in any order, move nothing across the border.             *)
Holds(f) ==
  LET mine == {c \in Container : Owner[c] = f}
  IN Total([c \in mine |-> Load(qty, c)], mine)
GoodsStayHome == [][\A f \in Actor : Holds(f)' <= Holds(f)]_vars
=============================================================================
