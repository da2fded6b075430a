--------------------------- MODULE LogisticsDocks ---------------------------
(***************************************************************************)
(* The docks and the distant transports of                                 *)
(* crates/sim-core/src/logistics.rs, and the step of the simulation that   *)
(* advances them: vessels queue at a dock, a berth serves a vessel for as  *)
(* many ticks as its job's goods need, and when the service ends the       *)
(* pickup or the dropoff of the job is attempted, its refusal ignored.     *)
(* A distant transport is a countdown that ends in a dropoff.              *)
(*                                                                         *)
(* The job board is Logistics, used whole: between two steps its jobs are  *)
(* claimed, executed by hand and cancelled by the commands of the players. *)
(*                                                                         *)
(* Abstracted: the starvation flag and the counts of serviced vessels and  *)
(* of starved jobs, which only feed telemetry.                             *)
(***************************************************************************)
EXTENDS Logistics, SequencesExt

CONSTANTS
  Dock,          \* the docks, in the order of their entity ids
  Berths,        \* vessels a dock serves at once
  QueueLimit,    \* vessels a dock keeps waiting (64 in the code)
  Rate,          \* units a berth serves per tick, throughput included
  MaxJourney,    \* bound: ticks a distant transport travels
  MaxTransports  \* bound: distant transports under way

ASSUME DockAssumption ==
  /\ Dock \in Seq(Range(Dock)) /\ IsInjective(Dock)
  /\ Berths \in Nat \ {0} /\ QueueLimit \in Nat /\ Rate \in Nat \ {0}

VARIABLES
  queue,      \* queue[d]: vessels waiting at dock d
  servicing,  \* servicing[d]: sessions [worker, job, action, left]
  stalled,    \* stalled[d]: ticks since dock d last made progress
  transports  \* sequence of [hauler, job, left]

dockVars == <<queue, servicing, stalled, transports>>
allVars == <<vars, dockVars>>

Docks == Range(Dock)

DocksInit ==
  /\ Init
  /\ queue = [d \in Docks |-> <<>>]
  /\ servicing = [d \in Docks |-> <<>>]
  /\ stalled = [d \in Docks |-> 0]
  /\ transports = <<>>

Serves(sessions, v) == \E i \in DOMAIN sessions : sessions[i].worker = v

(* Fault: a vessel that is being served is queued again.                   *)
EnqueueVesselServed(d, v) ==
  /\ ~Contains(queue[d], v)
  /\ Len(queue[d]) < QueueLimit
  /\ queue' = [queue EXCEPT ![d] = Append(@, v)]
  /\ UNCHANGED <<vars, servicing, stalled, transports>>

(* A vessel that is already waiting or served is not queued again.         *)
EnqueueVessel(d, v) ==
  /\ ~Contains(queue[d], v)
  /\ ~Serves(servicing[d], v)
  /\ Len(queue[d]) < QueueLimit
  /\ queue' = [queue EXCEPT ![d] = Append(@, v)]
  /\ UNCHANGED <<vars, servicing, stalled, transports>>

(* A job in transit leaves for a region that is not simulated.  Whoever    *)
(* runs the manager puts the journey on its list, as its tests do; nothing *)
(* keeps a second one of the same job off it.                              *)
Depart(j, v, n) ==
  /\ jobs[j].status = "InTransit"
  /\ v \in Range(jobs[j].workers)
  /\ Len(transports) < MaxTransports
  /\ transports' = Append(transports, [hauler |-> v, job |-> j, left |-> n])
  /\ UNCHANGED <<vars, queue, servicing, stalled>>

-----------------------------------------------------------------------------
(* One step of the simulation.                                             *)

ActiveJobs(v) ==
  {j \in DOMAIN jobs : /\ jobs[j].status \in {"Claimed", "InTransit"}
                       /\ v \in Range(jobs[j].workers)}

(* A vessel is served for its oldest active job, whatever dock it is at.   *)
SessionFor(v) ==
  LET j == Min(ActiveJobs(v)) IN
  [worker |-> v, job |-> j, left |-> jobs[j].amount,
   action |-> IF jobs[j].status = "Claimed" THEN "Pickup" ELSE "Dropoff"]

(* A vessel at the front of the queue takes a free berth; one that has no  *)
(* active job leaves the queue and gets none.                              *)
Served(line, v) ==
  IF Len(line.servicing) >= Berths THEN [line EXCEPT !.queue = Append(@, v)]
  ELSE IF ActiveJobs(v) = {} THEN line
  ELSE [line EXCEPT !.servicing = Append(@, SessionFor(v))]

(* Fault: the last vessel to come is served first.                         *)
AdmitLast(d) ==
  LET line[i \in 0 .. Len(queue[d])] ==
        IF i = 0 THEN [queue |-> <<>>, servicing |-> servicing[d]]
        ELSE Served(line[i - 1], queue[d][Len(queue[d]) + 1 - i])
      last == line[Len(queue[d])]
  IN [last EXCEPT !.queue = Reverse(@)]

(* Vessels take free berths in the order of the queue.                     *)
Admit(d) ==
  LET line[i \in 0 .. Len(queue[d])] ==
        IF i = 0 THEN [queue |-> <<>>, servicing |-> servicing[d]]
        ELSE Served(line[i - 1], queue[d][i])
  IN line[Len(queue[d])]

Worked(session) ==
  [session EXCEPT !.left = IF @ > Rate THEN @ - Rate ELSE 0]

(* Fault: the job's state is not looked at again.                          *)
TransactStale(w, s) ==
  IF s.left > 0 THEN w
  ELSE IF s.action = "Pickup"
  THEN IF CanPickup(w, s.job, s.worker) THEN AfterPickup(w, s.job, s.worker) ELSE w
  ELSE IF w.jobs[s.job].amount <= w.qty[s.worker][w.jobs[s.job].resource]
       THEN AfterDropoff(w, s.job, s.worker) ELSE w

(* The transaction a session ends in; a refusal leaves everything as it is,*)
(* and so does a session that goes on.                                     *)
Transact(w, s) ==
  IF s.left > 0 THEN w
  ELSE IF s.action = "Pickup"
  THEN IF CanPickup(w, s.job, s.worker) THEN AfterPickup(w, s.job, s.worker) ELSE w
  ELSE IF CanDropoff(w, s.job, s.worker) THEN AfterDropoff(w, s.job, s.worker) ELSE w

Settled(w, sessions) ==
  LET after[i \in 0 .. Len(sessions)] ==
        IF i = 0 THEN w ELSE Transact(after[i - 1], sessions[i])
  IN after[Len(sessions)]

(* The sessions of all docks end first, then the transports that have      *)
(* arrived, each one seeing what the ones before it did.                   *)
Settle(worked) ==
  LET Landing(t) == [worker |-> t.hauler, job |-> t.job, action |-> "Dropoff", left |-> t.left]
      docked[i \in 0 .. Len(Dock)] ==
        IF i = 0 THEN World ELSE Settled(docked[i - 1], worked[Dock[i]])
  IN Settled(docked[Len(Dock)], [i \in DOMAIN transports |-> Landing(transports[i])])

(* The sessions or journeys that are not over yet.                         *)
Underway(s) ==
  LET kept[i \in 0 .. Len(s)] ==
        IF i = 0 THEN <<>>
        ELSE IF s[i].left > 0 THEN Append(kept[i - 1], s[i]) ELSE kept[i - 1]
  IN kept[Len(s)]

Step ==
  /\ UNCHANGED nextReservationId
  /\ \E admitted \in {[d \in Docks |-> Admit(d)]} :
       \E worked \in {[d \in Docks |-> [i \in DOMAIN admitted[d].servicing |->
                                          Worked(admitted[d].servicing[i])]]} :
         /\ queue' = [d \in Docks |-> admitted[d].queue]
         /\ servicing' = [d \in Docks |-> Underway(worked[d])]
         /\ stalled' = [d \in Docks |->
                          IF admitted[d].queue # <<>> /\ admitted[d].servicing = <<>>
                          THEN stalled[d] + 1 ELSE 0]
         /\ LET enRoute == Underway(transports) IN
              transports' = [i \in DOMAIN enRoute |-> [enRoute[i] EXCEPT !.left = @ - 1]]
         /\ \E w \in {Settle(worked)} : Becomes(w)

DocksNext ==
  \/ Step
  \/ JobNext /\ UNCHANGED dockVars
  \/ \E v \in Worker :
       \/ \E d \in Docks : EnqueueVessel(d, v)
       \/ \E j \in DOMAIN jobs, n \in 0 .. MaxJourney : Depart(j, v, n)

(* The server steps the simulation on every tick of its loop.              *)
DocksSpec == DocksInit /\ [][DocksNext]_allVars /\ WF_allVars(Step)

-----------------------------------------------------------------------------
(* Properties.                                                             *)

(* A vessel has at most one place at a dock, waiting or being served: the  *)
(* check at the end of the queue and the admission at its front agree.     *)
OnePlacePerDock ==
  \A d \in Docks :
    /\ IsInjective(queue[d])
    /\ \A i, k \in DOMAIN servicing[d] :
         servicing[d][i].worker = servicing[d][k].worker => i = k
    /\ \A i \in DOMAIN queue[d] : ~Serves(servicing[d], queue[d][i])

(* The dock deadlock the telemetry counts (300 ticks without progress)     *)
(* cannot build up: a queue is never left waiting at an idle dock.         *)
NeverStalled == \A d \in Docks : stalled[d] = 0

(* A dock's queue and berths are one line: nobody is in it twice, and it   *)
(* moves whenever there is room (logistics.rs:166, 836-900).                   *)
QueuesSound == OnePlacePerDock /\ NeverStalled

(* Every vessel that queues at a dock leaves the queue, for a berth or for *)
(* want of a job, however many vessels arrive behind it.                   *)
QueueDrains ==
  \A d \in Docks, v \in Worker : Contains(queue[d], v) ~> ~Contains(queue[d], v)

(* A step may end several sessions and journeys of the same job at once,   *)
(* begun when the job was in another state; still no job goes back to an   *)
(* earlier state, so goods enter a destination for a job only once.        *)
JobsAdvance ==
  [][\A j \in DOMAIN jobs :
       \/ jobs'[j] = jobs[j]
       \/ Rank[jobs'[j].status] > Rank[jobs[j].status]]_allVars
=============================================================================
