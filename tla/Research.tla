------------------------------ MODULE Research ------------------------------
(***************************************************************************)
(* Research of one faction: crates/sim-core/src/research.rs.  A queue of   *)
(* jobs of which the first runs; laboratories whose hoppers hold the       *)
(* materials; completed technologies, whose modifiers are published to the *)
(* structure registry as a patch.  Factions share nothing, so one will do. *)
(*                                                                         *)
(* What the structure registry says of a laboratory (built or not, powered *)
(* or not, gone) changes outside, and is read once per tick.  Abstracted:  *)
(* one material; unlocks go with the technology that grants them; what     *)
(* fills a hopper is outside too.                                          *)
(***************************************************************************)
EXTENDS Modifiers, Sequences, SequencesExt, FiniteSets

CONSTANTS
  Tech,          \* technologies, as positive numbers
  Lab,           \* structures that may be laboratories, likewise
  TechCost,          \* TechCost[t]
  TechDuration,      \* TechDuration[t], in ticks
  Contribution,  \* Contribution[t], its modifiers
  Fate,          \* Fate[l]: what may become of a laboratory
  MaxQueue,      \* MAX_RESEARCH_QUEUE_LEN
  MaxJob, MaxDelivery  \* bounds: jobs ever queued, units ever delivered

ASSUME ResearchAssumption ==
  /\ Tech \subseteq Nat \ {0} /\ IsFiniteSet(Tech) /\ Lab \subseteq Nat \ {0}
  /\ TechCost \in [Tech -> Nat] /\ TechDuration \in [Tech -> Nat \ {0}]
  /\ MaxQueue \in Nat /\ MaxJob \in Nat /\ MaxDelivery \in Nat

VARIABLES
  tree,       \* by technology, its prerequisites
  queue,      \* the jobs, the running one first
  completed,  \* technologies
  published,  \* those whose modifiers the structure registry runs under
  site,       \* what the structure registry says of each laboratory
  known,      \* the laboratories research knows
  hopper,      \* by laboratory, material in its hopper
  held,       \* by laboratory and job, material the job has locked there
  orphaned,   \* by laboratory, material locked for nobody any more
  nextJob, delivered

researchVars == <<tree, queue, completed, published, site, known, hopper, held,
                  orphaned, nextJob, delivered>>
materialVars == <<hopper, held, orphaned>>

Job == 1 .. MaxJob
Unknown == 0   \* an id no technology has

-----------------------------------------------------------------------------
(* The tech tree, loaded and validated once.                               *)

(* Kahn's algorithm, the lowest id first: the order from a set of          *)
(* technologies on that are already sorted.                                *)
TopologicalOrder(prerequisites) ==
  LET Ready(done) == {t \in Tech \ done : prerequisites[t] \subseteq done}
      sorted[done \in SUBSET Tech] ==
        IF Ready(done) = {} THEN <<>>
        ELSE <<Min(Ready(done))>> \o sorted[done \cup {Min(Ready(done))}]
  IN sorted[{}]

Loads(prerequisites) ==
  /\ \A t \in Tech : t \notin prerequisites[t] /\ prerequisites[t] \subseteq Tech
  /\ Len(TopologicalOrder(prerequisites)) = Cardinality(Tech)

-----------------------------------------------------------------------------
ResearchInit ==
  /\ tree \in {p \in [Tech -> SUBSET (Tech \cup {Unknown})] : Loads(p)}
  /\ queue = <<>>
  /\ completed = {}
  /\ published = {}
  /\ site = [l \in Lab |-> "Off"]
  /\ known = {}
  /\ hopper = [l \in Lab |-> 0]
  /\ held = [l \in Lab |-> [j \in Job |-> 0]]
  /\ orphaned = [l \in Lab |-> 0]
  /\ nextJob = 1
  /\ delivered = 0

Queued(t) == \E i \in DOMAIN queue : queue[i].tech = t

(* Fault: a prerequisite may still be in the queue.                        *)
PrerequisitesMetSoon(t) == \A p \in tree[t] : p \in completed \/ Queued(p)
PrerequisitesMet(t) == tree[t] \subseteq completed

QueueResearch(t) ==
  /\ t \notin completed /\ ~Queued(t)
  /\ Len(queue) < MaxQueue /\ nextJob \in Job
  /\ PrerequisitesMet(t)
  /\ queue' = Append(queue, [id |-> nextJob, tech |-> t, state |-> "Queued", host |-> 0,
                             locks |-> FALSE, progress |-> 0, total |-> TechDuration[t]])
  /\ nextJob' = nextJob + 1
  /\ UNCHANGED <<tree, completed, published, site, known, materialVars, delivered>>

(* Fault: the materials of a cancelled job stay locked.                    *)
CancelResearchUnreleased(i) ==
  /\ i \in DOMAIN queue
  /\ queue' = RemoveAt(queue, i)
  /\ UNCHANGED <<tree, completed, published, site, known, materialVars, nextJob, delivered>>

(* A cancelled job gives back what it has locked in the laboratory that    *)
(* hosts it, if that is still there.                                       *)
CancelResearch(i) ==
  /\ i \in DOMAIN queue
  /\ queue' = RemoveAt(queue, i)
  /\ held' = IF queue[i].locks THEN [held EXCEPT ![queue[i].host][queue[i].id] = 0] ELSE held
  /\ UNCHANGED <<tree, completed, published, site, known, hopper, orphaned, nextJob, delivered>>

ReorderQueue(i, to) ==
  /\ i \in DOMAIN queue /\ to \in DOMAIN queue /\ i # to
  /\ queue' = InsertAt(RemoveAt(queue, i), to, queue[i])
  /\ UNCHANGED <<tree, completed, published, site, known, materialVars, nextJob, delivered>>

(* Given by a map, without cost; a job for it may be queued and stays so.  *)
GrantTech(t) ==
  /\ t \notin completed
  /\ tree[t] \subseteq completed
  /\ completed' = completed \cup {t}
  /\ UNCHANGED <<tree, queue, published, site, known, materialVars, nextJob, delivered>>

(* Outside: construction, power, dismantling; and deliveries.              *)
SiteChanges(l, now) ==
  /\ now \in Fate[l] /\ site[l] # "None" /\ now # site[l]
  /\ site' = [site EXCEPT ![l] = now]
  /\ UNCHANGED <<tree, queue, completed, published, known, materialVars, nextJob, delivered>>

Deliver(l) ==
  /\ l \in known /\ delivered < MaxDelivery
  /\ hopper' = [hopper EXCEPT ![l] = @ + 1]
  /\ delivered' = delivered + 1
  /\ UNCHANGED <<tree, queue, completed, published, site, known, held, orphaned, nextJob>>

-----------------------------------------------------------------------------
(* The tick.                                                               *)

Operational == {l \in Lab : site[l] \in {"Dark", "Lit"}}
Powered == {l \in Lab : site[l] = "Lit"}
Selected == IF Powered # {} THEN Min(Powered) ELSE Min(Operational)

(* A laboratory that is no longer there takes its hopper with it, and      *)
(* what was locked there.                                                  *)
Kept(amount) == [l \in Lab |-> IF site[l] = "None" THEN 0 ELSE amount[l]]
HeldKept == [l \in Lab |-> IF site[l] = "None" THEN [j \in Job |-> 0] ELSE held[l]]

LockedIn(l) == orphaned[l] + MapThenSumSet(LAMBDA j : held[l][j], Job)
Affordable(t, l) == hopper[l] - LockedIn(l) >= TechCost[t]

(* What the job locked before, wherever that is, is locked for nobody now. *)
Abandoned(job) ==
  [l \in Lab |-> Kept(orphaned)[l] + (IF job.locks /\ job.host = l THEN HeldKept[l][job.id] ELSE 0)]
HeldWithout(job) == [l \in Lab |-> [HeldKept[l] EXCEPT ![job.id] = 0]]

Waits(job, state) ==
  /\ queue' = [queue EXCEPT ![1].state = state]
  /\ held' = HeldKept /\ orphaned' = Kept(orphaned) /\ hopper' = Kept(hopper)
  /\ UNCHANGED completed

ResearchTicks(job) == DurationTicksFor(Totals(Contribution, completed), "ResearchSpeed", TechDuration[job.tech])

Starts(job, l) ==
  /\ queue' = [queue EXCEPT ![1].state = "InProgress", ![1].host = l, ![1].locks = TRUE,
                            ![1].progress = 0, ![1].total = ResearchTicks(job)]
  /\ held' = [HeldWithout(job) EXCEPT ![l][job.id] = TechCost[job.tech]]
  /\ orphaned' = Abandoned(job)
  /\ hopper' = Kept(hopper)
  /\ UNCHANGED completed

Advances(job) ==
  /\ queue' = [queue EXCEPT ![1].progress = @ + 1]
  /\ held' = HeldKept /\ orphaned' = Kept(orphaned) /\ hopper' = Kept(hopper)
  /\ UNCHANGED completed

(* Its materials are consumed where it runs now.  A job without locks has  *)
(* nothing to consume; one whose locks are elsewhere starts over.          *)
Finishes(job, l) ==
  IF ~job.locks \/ job.host = l
  THEN /\ queue' = Tail(queue)
       /\ completed' = completed \cup {job.tech}
       /\ hopper' = [Kept(hopper) EXCEPT ![l] = @ - held[l][job.id]]
       /\ held' = HeldWithout(job)
       /\ orphaned' = Kept(orphaned)
  ELSE /\ queue' = [queue EXCEPT ![1].state = "AwaitingResources", ![1].locks = FALSE,
                                 ![1].progress = 0]
       /\ held' = HeldWithout(job)
       /\ orphaned' = Abandoned(job)
       /\ hopper' = Kept(hopper)
       /\ UNCHANGED completed

RunsJob(job) ==
  CASE Operational = {}                       -> Waits(job, "Queued")
    [] Operational # {} /\ Powered = {}       -> Waits(job, "Unpowered")
    [] Powered # {} /\ job.state \in {"Queued", "AwaitingResources"} ->
         IF Affordable(job.tech, Selected) THEN Starts(job, Selected)
         ELSE Waits(job, "AwaitingResources")
    [] Powered # {} /\ job.state = "Unpowered" -> Waits(job, "InProgress")
    [] Powered # {} /\ job.state = "InProgress" ->
         IF job.progress + 1 >= job.total THEN Finishes(job, Selected) ELSE Advances(job)

(* Fault: the patch goes out before the queue advances.                    *)
DistributedBefore == completed
DistributedPatch == completed'

ResearchTick ==
  /\ known' = {l \in Lab : site[l] # "None"}
  /\ IF queue # <<>> THEN RunsJob(queue[1])
     ELSE /\ held' = HeldKept /\ orphaned' = Kept(orphaned) /\ hopper' = Kept(hopper)
          /\ UNCHANGED <<queue, completed>>
  /\ published' = DistributedPatch
  /\ UNCHANGED <<tree, site, nextJob, delivered>>

ResearchCommands ==
  \/ \E t \in Tech : QueueResearch(t)
  \/ \E i \in 1 .. MaxQueue : CancelResearch(i)
  \/ \E i, to \in 1 .. MaxQueue : ReorderQueue(i, to)

ResearchNext ==
  \/ ResearchCommands
  \/ \E t \in Tech : GrantTech(t)
  \/ \E l \in Lab, now \in {"None", "Off", "Dark", "Lit"} : SiteChanges(l, now)
  \/ \E l \in Lab : Deliver(l)
  \/ ResearchTick

ResearchSpec == ResearchInit /\ [][ResearchNext]_researchVars

-----------------------------------------------------------------------------
(* A technology is completed, and queued, after its prerequisites, and no  *)
(* two jobs research the same one.                                         *)
PrerequisitesFirst ==
  /\ \A t \in completed : tree[t] \subseteq completed
  /\ \A i \in DOMAIN queue : tree[queue[i].tech] \subseteq completed
  /\ \A i, j \in DOMAIN queue : queue[i].tech = queue[j].tech => i = j

(* That is so whichever way the queue was reordered, cancelled or overtaken *)
(* by a grant; and the tree that was loaded has no cycle: of any           *)
(* technologies one needs no other of them.                                *)
NoCycle == \A S \in SUBSET Tech : S # {} => \E t \in S : tree[t] \cap S = {}
EarnedInOrder == PrerequisitesFirst /\ NoCycle

(* Material is locked at most once for a job, in the laboratory that hosts *)
(* it and for a job that is queued; hoppers hold what is locked in them.   *)
(* (Cancelling, moving to another laboratory, losing one and starting over *)
(* each have to undo the lock.)                                            *)
Hosts(l, j) == \E i \in DOMAIN queue : queue[i].id = j /\ queue[i].host = l /\ queue[i].locks
LocksHaveOwners ==
  \A l \in Lab :
    /\ \A j \in Job : held[l][j] > 0 => Hosts(l, j)
    /\ LockedIn(l) <= hopper[l]

(* Material leaves a hopper that stays where it is only for a technology   *)
(* that is finished in the same step, once, and for its price.  The patch  *)
(* in force after a tick is that of the technologies completed by then.    *)
Spent(l) == hopper[l] - hopper'[l]
Finished(t) == queue # <<>> /\ queue[1].tech = t /\ queue' = Tail(queue) /\ t \in completed'
SpentOnResearch ==
  [][/\ \A l \in Lab : site[l] # "None" /\ Spent(l) > 0 =>
          \E t \in Tech : Finished(t) /\ Spent(l) = TechCost[t]
                          /\ \A m \in Lab : m # l /\ site[m] # "None" => Spent(m) = 0
     /\ ResearchTick => published' = completed']_researchVars

(* research.rs:20 says a job only makes progress while its materials are   *)
(* locked.                                                                 *)
ProgressIsPaid ==
  [][\A i \in DOMAIN queue, l \in DOMAIN queue' :
       /\ queue[i].id = queue'[l].id /\ queue'[l].progress > queue[i].progress
       /\ TechCost[queue[i].tech] > 0
       => queue[i].locks]_researchVars
=============================================================================
