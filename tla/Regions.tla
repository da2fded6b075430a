------------------------------ MODULE Regions ------------------------------
(***************************************************************************)
(* The partition of the world: which region an entity is in                *)
(* (src/crates/sim-core/src/{entity,region,world}.rs), the messages that    *)
(* regions send each other through bounded queues (message_queue.rs), and  *)
(* the scheduler that runs hot regions every tick, warm ones every other    *)
(* and cold ones when they are woken or have mail (scheduler.rs).           *)
(*                                                                         *)
(* Left out: bounds and coordinates of regions, the source, payload and     *)
(* number of a message, all metrics; nothing calls RegionMap::remove_entity. *)
(***************************************************************************)
EXTENDS Integers, Sequences, FiniteSets, FiniteSetsExt

CONSTANTS
  RegionId, NullRegion,
  Party, NullParty,       \* factions; the null faction owns neutral entities
  InitialState,           \* the regions on the map at the start: "Hot", "Warm" or "Cold"
  DefaultCapacity,
  MediumInterval,         \* ticks between two runs of a warm region
  MaxWakeups,             \* wakeups handled in a tick
  MaxEntities, MaxMail    \* bounds: entities made, messages sent

ASSUME RegionsAssumption ==
  /\ NullRegion \notin RegionId /\ NullParty \notin Party
  /\ InitialState \in [RegionId -> {"None", "Hot", "Warm", "Cold"}] /\ MaxEntities \in Nat
  /\ DefaultCapacity \in Nat \ {0} /\ MediumInterval \in Nat \ {0} /\ MaxWakeups \in Nat \ {0}

VARIABLES
  entity,     \* entity registry: the sequence of entities, by id
  place,      \* entity_to_region: NullRegion if there is no entry
  region,     \* regions: state "None" if not on the map, and the members
  mail,       \* the queue of each region: when its messages were sent
  limit,      \* its capacity and policy
  sent,       \* messages sent so far
  wakeups,    \* wakeup_queue: <<tick, region>>, with repetitions left out
  tick,
  since       \* the tick at which a region came on the map

mapvars == <<entity, place, region, since>>
mailvars == <<mail, limit, sent>>
clockvars == <<wakeups, tick>>

OnMap == {r \in RegionId : region[r].state # "None"}
EntityIds == 1 .. MaxEntities

----------------------------------------------------------------------------
(* Entities *)

AssignEntity(e, r) ==
  /\ region' = [q \in RegionId |->
       IF q = r THEN [state |-> IF r \in OnMap THEN region[r].state ELSE "Hot",
                      members |-> region[r].members \cup {e}]
       ELSE [region[q] EXCEPT !.members = @ \ {e}]]
  /\ place' = [place EXCEPT ![e] = r]

CreateEntity(f, r) ==
  /\ Len(entity) < MaxEntities
  /\ entity' = Append(entity, [faction |-> f, region |-> r])
  /\ IF r = NullRegion THEN UNCHANGED <<place, region, since>>
     ELSE /\ AssignEntity(Len(entity) + 1, r)
          /\ since' = IF r \in OnMap THEN since ELSE [since EXCEPT ![r] = tick]

AuthorizeEntity(actor, e) == actor = NullParty \/ entity[e].faction \in {NullParty, actor}

(* Fault: the entity is taken out of its region before the destination is  *)
(* looked up.                                                               *)
TransferEntityEarly(actor, e, r) ==
  /\ AuthorizeEntity(actor, e)
  /\ place[e] # NullRegion
  /\ region' = [q \in RegionId |->
       [region[q] EXCEPT !.members = IF q = r /\ r \in OnMap THEN @ \cup {e} ELSE @ \ {e}]]
  /\ place' = IF r \in OnMap THEN [place EXCEPT ![e] = r] ELSE place
  /\ entity' = IF r \in OnMap THEN [entity EXCEPT ![e].region = r] ELSE entity
  /\ UNCHANGED since

TransferEntity(actor, e, r) ==
  /\ AuthorizeEntity(actor, e)
  /\ r \in OnMap
  /\ place[e] # NullRegion
  /\ region' = [q \in RegionId |->
       [region[q] EXCEPT !.members = IF q = r THEN @ \cup {e} ELSE @ \ {e}]]
  /\ place' = [place EXCEPT ![e] = r]
  /\ entity' = [entity EXCEPT ![e].region = r]
  /\ UNCHANGED since

SetRegionState(r, state) ==
  /\ r \in OnMap
  /\ region' = [region EXCEPT ![r].state = state]
  /\ UNCHANGED <<entity, place, since>>

----------------------------------------------------------------------------
(* Messages *)

Full(r) == Len(mail[r]) >= limit[r].capacity

(* A full queue refuses the message, or drops its oldest. *)
Send(to) ==
  /\ sent < MaxMail
  /\ sent' = sent + 1
  /\ \/ /\ Full(to) /\ limit[to].policy = "Reject"
        /\ UNCHANGED mail
     \/ /\ ~(Full(to) /\ limit[to].policy = "Reject")
        /\ LET kept == IF Full(to) THEN Tail(mail[to]) ELSE mail[to]
           IN mail' = [mail EXCEPT ![to] = Append(kept, tick)]
  /\ UNCHANGED limit

(* A new policy comes with a new queue: what was pending is gone. *)
SetRegionQueuePolicy(r, capacity, policy) ==
  /\ mail' = [mail EXCEPT ![r] = << >>]
  /\ limit' = [limit EXCEPT ![r] = [capacity |-> capacity, policy |-> policy]]
  /\ UNCHANGED sent

----------------------------------------------------------------------------
(* The scheduler *)

ScheduleWakeup(at, r) ==
  /\ wakeups' = wakeups \cup {<<at, r>>}
  /\ UNCHANGED tick

Earlier(v, w) == v[1] <= w[1]

(* The earliest of the wakeups that are due, as many as a tick handles. *)
Woken(due) ==
  {w \in SUBSET due : /\ Cardinality(w) = IF Cardinality(due) < MaxWakeups THEN Cardinality(due) ELSE MaxWakeups
                      /\ \A v \in w, u \in due \ w : Earlier(v, u)}

(* Fault: a cold region sleeps on until it is woken. *)
RunsAsleep(r, t, woken) ==
  CASE region[r].state = "Hot" -> TRUE
    [] region[r].state = "Warm" -> t % MediumInterval = 0
    [] region[r].state = "Cold" -> \E w \in woken : w[2] = r
    [] OTHER -> FALSE

Runs(r, t, woken) ==
  CASE region[r].state = "Hot" -> TRUE
    [] region[r].state = "Warm" -> t % MediumInterval = 0
    [] region[r].state = "Cold" -> mail[r] # << >> \/ \E w \in woken : w[2] = r
    [] OTHER -> FALSE

(* A region that runs reads its mail; a wakeup is used up whoever runs. *)
SchedulerTick ==
  \E woken \in Woken({w \in wakeups : w[1] <= tick + 1}) :
    /\ tick' = tick + 1
    /\ wakeups' = wakeups \ woken
    /\ mail' = [r \in RegionId |-> IF Runs(r, tick + 1, woken) THEN << >> ELSE mail[r]]
    /\ UNCHANGED <<mapvars, limit, sent>>

----------------------------------------------------------------------------
RegionsInit ==
  /\ entity = << >>
  /\ place = [e \in EntityIds |-> NullRegion]
  /\ region = [r \in RegionId |-> [state |-> InitialState[r], members |-> {}]]
  /\ mail = [r \in RegionId |-> << >>]
  /\ limit = [r \in RegionId |-> [capacity |-> DefaultCapacity, policy |-> "Reject"]]
  /\ sent = 0 /\ wakeups = {} /\ tick = 0
  /\ since = [r \in RegionId |-> 0]

MapNext ==
  \/ \E f \in Party \cup {NullParty}, r \in RegionId \cup {NullRegion} : CreateEntity(f, r)
  \/ \E f \in Party \cup {NullParty}, e \in DOMAIN entity, r \in RegionId : TransferEntity(f, e, r)
  \/ \E r \in RegionId, state \in {"Hot", "Warm", "Cold"} : SetRegionState(r, state)

MailNext ==
  \/ \E to \in RegionId : Send(to)
  \/ \E r \in RegionId, policy \in {"Reject", "DropOldest"} : SetRegionQueuePolicy(r, DefaultCapacity, policy)

RegionsNext ==
  \/ MapNext /\ UNCHANGED <<mailvars, clockvars>>
  \/ MailNext /\ UNCHANGED <<mapvars, clockvars>>
  \/ (\E r \in RegionId, at \in tick + 1 .. tick + 2 : ScheduleWakeup(at, r)) /\ UNCHANGED <<mapvars, mailvars>>
  \/ SchedulerTick

RegionsSpec == RegionsInit /\ [][RegionsNext]_<<mapvars, mailvars, clockvars>>

----------------------------------------------------------------------------
(* "Ensures no entity duplication or loss": the three records of where an  *)
(* entity is agree after any sequence of creations, transfers and refused   *)
(* transfers.  It is in the region of its own record, listed by that region *)
(* alone, or in none if it was made without one (region.rs:318-358,         *)
(* world.rs:273-328).                                                       *)
RegionsAgree ==
  \A e \in DOMAIN entity :
    /\ entity[e].region = place[e]
    /\ {r \in RegionId : e \in region[r].members} = {place[e]} \ {NullRegion}

(* No message waits in the queue of a region for as long as the interval of *)
(* the warm regions, counted from when it was sent or the region came on    *)
(* the map, in whatever order the region changes its state, sleeps and is   *)
(* woken (scheduler.rs:230-288).  Of mail that a full queue or a change of  *)
(* policy throws away it says nothing: that is thrown away by design.       *)
NoMessageGoesStale ==
  \A r \in OnMap : \A i \in DOMAIN mail[r] :
    tick - (IF mail[r][i] < since[r] THEN since[r] ELSE mail[r][i]) < MediumInterval
=============================================================================
