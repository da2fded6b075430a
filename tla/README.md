# TLA+ models of rts-engine

A verification project kept beside the Rust workspace of `rts-engine`, an authoritative, tick-driven
real-time-strategy server with replicated clients. It models the simulation (containers, logistics,
production, structures and power, research, robots and combat, fog of war, regions), the session layer
and the threads that feed it commands, the anti-cheat provider, and the parts of the client that decide
something. TLC checks the models on small instances; TLAPS proves the results that matter most for every
value of the constants. Line numbers refer to the repository as checked out under `src/`.

Contents: 1 the system, 2 the modules, 3 how the models correspond to the code, 4 what is checked,
5 findings, 6 hazards, 7 what is proved, 8 what is not modelled, 9 what remains.

## 1. The system

One process steps the simulation ("sim-core") in ticks; a server around it ("game-protocol") reads
packets, buffers commands, applies them in the order of (session, sequence), steps the systems and
broadcasts snapshots. `WorldState::step_systems` (`world.rs:774`) runs, in this order: structures
(construction, power, production), research, logistics, robots, projectile spawning, turrets,
projectiles, knowledge, the region scheduler. Within a step everything is sequential; what is hard is
the interleaving of *operations* across steps: the same containers, jobs, facilities, structures and
robots are touched by commands of several players, by the systems, and by countdowns that were begun in
an earlier state. True concurrency is in the threaded server only.

| component | state | operations | interacts with | what is hard | what makes it correct |
|---|---|---|---|---|---|
| containers (`inventory.rs`) | slots, reservations per container, an id counter | add, remove, reserve, commit, release; atomic transfer, two-phase reserve / commit / cancel | logistics, structures, research, production, commands | fragmented slots, locks that name no slot, rollback | capacity and lock sums hold; every reservation can be honoured and undone; nothing is lost or invented |
| job board (`logistics.rs`) | jobs, counters | create, claim, pickup, dropoff, cancel | containers, clients' resource commands | races for jobs and goods, ids that outlive their reservation, partial failure | claimed goods are locked once, locks end with their jobs, goods are conserved |
| docks, transports (`logistics.rs`) | queues, sessions, countdowns | enqueue, depart, step | job board | sessions that outlive their job, two of them ending at once, starvation | a job advances once; queues drain |
| production (`production.rs`) | recipe, craft, drill, hoppers, deposits | tick, advance_ticks, set_recipe, set_deposit | power, structures, research patches | power cuts, full hoppers and new orders in any order | inputs locked exactly while crafting, progress kept, worth conserved |
| structures (`structure.rs`, `wall.rs`, `snap.rs`) | life cycle, health, cells, wall grid | build, cancel, complete, damage, repair, dismantle, tick | containers (costs, refunds), power, production, logistics | damage while being built or dismantled; five registers written by each operation | the registers tell one story; ground is held by what stands on it |
| power (`power.rs`) | nodes, grids, stored energy | register, remove, tick | structures, production, research | shedding by priority, batteries at their limit, stale topology | what is used was made or drained, the important are served first |
| research (`research.rs`, `modifier.rs`) | queue, completed set, facility hoppers, patch | queue, cancel, reorder, grant, tick | structures, power, modifiers | facility fails over, power cut before payment, reordering | a technology is paid once, after its prerequisites |
| robots (`robot.rs`, `chassis.rs`, `navigation.rs`) | orders, escorts, squads, bodies | spawn, order, escort, squad commands, damage, step | combat, commands | death between the assignment and the tick, rosters in two places | both sides of every roster agree; a squad is ordered whole |
| combat (`combat.rs`, `world.rs`) | weapons, projectiles, turrets | fire, reload, step | structures, robots, power | an id that names a structure and a robot; reload against fire | shots harm only what bears the number of a foe within reach; no weapon is stuck |
| knowledge (`knowledge.rs`) | fog, enemies in sight, ghosts | step | snapshots, anti-cheat | two tests of sight, stale ghosts | a faction remembers what it saw and forgets only what it sees gone |
| regions, routing, scheduling (`region.rs`, `message_queue.rs`, `scheduler.rs`) | region of each entity, bounded queues, wakeups | create, transfer, send, set state, set policy, schedule, step | world | a queue at its limit, a wakeup in a skipped tick, a refused transfer | an entity is in one region; no message goes stale |
| sessions, server, client (`game-protocol`) | sessions, sequences, command buffer, mirrors | handshake, command, ping, poll, disconnect, tick | transport, world, anti-cheat | loss, duplication, reordering, timeout against late packets | a command is applied at most once, in order, for the client of its session |
| transport and codec (`transport.rs`, `codec.rs`) | channels, bytes | send, receive, encode, decode | server, client | every layout is written twice; datagrams are cut and overtaken | what comes out was put in |
| threaded server (`threaded.rs`) | the same on threads and channels; a worker pool | the same; stop, join, drop, submit | as above | a flag read at different moments, channels that close under each other, panics | it decides as the single-threaded one; stopping ends, with the jobs done |
| anti-cheat (`anti-cheat`) | trust, telemetry, pending kicks | observe, decide, override, decay | server, knowledge | escalation against decay and operators | who is banned is gone by the end of the tick; levels follow scores |
| client (`game-client`) | prediction buffer, samples, ghost of a site | predict, reconcile, draw, preview | snapshots | late and stale answers | an honest server never makes the avatar jump; bodies are drawn forward; the preview never refuses what the server takes |
| base types (`game-types`), events, route graph, benchmarks | identifiers, records | | all | | |

## 2. The modules

The project is layered: a module EXTENDS what it is built on, and an `MC*` module gives it constants.

```
Ledger <- Logistics <- LogisticsDocks          Armor <- Combat <- Robots <- Battle
Inventory (implements Ledger)                  Armor <- Power <- Structures
CommandStream (implemented by Session)         Modifiers <- Research
Production     Threads     Regions             Knowledge <- AntiCheat
Codec <- Wire                                  Terrain <- Movement, Prediction, Placement
Interpolation
```

| module | models | main definitions |
|---|---|---|
| `Ledger` | what a container promises: totals, locked totals, reservations | `Deposit`, `Withdraw`, `Transfer`, `Hold`, `Release`, `Consume`, `Deliver`, `Discard` |
| `Inventory` | `inventory.rs` slot by slot | `Spread` (the walk over slots), `Fill`, `RemoveFrom`, `Lock`, `Deduct`, `Unlock`; one action per registry call, registering anew and removing a container included |
| `Logistics` | the job board, on the ledger; the resource commands of clients | `CreateJob`, `ClaimJob`, `ExecutePickup`, `ExecuteDropoff`, `CancelJob`; `ClientTransfer`, `ClientReserve`, `ClientCommit`, `ClientCancel` |
| `LogisticsDocks` | docks, transports and the logistics step, around the job board | `EnqueueVessel`, `Depart`, `Step` (`Admit`, `Worked`, `Transact`, `Settle`) |
| `Production` | facilities and deposits | `Tick` (`TickProduction`, `TickMining`), `AdvanceTicks`, `SetRecipe`, `SetDeposit` |
| `Armor` | the damage formula of `wall.rs` | `Plating`, `EffectiveDamage` |
| `Power` | `power.rs` as operators on a table of nodes | links, grids, shedding by priority, batteries |
| `Structures` | `structure.rs`: life cycle, costs and refunds, and every register an operation writes | build, cancel, damage, repair, dismantle, `StructuresTick` |
| `Modifiers` | stacking of modifiers: groups add, groups multiply, one rounding | totals by kind and group |
| `Research` | `research.rs` for one faction | queueing, cancelling, reordering, granting, deliveries, laboratories, `ResearchTick` |
| `Combat` | weapons, target choice, projectiles, bursts, arcs, what burns | operators used by `Robots` and `Battle` |
| `Robots` | the robot registry | spawning, orders, escorts, squads, damage, the robots' part of a tick |
| `Battle` | robots, then turrets, then projectiles, as `step_systems` orders them | `WorldTick`, `Command`, `PowerChanges` |
| `Knowledge` | fog, sight, ghosts | `KnowledgeStep`, `WorldMoves` |
| `AntiCheat` | the heuristic provider and what the server does with its verdicts | one action per kind of packet, `ServerTick` |
| `Regions` | entities, region maps, queues and the scheduler | `CreateEntity`, transfer, `Send`, `SetRegionState`, `SetRegionQueuePolicy`, `ScheduleWakeup`, `SchedulerTick` |
| `CommandStream` | what the session layer promises the simulation | `Open`, `Issue`, `Apply` |
| `Session` | `AuthoritativeServer` and `ThreadedAuthoritativeServer`, `GameClientNet`, the UDP network, the role registry | `Connect`, `SendCommand`, `Poll`, ...; `HandleInbound` (`HandleHello`, `HandleBye`, `HandlePing`, `HandleCommand`); `Tick` |
| `Threads` | the threads, channels and worker pool of `threaded.rs` | a step of ingress, simulation, egress, of a worker and of the owner that stops, joins or drops |
| `Codec` | every packet and command as bytes and back | the tables `...Written` and `...Read`, `EncodePacket`, `DecodePacket` |
| `Wire` | the loopback channel and the UDP transport | `SendPacket`, `ReceiveLoopback`, `ReceiveDatagram`, `Disturb`, closing ends |
| `Terrain` | bounds and obstacles | `ClampToBounds`, `CheckCollision`, resolving a collision |
| `Movement` | the move command with its two validations | `ValidateMovement`, `ApplyPlayerMove` |
| `Prediction` | client-side prediction and reconciliation | a frame, a server state, the server and the network (external) |
| `Interpolation` | drawing remote entities | `ReceiveRemoteEntitySample`, `RemoveRemoteEntity`, a frame |
| `Placement` | the ground structures stand on, in positions, boxes and cells; the client's ghost of a site | `RequestBuild`, `Destroy`, `RemoveStructure`; `UpdatePreview`, `CreateBuildCommand` |
| `Induction` | induction over naturals and finite sets; sums, maxima and folds | lemmas the proofs below rest on |
| `LogisticsProofs`, `ProductionProofs` | theorems about the module of that name (section 7) | |
| `InventoryProofs` | theorems about `Inventory` and how it implements `Ledger` | |
| `DocksProofs` | theorems about `LogisticsDocks`, on top of those about `Logistics`, and about `Placement` | |
| `ServerProofs` | theorems about `Session`, `Threads` and `Regions` | |
| `BaseProofs` | theorems about `Structures` and `Research` | |
| `MatchProofs` | theorems about `Robots`, `Battle`, `Knowledge` and `AntiCheat` | |
| `MC*` | instances; where several systems share an instance, a variable says which of them is at work | constants, scenes |

Definitions whose comment says "Fault" are mutated forms of the operator that follows them. They take no
part in any specification; substituting one for the original makes the named property fail, which
shows that the property watches that code.

## 3. How the models correspond to the code

**Containers and jobs.** `Inventory.slots[c]` is `Inventory::slots`, `reservations[c]` the map
`Inventory::reservations`, `registered` the keys of `InventoryRegistry`. The five slot walks of the code
differ in direction, in what a slot has room for (`Free`, `Locked`, `Headroom`) and in what it becomes: `Spread` is
the walk, given the room of every slot, and the operation that calls it says what a slot does with its share. Volumes are whole numbers; ticks, targets and journal entries are left out. `Ledger` has no
slots. `Inventory` implements it through the totals of its slots (`ImplementsLedger`, checked and proved), and
`Logistics` is built on the ledger, so that its state is small enough to check with jobs.
`Logistics.jobs[j]` is the job with id `j`: status, owner, ends, resource, amount, claimed workers and the
id of its reservation. The id is *not* a pointer: the container may meanwhile have given the id to
something else, and the model keeps that (`AfterPickup` commits what the id names now, and loses it if it
does not fit, as `execute_pickup` does). `LogisticsDocks.Step` is `LogisticsManager::step`: admission at
every dock, work, then all ended sessions in order, then the transports that arrived, each transaction
seeing the ones before it and every refusal ignored, as the code's `let _ =` does.

**Production.** `Production.facility[f]` is one `ProductionFacility`; `Tick` folds over the facilities in
the order of their ids because drills share deposits. A craft carries the amounts its reservations lock;
the code carries their ids, which no other code sees and which are never used again. `supply` is the
outcome of the power network and of the structure's life cycle and may change between any two ticks.
`Haul` stands for whoever fills and empties hoppers with `Inventory::add` and `remove`.

**Structures and power.** `Structures` has the registers of one building that several handlers write:
state, cells, wall grid, power node, facility, patches. Sites are disjoint places; a list of what each id
may become stands for the build commands. `Power` is a set of operators on a table of nodes: reach on a line, grids by a
depth-first walk, then supply, batteries and shedding. The network recomputes its topology only when it is
marked dirty, and the model keeps the stale grids beside the nodes. Satisfaction matters only at one half,
below which a structure stops. `Placement` has what `Structures` takes as given: positions in quarters of a metre, quarter
turns, boxes, the cells of a box, the wall grid of two metres, and the verdicts of the client's preview.

**Research.** One faction with its queue, of which the first job runs; laboratories that appear, lose
power and disappear between ticks; hoppers of one material. The technology tree is chosen among all that
the loader's topological sort accepts. `Modifiers` keeps thousandths as integers, as the code does.

**Robots and combat.** Bodies are on a line of whole places and time is in ticks; steering is the code's
sequence (seek, separate, limit the acceleration) on that line, path finding is left out. `Battle.WorldTick`
runs the robots, spawns their shots, then turrets, then projectiles, with the state each of them sees.
Structures and robots are numbered by separate counters, both from one, and a hit finds its target by an
`EntityId` made of a structure's number, among the robots first (`world.rs:981`, `:1044`). The checked instance has
a structure 1 and a robot 1, of different factions, and robots 2 to 4 and structure 7 without a namesake.

**Knowledge and anti-cheat.** Units, avatars and structures come and go by external actions; the step
rebuilds visibility from sensors (circles for ids, cells for the grid) and refreshes or purges ghosts.
`AntiCheat` compares each command with what the server knows; every statistic over samples appears as the
test it decides, on small numbers (positions on a grid, ticks, one window).

**Regions.** `place` is the table of entities, `region[r].members` the region map, `entity[e].region` the
entity's own record, three places that one transfer writes one after the other. A message is the
tick it was sent at; the queue has a capacity and one of two policies. `since` (when a region came on the map)
serves the property only.

**Session.** Both servers, chosen in the initial state by `server`. Where they decide alike they share a
definition; they differ in three places: the address that is answered (`Destination`), the role of a
session evicted for its manifest or by verdict (`RolesWithout`), and whether sessions that have ended can
time out (`Tick`). Packets are a set that only grows, so that each may arrive at any time, twice, or
never; this also stands for the channel between the ingress thread and the simulation thread. A session's
id stands for its token, a client for its address. The anti-cheat provider is external here: it may refuse
any handshake or command, evict any sender, and remove any sessions at a tick. `role = "Host"` stands for
`ServerOwner` too. The threaded server offers nobody a first role (its registry starts empty and has no
setter), so that all its admin commands are refused; the program that embeds the single server names its
staff with `SetAdminRole`, here for active sessions.

**Threads.** Three threads, the owner of the handle and a pool. A datagram is one that waits somewhere;
what a tick does with it is `Session`'s subject. A channel is closed by the end of the thread that holds
its other end. A job may panic: its worker dies with it, and the last one takes the queue along.

**Codec and wire.** The code has every layout twice, in the encoder and in the decoder; both are
transcribed as tables, one indexed by what is written, the other by the number on the wire. Numbers are
tuples of bytes, little end first. UDP hands bytes to a network that loses, repeats, overtakes and cuts
them, or sends a datagram with an unknown command.

**Client.** In `Prediction` and `Interpolation` the server and the network are external. Movement is on
whole units, speeds per tick; where the code scales a vector the model rounds towards its origin, so that
a limit that holds in the model is not an effect of rounding up.

## 4. What is checked

**Fairness.** `WF(Step)` and `WF(Tick)`: the server calls `step_systems` on every tick of its loop
(`server.rs:285`), whatever players do. In `Threads`, weak fairness of each thread, of each worker and of
an owner that waits: the operating system schedules every runnable thread again. No fairness is assumed of
any command, of power, of arrivals, of handing in jobs or of stopping.

Some systems that do not touch each other share an instance: a variable chosen in the initial state says
which is at work and never changes. This adds the state spaces of the parts and multiplies none, and each
property speaks of the part it is about.

| run | instance | shows |
|---|---|---|
| `stores`, containers | an unowned depot (3 slots) and a silo (2 slots) of one faction, stacking by two and by one, four units, two ids, two actors | `ValidateInvariants` (the audit of `validate_invariants`), `AlwaysUndoable` (reservations can be honoured, rollbacks fit), refinement of `Ledger` (`ImplementsLedger`) |
| `stores`, machines | two drills on a deposit of 3 with batches of 2 and hoppers of 2, or a drill and a refinery with two recipes; two speeds, power cuts and shutdowns | `FastForwardMatchesTicks`, `InputsLocked`, `NothingSpoilt`, `CraftsEnd` |
| `clients` | 2 jobs and every client command on a depot and two haulers of two factions | `NeverOverReserved`, `LedgerSteps`, `GoodsStayHome` under all interleavings |
| `docks` | two docks of one berth, queue of one, 2 haulers, 2 single-worker jobs, up to two transports of one tick under way, also of the same job | `QueuesSound`, `ClaimedGoodsLocked`, `ClaimsDisjoint`, `NoOrphanLock`, `BooksBalance`, `JobsAdvance` |
| `live` | one dock with a queue of two and a tight outpost; or the threads with two datagrams; or with two workers, three jobs, two of which panic | `QueueDrains`, `StopIsClean` |
| `session` | two clients, two session ids, two numbered packets of one client and one of the other, plain, role, kick and manifest commands, one client of another version or none, both servers, a timeout of no tick | refinement of `CommandStream` (`ImplementsCommandStream`), `NeverMuted`, `HostsPromote` |
| `base` | three structures of two factions on three places of a line (generator; battery, pylon or wall; depot or drill), a blow that some of them survive, one patch; or two technologies, one of which may need the other, two laboratories, a queue of two | `RegistersAgree`, `PowerShared`; `EarnedInOrder`, `LocksHaveOwners`, `SpentOnResearch` |
| `field`, battle | four robots of two factions, two players, two squads, two structures, one with a turret and the other with the number of a robot, four weapons (linear, ballistic with fire, melee, cannon), six ticks, every combination of orders | `RostersAgree`, `RegroupIsWhole`, `WeaponsRecover`, `ShotsHarmNumbersOfFoes` |
| `field`, match | two factions on nine cells, two units, an avatar, a structure, one watched session with 15 kinds of instruction | `GhostsMatchSight`, `NothingForgotten`, `StandingConsistent` |
| `field`, regions | three regions (hot, cold, not on the map), two entities, three messages, queues of one, warm interval of two | `RegionsAgree`, `NoMessageGoesStale` |
| `field`, client | every form of every packet and command, each field filled with bytes of its own, one fault; 19 reported positions around two obstacles; three keys, four frames, a push; two paths of seven samples; three sites, walls and turrets, two rotations | `PacketsSurvive`, `AvatarKeepsPace`, `PredictionTracks`, `DrawnForward`, `PlacementAgrees` |
| `pickup_loss` | one job and a client | **violated** `GoodsConserved`, finding 1 |
| `blocked_drill` | two drills and their hoppers | **violated** `OreNeverInvented`, finding 2 |
| `ended_session` | the threaded server, two clients | **violated** `EndedSessionsAreMute`, finding 3 |
| `free_research` | one technology in each of two laboratories | **violated** `ProgressIsPaid`, finding 4 |
| `shared_numbers` | the battle above | **violated** `NoFriendlyFire`, finding 5 |

Why the bounds are enough: every hazard of section 6 needs at most two of anything: two slots to fragment
a resource, two reservations to take each other's units, two haulers and two jobs for a race, two docks
for one job ending twice, two drills for the last units of a deposit, two nodes between a source and a
consumer, two laboratories for a job that moves, two squads for a robot that changes, two messages in a
queue of one, two samples around a frame and one beyond. Amounts go one past a stack, a hopper, a
magazine and a price, so that every "fits" test is taken both ways and partly. In `session` two numbers of
one client are overtaken and repeated, and two session ids let one client open two sessions or two clients
one each; a timeout of no tick makes silence end a session at once, and `ended_session` has one of two
ticks. In `live` two panics take both workers, or one of them while the other goes on.

Other bounds cap what would grow for ever: `MaxAmount`, `MaxSupply`, `MaxId`, `MaxJobs`, `MaxTick`,
`MaxWatch`, `MaxJob`, `MaxDelivery`, `MaxMail`, `MaxEntities`, `MaxRegionTick`, `MaxSent`, `MaxFaults`,
`MaxMoveTick`, `MaxFrames`, `MaxDatagrams`, `MaxWaiting`, `MaxTransports`. They sit in guards and nothing in the code corresponds to them.
Capacities that the code does have (`QueueLimit`, `MaxQueue`, `DefaultCapacity`, `HistoryCapacity`,
`SampleCapacity`, `MaxEscortCap`) are small, so that the limit is reached.

Deadlock is not checked where ids, jobs or ticks are bounded by the model (`CHECK_DEADLOCK FALSE`): when
they are used up the model stops, the system does not. In `stores` nothing runs out and it is checked.

What the properties do not say, because the code does not do it:

* *Movement.* `apply_player_move` allows up to one second of catching up, and `dispatch.rs:163` says its
  own validation matches; but that one clamps to half a second, and its tolerance of ten per cent is undone by
  the other. Several moves in one tick have a step's allowance each. After the second clamp the position is
  not resolved against obstacles again: `AvatarKeepsPace` names exactly that case. The default terrain of
  the server (±500, no obstacles) is not the arena the client predicts with (±100).
* *Prediction.* `last_reconciled_seq` is never compared, so that a late state rewinds the avatar until
  the next one; `PredictionTracks` is about usable states.
* *Interpolation.* Past the extrapolation limit an entity snaps back to its newest position;
  `DrawnForward` is about frames the samples cover.
* *Placement.* Walls next to each other on the grid look `Valid` in the preview and are refused by the
  server, whose cells include both ends; the server does not test obstacles; a ghost's verdict may be from
  before it was rotated. `PlacementAgrees` is one direction only: the preview is never the stricter of the two.
* *Robots.* Knockback moves nothing; weapons recover and fire while a robot is stunned; a robot of two
  squads that dies stays in the first one's list; an attack order may name the own faction, and
  `NoFriendlyFire` and `ShotsHarmNumbersOfFoes` are about projectiles only. Destroyed structures still stop
  projectiles. The turrets there are shoot straight; one with another weapon would discharge to no effect.
* *Regions.* A wakeup of a warm region on a tick it does not run at is lost, and one message per
  interval is enough to run it; a full queue discards a message and a change of policy the mail that
  waits, by design, and `NoMessageGoesStale` is about what stays; `transfer_entity` does not touch the
  robot's own region; dead robots stay in the entity registry.
* *Threads.* After panics took every worker, jobs are accepted and dropped. Answers not yet sent when
  the server stops are lost. The single exception to the clean end is an endless stream (section 6).
* *Session.* Commands of a kicked or ended session are not shown to the provider; a role directive for
  an ended session leaves its role behind.

## 5. Findings

1. `execute_pickup` (`logistics.rs:675`) tests the room for the job's amount, commits the reservation
   with the claim's id and adds *what that reservation locked*; a client may have cancelled the claim's
   reservation and made a larger one under the same id (`dispatch.rs:386` passes the client's id on). The
   goods are then in no container, against "Zero resource duplication or loss." (`logistics.rs:625`).
2. A drill whose hopper is full enters `OutputBlocked` with a pending batch it never takes from the
   deposit, neither then (`production.rs:527`) nor when it delivers it (`production.rs:465`), against
   "Extracted minerals ready" (`production.rs:279`).
3. `bind_command_packet` (`server.rs:52`) looks a session up in the map, from which ended sessions are
   never removed, and never at its state; the commands of a session that said goodbye, timed out or was
   removed are still numbered, buffered and applied, against "(cleans up session)" and "for each active
   session" (`docs/PROTOCOL.md:49`, `:55`).
4. A research job that waits for its materials goes to `Unpowered` when its laboratory loses power, and
   `Unpowered` resumes as `InProgress` (`research.rs:1186`): it makes progress and completes without a
   reservation, against "A research job can only make progress when all three of the following hold"
   (`research.rs:16`).
5. A projectile that meets a structure records an `EntityId` made of the structure's number (`world.rs:981`), and
   the impact looks it up among the robots before the structures (`world.rs:1044`). The two counters both start
   at one (`entity.rs:97`, `structure.rs:495`): a red shot at blue structure 1 harms red robot 1, wherever it
   is, and the structure is unharmed; a shot at a robot that an earlier impact of the tick removed harms the structure of its
   number. An `EntityId` is a "Unique entity identifier for simulation objects" (`game-types/src/ids.rs:3`), and "Type safety
   prevents mixing different ID types" (`docs/DECISIONS.md:21`).
   What does hold is `ShotsHarmNumbersOfFoes`: the number, if not the body, is that of a foe within reach.

`BooksBalance` and `NoOrphanLock` hold for single-worker jobs as long as nobody else uses the job's
reservations, which is what `docks` shows; with several workers per job a second claim overwrites the
reservation of the first (`logistics.rs:609`), which is never released. `NothingSpoilt` is conservation
with finding 2 taken out, `SpentOnResearch` payment with finding 4 taken out.

## 6. Hazards

`PROJECT.json` lists them with their lines and the properties that watch them. Three have no property
because the code promises nothing there: a distant transport whose dropoff is refused on arrival is forgotten
(`logistics.rs:926`); a client applies a snapshot older than the one it has (`client.rs:101`), and the
entities it copies are not modelled; and an endless stream of datagrams postpones both a stop and the
ticks (`threaded.rs:281`). Low-priority jobs may wait for ever (`logistics.rs:979`); nobody promises they do not. A full region
queue and a change of its policy discard mail (`message_queue.rs:88`) by design.

## 7. What is proved

Each theorem holds for every value of the constants that meets the named ASSUMEs of its module; TLC
evaluates those in the runs. None of them assumes fairness.

`InventoryProofs` (any containers, capacities, stack limits, unit volumes, amounts, ids, owners):

* `AuditAlwaysPasses`: `Spec => []ValidateInvariants`; `WhatIsDoneCanBeUndone`: `Spec => []AlwaysUndoable`; and the
  refinement `ContainersImplementLedger`: `Spec => ImplementsLedger`, containers that are registered anew or removed included.

All three rest on `InOrder`: each container's slots are a `Stock` (stacks within their limit, locks within the stack,
slots and volume within the capacity) and what is locked of a resource is what the reservations
promise of it (`Ordered`). A walk is unfolded once, in `SpreadShares`: the share of a slot is at most its room, and the shares come to
the amount, or to all the room there is. What an operation does to quantities, locks, volume and the number of
slots then follows from one lemma each (`FillWorks`, `LockWorks`, `UnlockWorks`, `RemoveWorks`, `DeductWorks`, `AddWorks`), in which
each of these is a sum over the slots of some measure of a slot (`Measured`), so that one lemma about sums serves for
all. That units taken out fit again (`RoomToReturn`) is the hard one: `remove` empties slots from the back
and `add` fills the stacks that are left from the front, so that it may need as many new slots as were dropped. It
holds because the room left in stacks of a resource is what their number times the stack limit leaves over
(`HeadroomIsRest`), and slots only went by becoming empty. The ledger's view of a step is then a matter of totals.

`LogisticsProofs` (any containers, workers, actors, resources, capacities, stock and number of jobs):

* `CoreInvariant`: `Spec => [](TypeOK /\ NeverOverReserved)`. The conjunction is inductive: a
  subtraction stays in the naturals only because no more is locked than is there. One lemma per ledger
  operation (`HoldKeeps`, `ReleaseKeeps`, `DeliverKeeps`, `ConsumeKeeps`, `TransferKeeps`), one step per action.
* `StepsAreLedgerSteps`: `Spec => LedgerSteps`. Pickup maps to `Deliver`, or to `Consume` when its goods
  do not fit; dropoff to `Transfer`; claims and cancellations to `Hold`, `Release` or a stutter.
* `ClaimsStayDisjoint`: `Spec => []ClaimsDisjoint`, also with clients at work. Needs that the ids of claimed
  jobs are below the counter, which only moves forward.
* `LocksFollowClaims`: `JobSpec => [](ClaimedGoodsLocked /\ NoOrphanLock)` if jobs admit one worker and
  no worker's buffer is an end of a job; both hypotheses are needed. `OrphansImpossible` is its half about locks.

Both rest on `Sound(w, n)`, which is a state predicate written as a predicate of a *world* `w` (the
containers, the jobs and the counters) and the next reservation id `n`, because a step of the docks goes through
several worlds that are nobody's state. It says that nobody has locked more than there is (`NotOver`), that a
claimed job has exactly one worker (`Staffed`), that locks and claims match both ways and under ids that are spent
(`LocksSound`: without the last a fresh claim could meet an old lock), that goods add up to the stock (`Conserved`),
that each worker's cargo is unlocked in his buffer (`Aboard`) and that the counters count (`Counted`). Conservation
needs cargo and locks: a pickup moves what the lock says and a dropoff what the job says, and only `Locked` and `Aboard`
make them the same. Each operation is first summed up (`PickedUp`, `DroppedOff`, `Created`, `ClaimedBy`, `CalledOff`), then
shown to keep each conjunct; the lemma `JobStep` puts them together, with `Later`: no job goes back.

`DocksProofs` (any docks, berths, length of queues, haulers, jobs, journeys; and any owners):

* `QueuesStaySound`: `DocksSpec => []QueuesSound`, without any hypothesis on jobs. `DocksGood` says of each dock that
  its queue has no vessel twice, its berths none twice, and none is in both; the walk over the queue (`Admit`) is
  unfolded by induction on its length with `LineGood`, in which the rest of the queue is `Behind`.
* `BooksStayBalanced`: `DocksSpec => [](NoOrphanLock /\ BooksBalance /\ ClaimedGoodsLocked /\ ClaimsDisjoint)` and
  `JobsOnlyAdvance`: `DocksSpec => JobsAdvance`, for one worker per job and ends that are no worker's buffer. `DocksInv` is
  `DocksGood`, `Sound` of the current world and `Tracked`: whatever is at a berth or under way names a worker and a job
  there is. That is all a countdown is known to be when it ends; that the job it names has moved on meanwhile is
  what `Transact` is proved against. The walk over the countdowns of a step stays in `Reached`, the sound worlds
  that are later than the one the step began in.
* `GoodsNeverCross`: `Spec => GoodsStayHome`, jobs and clients together, if every container has an owner and only owners
  act; an unowned container is open to all, so both are needed. `HomeInv` adds to `CoreInv` that a job's ends belong to
  the faction that gave it (`Homely`): a pickup or dropoff tests only the job and the hauler, never the source or the
  destination again. What a faction has is a sum of sums, which a step changes in at most two cells (`WorthWritten`).

`ServerProofs`, sessions (any clients, operations, bounds, timeout, both servers; `SessionAssumption` types the
constants and keeps `NoClient` apart):

* `SessionTypes`: `Spec => []TypeOK`, inductive by itself.
* `SessionImplementsStream`: `Spec => ImplementsCommandStream`. The refinement needs to know that what is
  drained is new and in order, which no single table says. `StreamInv` does: the commands applied are
  below those buffered, those buffered are not above the session's last number, both grow along their
  sequences and come from the session's client, and ids not yet given have no owner.
* `SessionHostsPromote`: `Spec => HostsPromote`. The simulation only tests that the sender has *some* role;
  what makes that enough is `RoleInv`: between two ticks a role is only ever lost, so a buffered
  promotion's sender is the host still, or a player whose directive is dropped.
* `SessionNeverMuted`: `Spec => []NeverMuted`. `MuteInv`: a client is ahead of every command it ever sent,
  hence of the last number of every session it opened, whichever of them an old answer puts it back into.

`ServerProofs`, regions (any regions, parties, initial map, interval of the warm regions and limits):

* `EntitiesKeepOneHome`: `RegionsSpec => []RegionsAgree`. `MapInv` adds that nothing names an entity that
  has not been made, so that a new number is in no list.
* `MailIsRead`: `RegionsSpec => []NoMessageGoesStale`. The property is not inductive: that a message is young enough
  does not say it will be read in time. `ReadAtInterval` does: whatever waits was sent, or its region came
  on the map, after the last multiple of the interval at which every region with mail runs.

`DocksProofs`, placement (any kinds, shapes of at least half a metre, heights, positions, rotations, reach):

* `SitesStayApart`: `PlacementSpec => []PlacementAgrees`. The server compares the cells of a new site with the
  reserved ones, and the boxes of structures at its height; the preview compares boxes alone. The proof shows
  that boxes which overlap share a cell, because cells are rounded outwards (`StraddlesCell`), and that
  `GroundInv` is kept: every standing structure holds all of its cells (`CellsHeld`), no other's
  (`CellsApart`), and the wall grid marks just the walls (`WallsMarked`).

`ServerProofs`, threads (any pool, jobs, and set of jobs that panic; the safety half of `StopIsClean`):

* `StopLosesNoJob`: `ThreadsSpec => []JobsDone`. `PoolInv`: a job handed in is in exactly one of the queue,
  a worker's hands and the finished ones as long as a worker is left (`Apart`, `Kept`); a worker ends only
  on a queue that is empty and will stay so (`LastLook`); the owner is gone only after the workers (`Joined`).

`BaseProofs`, structures (any structures, kinds, places on a line, costs, blows and patches):

* `RegistersStayInAgreement`: `StructuresSpec => []RegistersAgree`. `RegisterInv` goes through the
  registers once by structure (`OneStructure`: its depot, facility and node are those of its state) and
  once by place (`OneSite`: the cells are reserved for what stands there, and the wall grid knows it if it is
  a wall). A tick removes several structures at once; `Leaving` says what the registers are after a set has left.

`BaseProofs`, research (any finite set of technologies, laboratories, prices, durations and limits):

* `ResearchInOrder`: `ResearchSpec => []PrerequisitesFirst`. The queue accepts a technology only when its
  prerequisites are complete, and completion is never taken back; with the types of the queue this is inductive under
  reordering, cancelling and grants.
* `ResearchEarnedInOrder`: `ResearchSpec => []EarnedInOrder`, the above and a tree without cycles: what the
  loader's sort goes through in order (`SortedBy`) is well founded.
* `ResearchLocksOwned`: `ResearchSpec => []LocksHaveOwners`. `LockInv`: what is held under a number in a
  laboratory is the price of the job with that number, which is hosted there (`PricesHeld`); all that is held,
  with what cancelled jobs left behind, fits in the hopper (`LocksFit`); numbers are not reused (`Numbered`).
* `ResearchSpendsOnce`: `ResearchSpec => SpentOnResearch`, the action property, under the same invariant.

`MatchProofs`, robots and battle (any robots, players, squads, chassis, weapons, turrets):

* `EscortsStayKept`: `BattleSpec => []EscortsKept`. The inductive `RosterInv` adds the types and the shape of squads; what a tick
  does to bodies enters only as who is left after it, since the clean-up takes the dead from every roster.
* `SquadsRegroupWhole`: `BattleSpec => RegroupIsWhole`. Needs that no order a player can give is a regroup
  (`RobotsAssumption`; `order_for_command` makes none), and that authority over a squad is tested for all members before
  the first is ordered.
* `RostersStayInAgreement`: `BattleSpec => []RostersAgree`, and `RegistryStaysInAgreement`: the same of
  `RobotsSpec`. `RegistryInv` adds `SquadInv` (members listed once, of the squad's faction, the leader one of them) and
  `BodyInv` (whoever is not destroyed has health). A tick is four walks in turn: over the robots for their moves and their
  attacks, over the turrets, over the projectiles; each is unfolded by induction on its length and
  shown to keep bodies as they may be (`Good`).
* `WeaponsAlwaysRecover`: `BattleSpec => []WeaponsRecover`. `ArmsInv` says the same of the turrets of structures and of the
  robots' weapons through every one of those walks, a shot spawned by a robot or a turret being the only
  thing that unloads.

`MatchProofs`, knowledge and anti-cheat (any factions, maps, sensors, allegiances, weights and thresholds; over
`MatchSpec`, which the lemma `MatchImplementsKnowledge` maps to `KnowledgeSpec`: packets and verdicts are stutters of
what is seen):

* `GhostsAgree`: `MatchSpec => []GhostsMatchSight`. `KnowledgeInv` adds that ghosts are from past ticks and
  nobody has ghosts of his own, which is what lets a step tell the old from the refreshed.
* `FactionsForgetNothing`: `MatchSpec => NothingForgotten`.
* `StandingsStayConsistent`: `MatchSpec => []StandingConsistent`. `StandingInv`: the level of a session no
  operator has set is the one its score earns (`Earned`), kept through a list of violations taken one by
  one (`ViolationsOf`), and a banned session that has not ended waits in the kicks.

`ProductionProofs` (any facilities and order of them, recipes, deposits, yields, durations, speeds, rooms and spans):

* `InputsStayLocked`: `ProductionSpec => []InputsLocked`. `ProductionInv`: every facility has what its craft has
  locked (`Provided`) and a drill knows its deposit and is short of a whole interval (`Digs`). A tick is unfolded
  over the sequence of facilities (`TurnsOf`), and inside a facility over the ticks of a span (`TicksOf`).
* `WorkIsKept`: `ProductionSpec => ProgressKept`, half of `NothingSpoilt`. `Onward` is what one tick may do to a
  craft; it is transitive, which carries it through a span.
* `FastForwardIsExact`: `ProductionSpec => []FastForwardMatchesTicks`. The code moves a distant drill over a span by one
  division. `Batches(w, k, r)` is the drill after `k` batches with `r` left over; ticking goes from one such
  state to the next, and the division gives the last, whether the deposit lasts or runs out on the way.

What a reader should know of the assumptions. Numbers of entities, structures, technologies and laboratories are not
zero, and squads are numbered from one, as the code's id types have it; `"none"` is no faction; a chassis has health and
at most one weapon, and a magazine holds at least a shot, as all of the catalogue do; containers, technologies, sites,
robots and resources are finitely many; facilities come in a sequence, the order of their ids. Nothing bounds how many of each.

**Induction.** The library's induction theorems take a predicate as a parameter, which the provers cannot
instantiate. `Induction` has them for sets instead: a set of naturals with 0 and the successor of each of its members is all
of them, from the least number the library's well-foundedness gives (`LeastNatural`, `NaturalInduction`); the
same for subsets of a finite set (`FiniteInduction`) and for sequences, one longer at a time (`AppendInduction`); and from these
what a fold is (`FoldExists`) and how a sum changes, grows, adds and scales (`SumChanges`, `SumGrows`, `SumsAdd`, `SumScales`). A recursive function in a model is unfolded by naming it, with an
existence lemma proved by induction on its length (`StepwiseExists`). Folds written with `FoldLeft` or `SelectSeq` of the library,
whose definitions are recursive in operators, cannot be unfolded this way.

Only model-checked: the worth in `NothingSpoilt`, a sum over what machines change in many places at once; power grids (`PowerShared`), found by a recursive walk; hit points
(`ShotsHarmNumbersOfFoes`); the arithmetic of movement and drawing; the tables of the codec (`PacketsSurvive`); and all liveness
(`QueueDrains`, `CraftsEnd`, `StopIsClean`), which is out of this prover's reach.

## 8. Not modelled

* The route graph (`logistics.rs:227`): a shortest path over a graph that never changes, and a radius test. No
  state of the simulation depends on them.
* Path finding and steering around obstacles (`navigation.rs`), continuous ballistics, floating-point geometry: only
  their discrete decisions are kept (arrived or not, hit or not, in sight or not).
* The statistics of the anti-cheat detectors over long windows; the retained log and its export.
* The entities a client copies from snapshots; events and the journal, which nothing in the simulation
  reads back; metrics of all kinds.
* Camera, selection, overlays, HUD; the catalogue and identifiers of `game-types`; the dedicated server's
  start-up and supervisor loop, which only waits; benchmarks and test harness.
* In modelled parts: `rotate_counter_clockwise`, `cycle_wall_tier` and the unused `to_cell` of
  `placement.rs`; batches of walls for drawing; commands the dispatcher always refuses; pongs and send
  errors.

## 9. What remains

The plan of the first part is carried out: containers, jobs, docks, production, sessions; then research,
structures and power, robots and combat, knowledge, anti-cheat, regions; then codec, wire, movement,
prediction, interpolation, placement and threads; proofs for most of them. Worth doing next, most
important first:

1. The entities of a client, with full and delta snapshots that arrive late, and what the game draws from a stale one.
2. The worth in `NothingSpoilt` as a theorem, with the sums of `Induction`.
3. `PowerShared` as a theorem, once the grids of `Power` are defined by reachability instead of a walk.
4. Logistics, production and structures in one instance: a depot that is dismantled while a hauler is under way to it.
