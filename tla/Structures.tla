----------------------------- MODULE Structures -----------------------------
(***************************************************************************)
(* The structure registry: crates/sim-core/src/structure.rs, with the      *)
(* power network it drives (Power) and the depots it reports to the        *)
(* logistics manager.  Five registers say something of one building: its   *)
(* state, the cells reserved for it, the wall grid, its power node and its *)
(* production facility; every action here writes several of them.          *)
(*                                                                         *)
(* Abstracted: sites are disjoint places, each the footprint of one        *)
(* structure; one material builds and repairs everything; the arithmetic   *)
(* of reach and bounds is left out.  Which kinds an id may become is a     *)
(* constant, so that an id stands for one entry of a build list.           *)
(***************************************************************************)
EXTENDS Power, FiniteSets, Relation

CONSTANTS
  Plan,         \* Plan[i]: the <<kind, faction, place>> structure i may be
  BuildCost,         \* BuildCost[k]: units of material
  BuildTicks, DismantleTicks,
  MaxHealth,    \* MaxHealth[k]: hit points
  WallArmour, Blow, RepairPerUnit,
  InitialStock, \* of each faction
  Patches         \* the patches research publishes: makes, saves and repairs

ASSUME StructuresAssumption ==
  /\ BuildTicks \in Nat \ {0} /\ DismantleTicks \in Nat /\ MaxHealth \in [Kind -> Nat \ {0}]
  /\ \A p \in Patches : RepairPerUnit * p.repairs >= 1000

VARIABLES
  structure,  \* by id
  reserved,   \* by place, the structure its cells are reserved for
  wall,       \* by place, the faction of the wall the compact grid knows
  node,       \* by id, its node of the power network
  grids,      \* the subnets of the last rebuild
  dirty,      \* the topology has to be rebuilt
  status,     \* by id, the entry of structure_power_status
  depot,      \* by id, what the logistics manager knows: None, On or Off
  facility,   \* ids with a production facility
  stock,      \* by faction, units of material
  patch,      \* by faction, the patch in force
  nextId,     \* the id the next structure gets
  finished    \* history: ids whose construction was completed

structVars == <<structure, reserved, wall, node, grids, dirty, status, depot,
                facility, stock, patch, nextId, finished>>

NoStructure == [state |-> "None"]
Planned(kind, faction, place) ==
  [kind |-> kind, faction |-> faction, place |-> place,
   state |-> "Planned", left |-> 0, hp |-> 0, power |-> "NotRequired"]

Exists(i) == structure[i] # NoStructure
Is(i, states) == structure[i].state \in states
HasFacility(k) == k \in {"MiningDrill", "Refinery", "Fabricator"}
Neutral == [makes |-> 1000, saves |-> 1000, repairs |-> 1000]

StructuresInit ==
  /\ structure = [i \in Structure |-> NoStructure]
  /\ reserved = [p \in Place |-> 0]
  /\ wall = [p \in Place |-> "none"]
  /\ node = [i \in Structure |-> NoNode]
  /\ grids = {}
  /\ dirty = TRUE
  /\ status = [i \in Structure |-> "None"]
  /\ depot = [i \in Structure |-> "None"]
  /\ facility = {}
  /\ stock = [f \in Faction |-> InitialStock]
  /\ patch = [f \in Faction |-> Neutral]
  /\ nextId = 1
  /\ finished = {}

-----------------------------------------------------------------------------
(* Commands.                                                               *)

(* A site is taken by its cells, or by a structure still standing on it.   *)
Free(p) ==
  /\ reserved[p] = 0
  /\ \A i \in Structure : Exists(i) /\ ~Is(i, {"Destroyed"}) => structure[i].place # p

RequestBuild(kind, faction, place) ==
  LET i == nextId
  IN /\ i \in Structure /\ <<kind, faction, place>> \in Plan[i]
     /\ stock[faction] >= BuildCost[kind]
     /\ Free(place)
     /\ nextId' = nextId + 1
     /\ stock' = [stock EXCEPT ![faction] = @ - BuildCost[kind]]
     /\ reserved' = [reserved EXCEPT ![place] = i]
     /\ structure' = [structure EXCEPT ![i] = Planned(kind, faction, place)]
     /\ status' = IF Passive(kind) THEN [status EXCEPT ![i] = "NotRequired"] ELSE status
     /\ node' = IF Passive(kind) THEN node
                ELSE [node EXCEPT ![i] = PowerNode(kind, faction, place)]
     /\ dirty' = (dirty \/ ~Passive(kind))
     /\ wall' = IF kind = "Wall" THEN [wall EXCEPT ![place] = faction] ELSE wall
     /\ facility' = IF HasFacility(kind) THEN facility \cup {i} ELSE facility
     /\ depot' = IF kind = "Depot" THEN [depot EXCEPT ![i] = "On"] ELSE depot
     /\ UNCHANGED <<grids, patch, finished>>

StartConstruction(i) ==
  /\ Is(i, {"Planned"})
  /\ structure' = [structure EXCEPT ![i] = [structure[i] EXCEPT !.state = "UnderConstruction", !.left = BuildTicks]]
  /\ UNCHANGED <<reserved, wall, node, grids, dirty, status, depot, facility,
                 stock, patch, nextId, finished>>

(* Switching the node of a structure on, which only matters if it was off. *)
SwitchedOn(n, ids) ==
  [j \in Structure |-> IF j \in ids /\ IsNode(n, j) THEN [n[j] EXCEPT !.on = TRUE] ELSE n[j]]

(* Maps place structures that are finished at once: the call follows the   *)
(* placement, and looks at nothing.                                        *)
CompleteConstruction(i) ==
  /\ Is(i, {"Planned"})
  /\ structure' = [structure EXCEPT ![i] = [structure[i] EXCEPT !.state = "Constructed", !.hp = MaxHealth[structure[i].kind]]]
  /\ node' = SwitchedOn(node, {i})
  /\ dirty' = (dirty \/ node' # node)
  /\ finished' = finished \cup {i}
  /\ UNCHANGED <<reserved, wall, grids, status, depot, facility, stock, patch, nextId>>

(* Everything that is released with a structure: its cells, its wall and   *)
(* its node.  Its facility goes too when it is removed, and not when it is *)
(* destroyed; a depot stays known to the logistics manager in both cases.  *)
Released(ids) ==
  /\ reserved' = [p \in Place |-> IF reserved[p] \in ids THEN 0 ELSE reserved[p]]
  /\ wall' = [p \in Place |->
                IF \E i \in ids : structure[i].kind = "Wall" /\ structure[i].place = p
                THEN "none" ELSE wall[p]]

NodesWithout(n, ids) == [i \in Structure |-> IF i \in ids THEN NoNode ELSE n[i]]
StatusWithout(ids) == [i \in Structure |-> IF i \in ids THEN "None" ELSE status[i]]
HadNode(n, ids) == \E i \in ids : IsNode(n, i)

(* Fault: a cancelled plan keeps its node in the network.                  *)
RequestDismantleKeepsNode(i, faction) ==
  /\ Exists(i) /\ structure[i].faction = faction
  /\ ~Is(i, {"Destroyed", "Dismantling"})
  /\ IF Is(i, {"Planned"})
     THEN /\ Released({i})
          /\ structure' = [structure EXCEPT ![i] = NoStructure]
          /\ status' = StatusWithout({i})
          /\ UNCHANGED <<node, dirty>>
          /\ facility' = facility \ {i}
     ELSE /\ structure' = [structure EXCEPT ![i] = [structure[i] EXCEPT !.state = "Dismantling",
                                                 !.left = DismantleTicks, !.hp = 0]]
          /\ UNCHANGED <<reserved, wall, node, status, dirty, facility>>
  /\ UNCHANGED <<grids, depot, stock, patch, nextId, finished>>

(* The owner takes a structure down: a plan at once, the rest in time.     *)
RequestDismantle(i, faction) ==
  /\ Exists(i) /\ structure[i].faction = faction
  /\ ~Is(i, {"Destroyed", "Dismantling"})
  /\ IF Is(i, {"Planned"})
     THEN /\ Released({i})
          /\ structure' = [structure EXCEPT ![i] = NoStructure]
          /\ node' = NodesWithout(node, {i})
          /\ status' = StatusWithout({i})
          /\ dirty' = (dirty \/ HadNode(node, {i}))
          /\ facility' = facility \ {i}
     ELSE /\ structure' = [structure EXCEPT ![i] = [structure[i] EXCEPT !.state = "Dismantling",
                                                 !.left = DismantleTicks, !.hp = 0]]
          /\ UNCHANGED <<reserved, wall, node, status, dirty, facility>>
  /\ UNCHANGED <<grids, depot, stock, patch, nextId, finished>>

(* The hit points damage is taken from: a structure that is not finished,  *)
(* or no longer, counts for half of its own, and a plan for one.           *)
HitPoints(s) ==
  CASE s.state = "Constructed" -> s.hp
    [] s.state \in {"UnderConstruction", "Dismantling"} -> MaxHealth[s.kind] \div 2
    [] s.state = "Planned" -> 1

Damage(kind, blow) == IF kind = "Wall" THEN EffectiveDamage(WallArmour, blow) ELSE blow.raw

(* A blow that does not destroy leaves a constructed structure, whatever   *)
(* it was before; its power node is left as it was.                        *)
ApplyDamage(i, blow) ==
  LET s == structure[i]
      hp == AfterDamage(HitPoints(s), Damage(s.kind, blow))
  IN /\ Exists(i) /\ ~Is(i, {"Destroyed"})
     /\ IF hp = 0
        THEN /\ Released({i})
             /\ structure' = [structure EXCEPT ![i] = [s EXCEPT !.state = "Destroyed", !.hp = 0, !.left = 0]]
             /\ node' = NodesWithout(node, {i})
             /\ status' = StatusWithout({i})
             /\ dirty' = (dirty \/ HadNode(node, {i}))
        ELSE /\ structure' = [structure EXCEPT ![i] = [s EXCEPT !.state = "Constructed", !.hp = hp, !.left = 0]]
             /\ UNCHANGED <<reserved, wall, node, status, dirty>>
     /\ UNCHANGED <<grids, depot, facility, stock, patch, nextId, finished>>

RepairWorth(f) == (RepairPerUnit * patch[f].repairs) \div 1000

(* Repair is paid from a container of the faction that owns the structure. *)
RequestRepair(i, faction) ==
  LET full == MaxHealth[structure[i].kind]
      missing == full - structure[i].hp
      units == AtMost(Ceiling(missing, RepairWorth(faction)), stock[faction])
  IN /\ Is(i, {"Constructed"}) /\ structure[i].faction = faction
     /\ missing > 0 /\ units > 0
     /\ structure' = [structure EXCEPT ![i].hp = AtMost(@ + units * RepairWorth(faction), full)]
     /\ stock' = [stock EXCEPT ![faction] = @ - units]
     /\ UNCHANGED <<reserved, wall, node, grids, dirty, status, depot, facility,
                    patch, nextId, finished>>

(* Research publishes a patch; the power network is told at once.          *)
InstallModifierPatch(f, p) ==
  /\ p \in Patches /\ p # patch[f]
  /\ patch' = [patch EXCEPT ![f] = p]
  /\ UNCHANGED <<structure, reserved, wall, node, grids, dirty, status, depot,
                 facility, stock, nextId, finished>>

-----------------------------------------------------------------------------
(* The tick: construction and dismantling advance, what is dismantled is   *)
(* removed, the network is solved, and its answer reaches the structures   *)
(* and, for every depot, the logistics manager.                            *)

Aged(s) ==
  CASE s.state = "UnderConstruction" /\ s.left <= 1 ->
         [s EXCEPT !.state = "Constructed", !.left = 0, !.hp = MaxHealth[s.kind]]
    [] s.state = "UnderConstruction" /\ s.left > 1 -> [s EXCEPT !.left = @ - 1]
    [] s.state = "Dismantling" -> [s EXCEPT !.left = AtLeast(@ - 1, 0)]
    [] OTHER -> s

Completing == {i \in Structure : Is(i, {"UnderConstruction"}) /\ structure[i].left <= 1}
Dismantled == {i \in Structure : Is(i, {"Dismantling"}) /\ structure[i].left <= 1}

TickNodes == NodesWithout(SwitchedOn(node, Completing), Dismantled)

(* Fault: what happens in a tick does not make the topology dirty.         *)
TickGridsStale == IF dirty THEN Topology(TickNodes) ELSE grids
TickGrids == IF dirty \/ TickNodes # node THEN Topology(TickNodes) ELSE grids

StructuresTick ==
  \E nodes \in {TickNodes} : \E subnets \in {TickGrids} :
  \E answer \in {StatusAfterTick(nodes, StatusWithout(Dismantled), subnets, patch)} :
  LET Told(i) == GetPowerStatus(nodes, answer, i)
  IN /\ dirty' = FALSE
     /\ UNCHANGED <<stock, patch, nextId>>
     /\ Released(Dismantled)
     /\ grids' = subnets
     /\ node' = NodesAfterTick(nodes, subnets, patch)
     /\ status' = answer
     /\ structure' = [i \in Structure |->
                        IF i \in Dismantled \/ ~Exists(i) THEN NoStructure
                        ELSE [Aged(structure[i]) EXCEPT !.power = Told(i)]]
     /\ depot' = [i \in Structure |->
                    IF Exists(i) /\ i \notin Dismantled /\ structure[i].kind = "Depot"
                    THEN IF RunsOn(Told(i)) THEN "On" ELSE "Off"
                    ELSE depot[i]]
     /\ facility' = facility \ Dismantled
     /\ finished' = finished \cup Completing

StructureCommands ==
  \/ \E f \in Faction, k \in Kind, p \in Place : RequestBuild(k, f, p)
  \/ \E i \in Structure, f \in Faction : RequestDismantle(i, f) \/ RequestRepair(i, f)

StructuresNext ==
  \/ StructureCommands
  \/ \E i \in Structure : StartConstruction(i) \/ CompleteConstruction(i)
  \/ \E i \in Structure, b \in Blow : ApplyDamage(i, b)
  \/ \E f \in Faction, p \in Patches : InstallModifierPatch(f, p)
  \/ StructuresTick

StructuresSpec == StructuresInit /\ [][StructuresNext]_structVars

-----------------------------------------------------------------------------
Standing(i) == Exists(i) /\ ~Is(i, {"Destroyed"})
StandingAt(p, i) == Standing(i) /\ structure[i].place = p

(* The registers tell one story: cells are reserved for the structure that *)
(* stands on them and for no other, the wall grid knows exactly the walls  *)
(* that stand, a node is in the network while its structure stands, and no *)
(* structure draws or feeds power that was never finished.  (Build,        *)
(* dismantle, damage and tick each write several registers.)               *)
RegistersAgree ==
  /\ \A p \in Place, i \in Structure : reserved[p] = i <=> StandingAt(p, i)
  /\ \A p \in Place, f \in Faction :
       wall[p] = f <=> \E i \in Structure : /\ StandingAt(p, i)
                                            /\ structure[i].kind = "Wall" /\ structure[i].faction = f
  /\ \A i \in Structure :
       /\ IsNode(node, i) <=> Standing(i) /\ ~Passive(structure[i].kind)
       /\ IsNode(node, i) /\ node[i].on => i \in finished
       /\ i \in facility <=> Exists(i) /\ HasFacility(structure[i].kind)

On(n) == {i \in Structure : IsNode(n, i) /\ n[i].on}

(* Reference definition: who shares power with whom.                       *)
SharesPower(n, on) ==
  ReflexiveTransitiveClosure(
    [i, j \in on |-> n[i].faction = n[j].faction /\ CanConnect(n, i, j)], on)
Sharers(n) ==
  UNION {{{j \in On(n) : joined[i, j]} : i \in On(n)} : joined \in {SharesPower(n, On(n))}}

Rank(i) == CASE SpecOf(node, i).priority = "High" -> 3
             [] SpecOf(node, i).priority = "Normal" -> 2
             [] SpecOf(node, i).priority = "Low" -> 1

Drained(i) == node[i].stored - node'[i].stored
IsBattery(i) == SpecOf(node, i).holds > 0

(* Nobody is served before somebody more important in the same grid.       *)
PrioritiesHold(grid) ==
  \A i, j \in grid : /\ Needs(node, i, patch) > 0 /\ Needs(node, j, patch) > 0
                     /\ Rank(i) > Rank(j) /\ status'[i] # "Powered"
                     => status'[j] = "Unpowered"

(* Whoever is fully served is served by what was made or drained there;    *)
(* with two batteries the code promises more than they give, see Power.    *)
EnergyAccounted(grid) ==
  LET served == {i \in grid : Needs(node, i, patch) > 0 /\ status'[i] = "Powered"}
      made == MapThenSumSet(LAMBDA i : PatchedGeneration(SpecOf(node, i).makes, patch[node[i].faction]), grid)
      drained == MapThenSumSet(Drained, grid)
      need == MapThenSumSet(LAMBDA i : Needs(node, i, patch), served)
  IN Cardinality({i \in grid : IsBattery(i)}) <= 1 => need <= made + drained

(* In every tick each grid is served by priority, with energy that is      *)
(* accounted for, batteries hold what fits, and a structure that stands    *)
(* alone without a source gets nothing.  Grids are those of the nodes in   *)
(* force now, however stale the topology the network keeps may be.         *)
PowerShared ==
  [][~dirty' /\ StructuresTick =>
       \A grid \in Sharers(node') :
         /\ PrioritiesHold(grid)
         /\ EnergyAccounted(grid)
         /\ \A i \in grid :
              /\ node'[i].stored \in 0 .. SpecOf(node', i).holds
              /\ Needs(node, i, patch) > 0 /\ status'[i] # "Unpowered" =>
                   \E j \in grid : SpecOf(node', j).makes > 0 \/ node[j].stored > 0]_structVars
=============================================================================
