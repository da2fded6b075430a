----------------------------- MODULE Knowledge -----------------------------
(***************************************************************************)
(* What each faction sees and remembers of the world                       *)
(* (src/crates/sim-core/src/knowledge.rs): the fog grid, the enemies in     *)
(* sight, the ghosts of structures seen before, and the events that tell    *)
(* of sightings.  Robots, avatars and structures come and go by actions     *)
(* that stand for the subsystems that own them; the knowledge step runs     *)
(* after them, once a tick.                                                 *)
(***************************************************************************)
EXTENDS Integers, FiniteSets

CONSTANTS
  Faction,         \* the factions, the null faction aside
  Place,           \* world positions, pairs <<x, z>>
  Unit,            \* entity ids of robots
  Commander,          \* entity ids of the avatars of players
  Structure,       \* structure ids: the same numbers as entity ids
  Neutral,         \* the null faction
  Allegiance,      \* the faction of an entity, or Neutral
  Owner,           \* the faction of a structure, or Neutral
  StandsAt,            \* where a structure stands
  CellSize, Width, \* the grid: the side of a cell, the cells in a row
  UnitRadius, AvatarRadius, StructureRadius,  \* how far each sees
  TopHealth        \* the health of a new structure

NoGhost == [hp |-> -1, tick |-> -1]
Nowhere == <<-1, -1>>   \* where the dead and the absent are
Gone == -1              \* a structure not built yet, or removed
Destroyed == -2         \* one that is still on record
Building == 0           \* a structure that is not in operation

ASSUME KnowledgeAssumption ==
  /\ CellSize \in Nat \ {0} /\ Width \in Nat \ {0} /\ TopHealth \in Nat \ {0}
  /\ \A r \in {UnitRadius, AvatarRadius, StructureRadius} : r \in Nat

VARIABLES
  unit,       \* living robots: where they are
  commander,     \* players in the game: where they are
  standing,   \* structures: Gone, Destroyed, Building or their health
  dark,       \* structures that lack the power they demand
  fog,        \* fog[f][c]: "Unexplored", "Explored" or "Visible"
  visible,    \* visible[f]: the ids of enemies in sight
  previous,   \* the same, a tick ago
  ghost,      \* ghost[f][s]: what f remembers of the structure s
  journal,    \* the sightings the last step recorded
  settled,    \* no more has happened since the last step
  now         \* the tick, kept small: steps so far, up to the bound

worldvars == <<unit, commander, standing, dark>>
knowledgevars == <<fog, visible, previous, ghost, journal, now>>

----------------------------------------------------------------------------
(* The grid *)

Cell == (0 .. Width - 1) \X (0 .. Width - 1)

CellOf(p) == <<p[1] \div CellSize, p[2] \div CellSize>>

OnGrid(p) == p[1] >= 0 /\ p[2] >= 0 /\ CellOf(p) \in Cell

(* Twice the centre of a cell and twice a radius, to stay with integers. *)
Covers(centre, radius, c) ==
  radius > 0 /\ (2 * c[1] * CellSize + CellSize - 2 * centre[1])^2
    + (2 * c[2] * CellSize + CellSize - 2 * centre[2])^2 <= (2 * radius)^2

BeginTick(cells) ==
  [c \in Cell |-> IF cells[c] = "Visible" THEN "Explored" ELSE cells[c]]

StampSensors(cells, sensors) ==
  [c \in Cell |-> IF \E s \in sensors : Covers(s.at, s.radius, c) THEN "Visible" ELSE cells[c]]

PositionState(cells, p) == IF OnGrid(p) THEN cells[CellOf(p)] ELSE "Unexplored"

----------------------------------------------------------------------------
(* Sensors *)

Others(f, ids, of) == {i \in ids : of[i] # f}

Present(ids, at) == {i \in ids : at[i] # Nowhere}

Standing == {s \in Structure : standing[s] >= Building}

EmitsSensorCoverage(s) == standing[s] > Building /\ s \notin dark

Sensors(f) ==
  {[at |-> unit[u], radius |-> UnitRadius] : u \in {u \in Present(Unit, unit) : Allegiance[u] = f}}
    \cup {[at |-> StandsAt[s], radius |-> StructureRadius] :
            s \in {s \in Structure : Owner[s] = f /\ EmitsSensorCoverage(s)}}
    \cup {[at |-> commander[a], radius |-> AvatarRadius] :
            a \in {a \in Present(Commander, commander) : Allegiance[a] = f}}

InSensor(sensors, p) ==
  \E s \in sensors : (p[1] - s.at[1])^2 + (p[2] - s.at[2])^2 <= s.radius^2

(* A position is in sight in a circle, or in a cell whose centre is. *)
InSight(sensors, cells, p) == InSensor(sensors, p) \/ PositionState(cells, p) = "Visible"

(* The robots, avatars and structures of others that f sees. *)
SeenEntities(f, sensors, cells) ==
  {u \in Others(f, Present(Unit, unit), Allegiance) : InSight(sensors, cells, unit[u])}
    \cup {a \in Others(f, Present(Commander, commander), Allegiance) : InSight(sensors, cells, commander[a])}

SeenStructures(f, sensors, cells) ==
  {s \in Others(f, Standing, Owner) : InSight(sensors, cells, StandsAt[s])}

LastSeen(s) == [hp |-> standing[s], tick |-> now + 1]

(* Fault: the ghost of a structure fades when its faction looks away. *)
GhostsFading(f, sensors, cells, seen) ==
  [s \in Structure |-> IF s \in seen THEN LastSeen(s) ELSE NoGhost]

(* Fault: only a structure in sight refreshes its ghost, which then stays. *)
GhostsKept(f, sensors, cells, seen) ==
  [s \in Structure |-> IF s \in seen THEN LastSeen(s) ELSE ghost[f][s]]

GhostsAfter(f, sensors, cells, seen) ==
  [s \in Structure |->
     IF s \in seen THEN LastSeen(s)
     ELSE IF s \notin Standing /\ InSight(sensors, cells, StandsAt[s]) THEN NoGhost
     ELSE ghost[f][s]]

(* The two may share an id: each is then spotted, and only both are lost. *)
Sightings(f, entities, structures) ==
  {[what |-> "Spotted", by |-> f, id |-> e, of |-> "entity"] : e \in entities \ visible[f]}
    \cup {[what |-> "Spotted", by |-> f, id |-> s, of |-> "structure"] : s \in structures \ visible[f]}

Losses(f, seen) == {[what |-> "Lost", by |-> f, id |-> i, of |-> "any"] : i \in visible[f] \ seen}

KnowledgeStep ==
  /\ \E cells \in {[f \in Faction |-> StampSensors(BeginTick(fog[f]), Sensors(f))]} :
       \E entities \in {[f \in Faction |-> SeenEntities(f, Sensors(f), cells[f])]},
          structures \in {[f \in Faction |-> SeenStructures(f, Sensors(f), cells[f])]} :
         /\ fog' = cells
         /\ visible' = [f \in Faction |-> entities[f] \cup structures[f]]
         /\ ghost' = [f \in Faction |-> GhostsAfter(f, Sensors(f), cells[f], structures[f])]
         /\ journal' = UNION {Sightings(f, entities[f], structures[f])
                                 \cup Losses(f, entities[f] \cup structures[f]) : f \in Faction}
  /\ previous' = visible
  /\ now' = now + 1
  /\ settled' = TRUE
  /\ UNCHANGED worldvars

----------------------------------------------------------------------------
(* What a faction may act on *)

FactionKnowsStructure(f, s) ==
  Owner[s] \in {f, Neutral} \/ ghost[f][s] # NoGhost \/ s \in visible[f]

FactionKnowsEntity(f, e) ==
  IF e \in Unit \cup Commander THEN Allegiance[e] \in {f, Neutral} \/ e \in visible[f]
  ELSE e \in Structure /\ FactionKnowsStructure(f, e)

----------------------------------------------------------------------------
(* The world around *)

Moves ==
  \/ \E u \in Present(Unit, unit), p \in Place : unit' = [unit EXCEPT ![u] = p] /\ UNCHANGED commander
  \/ \E a \in Commander, p \in Place : commander' = [commander EXCEPT ![a] = p] /\ UNCHANGED unit

Dies == \E u \in Present(Unit, unit) : unit' = [unit EXCEPT ![u] = Nowhere]

(* A site is planned, finished, hit, repaired, taken down or razed. *)
Changes(s) ==
  \E state \in Destroyed .. TopHealth :
    /\ standing[s] = Gone => state = Building
    /\ standing[s] = Destroyed => state = Gone
    /\ standing' = [standing EXCEPT ![s] = state]

PowerFails(s) == dark' = (dark \ {s}) \cup ({s} \ dark)

WorldMoves ==
  /\ \/ Moves /\ UNCHANGED <<standing, dark>>
     \/ Dies /\ UNCHANGED <<commander, standing, dark>>
     \/ \E s \in Structure : Changes(s) /\ UNCHANGED <<unit, commander, dark>>
     \/ \E s \in Structure : PowerFails(s) /\ UNCHANGED <<unit, commander, standing>>
  /\ settled' = FALSE
  /\ UNCHANGED knowledgevars

KnowledgeInit ==
  /\ unit \in [Unit -> Place]
  /\ commander = [a \in Commander |-> Nowhere]
  /\ standing = [s \in Structure |-> Gone]
  /\ dark = {}
  /\ fog = [f \in Faction |-> [c \in Cell |-> "Unexplored"]]
  /\ visible = [f \in Faction |-> {}]
  /\ previous = visible
  /\ ghost = [f \in Faction |-> [s \in Structure |-> NoGhost]]
  /\ journal = {}
  /\ settled = FALSE
  /\ now = 0

KnowledgeNext == KnowledgeStep \/ WorldMoves

KnowledgeSpec == KnowledgeInit /\ [][KnowledgeNext]_<<worldvars, knowledgevars, settled>>
----------------------------------------------------------------------------
(* Right after a step, memory and sight agree: a ghost whose site is in    *)
(* sight is of a structure that stands, with the health it has, and every  *)
(* enemy structure in sight has left one; one out of sight is older        *)
(* (knowledge.rs:491-553).  Circles and grid cells are two tests of sight  *)
(* that must not disagree about which ghosts to refresh and which to purge. *)
GhostsMatchSight ==
  settled =>
    \A f \in Faction, s \in Structure :
      IF InSight(Sensors(f), fog[f], StandsAt[s]) /\ s \in Standing /\ Owner[s] # f
      THEN ghost[f][s] = [hp |-> standing[s], tick |-> now]
      ELSE /\ ghost[f][s].tick < now
           /\ InSight(Sensors(f), fog[f], StandsAt[s]) \/ Owner[s] = f => ghost[f][s] = NoGhost

(* A faction forgets nothing it has not been shown to be wrong: a cell once *)
(* explored stays so, and a ghost goes only when its site is seen and the   *)
(* structure is not there (knowledge.rs:138-144 and 532-553).               *)
NothingForgotten ==
  [][\A f \in Faction :
       /\ \A c \in Cell : fog[f][c] # "Unexplored" => fog'[f][c] # "Unexplored"
       /\ \A s \in Structure :
            ghost[f][s] # NoGhost /\ ghost'[f][s] = NoGhost =>
              s \notin Standing /\ InSight(Sensors(f), fog'[f], StandsAt[s])
    ]_knowledgevars
=============================================================================
