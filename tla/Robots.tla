------------------------------- MODULE Robots -------------------------------
(***************************************************************************)
(* The robot registry: crates/sim-core/src/robot.rs.  Robots, the players  *)
(* they escort, the squads they form, their orders, and what a tick makes  *)
(* of all that.  Robots and avatars are entities, numbered together.       *)
(*                                                                         *)
(* Abstracted: a roster of escorts is a set, for nothing depends on its    *)
(* order; facing follows from the rest and decides nothing; regions are    *)
(* in Regions.tla; the ring of slots around a rally point is a row.        *)
(***************************************************************************)
EXTENDS Combat

CONSTANTS
  Robot, Player,            \* Robot is a set of numbers
  FactionOf, ChassisOf,     \* by robot
  PlayerFaction, Avatar,    \* by player; avatars are entities
  Start,                    \* by robot, where it spawns
  Squad,                    \* a set of numbers
  Orders, Blows, Ground,    \* what is ordered, suffered and walked to
  BaseEscortCap, MaxEscortCap, AttackStandoff, Spacing,
  PlayerStep, CatchUp       \* what a player covers in a tick, for how many at most

ASSUME RobotsAssumption ==
  /\ Robot \subseteq Nat \ {NoEntity} /\ IsFiniteSet(Robot)
  /\ BaseEscortCap \in Nat /\ MaxEscortCap \in Nat
  /\ \A o \in Orders : o.kind # "Regroup"   \* no order_for_command is

NoPlayer == "nobody"
NoSquad == 0
ASSUME PlayerAssumption == NoPlayer \notin Player
ASSUME SquadAssumption == Squad \subseteq Nat \ {NoSquad}
ASSUME ChassisAssumption ==
  \A r \in Robot : LET c == Chassis[ChassisOf[r]]
                  IN c.health > 0 /\ \A w \in c.weapon : w \in DOMAIN WeaponDef /\ c.weapon = {w}

VARIABLES
  robots,    \* those in the registry
  destroyed, \* those that were; an entity number is used once
  owner, squadOf, order,   \* by robot
  body,      \* by robot: [at, velocity, hp, atGoal, weapon, status]
  players,   \* those registered
  stand,     \* by player: [at, since]; since counts ticks, up to CatchUp
  escorts, escortCap,      \* by player
  squads,    \* by number: [faction, leader, members, rally]
  nextSquad,
  pending    \* projectiles fired in this tick

rosterVars == <<owner, escorts>>
squadVars == <<squadOf, squads, nextSquad>>
playerVars == <<players, stand, escortCap>>
robotsVars == <<robots, destroyed, order, body, pending, rosterVars, squadVars, playerVars>>

(* A registry is walked in the order of its numbers.                       *)
Ascending(ids) ==
  [i \in 1 .. Cardinality(ids) |-> CHOOSE x \in ids : Cardinality({y \in ids : y < x}) = i - 1]

ChassisOfRobot(r) == Chassis[ChassisOf[r]]
Idle == [kind |-> "Idle"]
GuardAt(at) == [kind |-> "Guard", to |-> at]
NewSquad(faction) == [faction |-> faction, leader |-> NoEntity, members |-> <<>>, rally |-> 0]
NotASquad == NewSquad("none")

NewBody(r) ==
  LET c == ChassisOfRobot(r)
  IN [at |-> Start[r], velocity |-> 0, hp |-> c.health, atGoal |-> TRUE,
      weapon |-> {WeaponState(w) : w \in c.weapon}, status |-> NoStatus]

RobotsInit ==
  /\ robots = {}
  /\ destroyed = {}
  /\ owner = [r \in Robot |-> NoPlayer]
  /\ squadOf = [r \in Robot |-> NoSquad]
  /\ order = [r \in Robot |-> Idle]
  /\ body = [r \in Robot |-> NewBody(r)]
  /\ players = {}
  /\ stand = [p \in Player |-> [at |-> 0, since |-> 0]]
  /\ escorts = [p \in Player |-> {}]
  /\ escortCap = [p \in Player |-> BaseEscortCap]
  /\ squads = [s \in Squad |-> NotASquad]
  /\ nextSquad = 1
  /\ pending = <<>>

-----------------------------------------------------------------------------
(* Players and their escorts.                                              *)

SpawnRobot(r) ==
  /\ r \notin robots \cup destroyed
  /\ robots' = robots \cup {r}
  /\ UNCHANGED <<destroyed, order, body, pending, rosterVars, squadVars, playerVars>>

(* The first use of a player's avatar registers it (ensure_player_avatar);  *)
(* one that is there is used as it is.                                     *)
RegisterPlayer(p) ==
  /\ p \notin players
  /\ players' = players \cup {p}
  /\ UNCHANGED <<robots, destroyed, order, body, pending, rosterVars, squadVars,
                 stand, escortCap>>

(* A reported position is accepted as far as the player could have walked  *)
(* since the last one.                                                     *)
PlayerMoves(p, to) ==
  /\ p \in players
  /\ LET allowance == PlayerStep * AtMost(AtLeast(stand[p].since, 1), CatchUp)
     IN stand' = [stand EXCEPT ![p] =
                    [at |-> stand[p].at + Clamped(to - stand[p].at, allowance), since |-> 0]]
  /\ UNCHANGED <<robots, destroyed, order, body, pending, rosterVars, squadVars,
                 players, escortCap>>

(* Progression sets how many escorts a player may have.  Those it has it   *)
(* keeps, be they more.                                                    *)
GrantEscortCap(p, cap) ==
  /\ escortCap' = [escortCap EXCEPT ![p] = AtMost(cap, MaxEscortCap)]
  /\ UNCHANGED <<robots, destroyed, order, body, pending, rosterVars, squadVars,
                 players, stand>>

EscortCapFor(p) == AtMost(escortCap[p], MaxEscortCap)

Ordered(r, o) ==
  /\ order' = [order EXCEPT ![r] = o]
  /\ body' = [body EXCEPT ![r].atGoal = FALSE]

AssignEscort(p, r) ==
  /\ p \in players /\ r \in robots
  /\ FactionOf[r] = PlayerFaction[p]
  /\ owner[r] = NoPlayer
  /\ Cardinality(escorts[p]) < EscortCapFor(p)
  /\ escorts' = [escorts EXCEPT ![p] = @ \cup {r}]
  /\ owner' = [owner EXCEPT ![r] = p]
  /\ Ordered(r, [kind |-> "Follow", target |-> Avatar[p]])
  /\ UNCHANGED <<robots, destroyed, pending, squadVars, playerVars>>

ReleaseEscort(p, r) ==
  /\ r \in robots /\ owner[r] = p
  /\ escorts' = [escorts EXCEPT ![p] = @ \ {r}]
  /\ owner' = [owner EXCEPT ![r] = NoPlayer]
  /\ Ordered(r, GuardAt(body[r].at))
  /\ UNCHANGED <<robots, destroyed, pending, squadVars, playerVars>>

-----------------------------------------------------------------------------
(* Orders and squads.                                                      *)

(* An escort obeys its owner, another robot any player of its faction.     *)
Authorized(actor, r) ==
  /\ r \in robots
  /\ \/ owner[r] = actor
     \/ owner[r] = NoPlayer /\ actor \in players /\ PlayerFaction[actor] = FactionOf[r]

IssueOrder(actor, r, o) ==
  /\ Authorized(actor, r)
  /\ Ordered(r, o)
  /\ UNCHANGED <<robots, destroyed, pending, rosterVars, squadVars, playerVars>>

CreateSquad(faction) ==
  /\ nextSquad \in Squad
  /\ squads' = [squads EXCEPT ![nextSquad] = NewSquad(faction)]
  /\ nextSquad' = nextSquad + 1
  /\ UNCHANGED <<robots, destroyed, order, body, pending, rosterVars, squadOf, playerVars>>

Members(s) == ToSet(squads[s].members)

(* The robot remembers this squad only; it stays on the roster of another  *)
(* it was in.                                                              *)
AssignSquadMember(actor, s, r) ==
  /\ Authorized(actor, r)
  /\ s < nextSquad /\ squads[s].faction = FactionOf[r]
  /\ r \notin Members(s)
  /\ squads' = [squads EXCEPT ![s].members = Append(@, r),
                              ![s].leader = IF @ = NoEntity THEN r ELSE @]
  /\ squadOf' = [squadOf EXCEPT ![r] = s]
  /\ UNCHANGED <<robots, destroyed, order, body, pending, rosterVars, nextSquad, playerVars>>

Without(squad, leaving) ==
  LET staying == Ascending({i \in DOMAIN squad.members : squad.members[i] \notin leaving})
      left == [i \in DOMAIN staying |-> squad.members[staying[i]]]
  IN [squad EXCEPT !.members = left,
                   !.leader = IF squad.leader \notin leaving THEN @
                              ELSE IF left = <<>> THEN NoEntity ELSE left[1]]

RemoveSquadMember(actor, s, r) ==
  /\ Authorized(actor, r)
  /\ s < nextSquad /\ r \in Members(s)
  /\ squads' = [squads EXCEPT ![s] = Without(squads[s], {r})]
  /\ squadOf' = [squadOf EXCEPT ![r] = IF @ = s THEN NoSquad ELSE @]
  /\ order' = IF squadOf[r] = s /\ order[r].kind = "Regroup"
              THEN [order EXCEPT ![r] = GuardAt(body[r].at)] ELSE order
  /\ UNCHANGED <<robots, destroyed, body, pending, rosterVars, nextSquad, playerVars>>

(* Fault: members that may not be ordered are passed over.                 *)
RegroupSquadPartly(actor, s, rally) ==
  /\ s < nextSquad
  /\ squads' = [squads EXCEPT ![s].rally = rally]
  /\ LET ready == {r \in Members(s) : Authorized(actor, r)}
     IN /\ order' = [r \in Robot |-> IF r \in ready
                                     THEN [kind |-> "Regroup", squad |-> s] ELSE order[r]]
        /\ body' = [r \in Robot |-> IF r \in ready
                                    THEN [body[r] EXCEPT !.atGoal = FALSE] ELSE body[r]]
  /\ UNCHANGED <<robots, destroyed, pending, rosterVars, squadOf, nextSquad, playerVars>>

RegroupSquad(actor, s, rally) ==
  /\ s < nextSquad
  /\ \A r \in Members(s) : Authorized(actor, r)
  /\ squads' = [squads EXCEPT ![s].rally = rally]
  /\ order' = [r \in Robot |-> IF r \in Members(s)
                               THEN [kind |-> "Regroup", squad |-> s] ELSE order[r]]
  /\ body' = [r \in Robot |-> IF r \in Members(s)
                              THEN [body[r] EXCEPT !.atGoal = FALSE] ELSE body[r]]
  /\ UNCHANGED <<robots, destroyed, pending, rosterVars, squadOf, nextSquad, playerVars>>

-----------------------------------------------------------------------------
(* Damage.                                                                 *)

(* One blow, on armour that conditions have already worn.                  *)
Struck(r, b, blow) ==
  LET plate == ChassisOfRobot(r).armour
      worn == [plate EXCEPT !.flat = AtLeast(@ - ArmorDegradation(b.status), 0)]
  IN [b EXCEPT !.hp = AfterDamage(@, EffectiveDamage(worn, blow)),
               !.status = IF blow.effect = {} THEN @
                          ELSE ApplyEffect(@, CHOOSE e \in blow.effect : TRUE)]

(* A destroyed robot leaves the registry, its owner's roster and the squad *)
(* it remembers.                                                           *)
CleanedUp(dead) ==
  /\ robots' = robots \ dead
  /\ destroyed' = destroyed \cup dead
  /\ owner' = [r \in Robot |-> IF r \in dead THEN NoPlayer ELSE owner[r]]
  /\ escorts' = [p \in Player |-> escorts[p] \ dead]
  /\ squadOf' = [r \in Robot |-> IF r \in dead THEN NoSquad ELSE squadOf[r]]
  /\ squads' = [s \in Squad |-> Without(squads[s], {r \in dead : squadOf[r] = s})]
  /\ UNCHANGED nextSquad

(* Fault: only the robot's own record goes.                                *)
ApplyDamageUncleaned(r, blow) ==
  /\ r \in robots
  /\ body' = [body EXCEPT ![r] = Struck(r, body[r], blow)]
  /\ IF body'[r].hp = 0
     THEN robots' = robots \ {r} /\ destroyed' = destroyed \cup {r}
     ELSE UNCHANGED <<robots, destroyed>>
  /\ UNCHANGED <<order, pending, rosterVars, squadVars, playerVars>>

ApplyDamage(r, blow) ==
  /\ r \in robots
  /\ body' = [body EXCEPT ![r] = Struck(r, body[r], blow)]
  /\ CleanedUp({x \in {r} : body'[x].hp = 0})
  /\ UNCHANGED <<order, pending, playerVars>>

-----------------------------------------------------------------------------
(* The tick.                                                               *)

(* Where an entity is: at most one position.                               *)
PositionOf(bodies, e) ==
  IF e \in robots THEN {bodies[e].at}
  ELSE {stand[p].at : p \in {q \in players : Avatar[q] = e}}

AttackDistance(r) ==
  IF body[r].weapon = {} THEN AttackStandoff
  ELSE AtLeast((3 * Def(CHOOSE w \in body[r].weapon : TRUE).range) \div 4, 1)

GoalFor(bodies, r) ==
  LET o == order[r]
      Beside(target, standoff) ==
        {StandoffPosition(t, bodies[r].at, standoff) : t \in PositionOf(bodies, target)}
  IN CASE o.kind = "Idle" -> {}
       [] o.kind \in {"MoveTo", "Guard"} -> {o.to}
       [] o.kind = "ReturnToBase" -> {Start[r]}
       [] o.kind = "Follow" -> Beside(o.target, ChassisOfRobot(r).standoff)
       [] o.kind = "Attack" -> Beside(o.target, AttackDistance(r))
       [] o.kind = "Regroup" ->
            LET members == squads[o.squad].members
            IN {squads[o.squad].rally + (i - 1) * Spacing :
                  i \in {j \in DOMAIN members : members[j] = r}}

(* Everybody as seen before anybody moves.                                 *)
Solid ==
  {[id |-> r, at |-> body[r].at, radius |-> ChassisOfRobot(r).radius] : r \in robots}
    \cup {[id |-> Avatar[p], at |-> stand[p].at, radius |-> 1] : p \in players}

(* One robot walks, its conditions wear on, its weapon cycles.             *)
Advanced(bodies, r) ==
  LET b == bodies[r]
      c == ChassisOfRobot(r)
      multiplier == SpeedMultiplier(b.status)
      speed == (c.speed * multiplier) \div 1000
      goal == GoalFor(bodies, r)
      velocity == NextVelocity(b.velocity, Steer(r, b.at, goal, Solid, c, speed), c, multiplier)
  IN [at |-> b.at + velocity, velocity |-> velocity, atGoal |-> Arrived(b.at, goal, c),
      hp |-> AfterDamage(b.hp, DotDamage(b.status)), status |-> StatusAfter(b.status),
      weapon |-> {WeaponAfter(w) : w \in b.weapon}]

(* In the order of their numbers: whoever follows a robot with a lower     *)
(* number goes by where that one is now.                                   *)
Walked(bodies, r) == [bodies EXCEPT ![r] = Advanced(bodies, r)]

Moved ==
  LET inOrder == Ascending(robots)
      after[n \in 0 .. Len(inOrder)] ==
        IF n = 0 THEN body ELSE Walked(after[n - 1], inOrder[n])
  IN after[Len(inOrder)]

(* Robots ordered to attack a target that is somewhere.                    *)
Attackers(bodies) ==
  {r \in robots : /\ bodies[r].hp > 0
                  /\ order[r].kind = "Attack"
                  /\ PositionOf(bodies, order[r].target) # {}}

TargetAt(bodies, r) == CHOOSE x \in PositionOf(bodies, order[r].target) : TRUE

(* Weapons that go off.  Being stunned is no hindrance.                    *)
Firing(bodies) ==
  {r \in Attackers(bodies) :
     \E w \in bodies[r].weapon :
       CanFire(w) /\ Magnitude(TargetAt(bodies, r) - bodies[r].at) <= Def(w).range}

Fired(bodies) ==
  LET firing == Firing(bodies)
  IN [r \in Robot |-> IF r \in firing
                      THEN [bodies[r] EXCEPT !.weapon = {Discharged(w, 1000) : w \in @}]
                      ELSE bodies[r]]

WeaponDefOf(r) == Def(CHOOSE w \in body[r].weapon : TRUE)

Shot(bodies, r) ==
  LET def == WeaponDefOf(r)
      at == bodies[r].at
      target == TargetAt(bodies, r)
  IN IF def.motion = "Linear"
     THEN NewLinear(r, FactionOf[r], at, Toward(target - at), def, def.damage)
     ELSE NewBallistic(r, FactionOf[r], at, target, def, def.damage)

Shots(bodies) ==
  LET shooters == {r \in Firing(bodies) : WeaponDefOf(r).motion \in {"Linear", "Ballistic"}}
      inOrder == Ascending(shooters)
  IN [i \in DOMAIN inOrder |-> Shot(bodies, inOrder[i])]

(* A charger at speed rams what it attacks; a melee weapon that goes off   *)
(* strikes what is within its reach.                                       *)
Impact(r, speed) ==
  LET raw == (ChassisOfRobot(r).mass * speed) \div 2
  IN [raw |-> raw, pierce |-> AtMost(raw \div 10, 30), kind |-> "Impact", effect |-> {}]

Ram(bodies, r) ==
  LET c == ChassisOfRobot(r)
      speed == Magnitude(bodies[r].velocity)
  IN IF ChassisOf[r] = "Charger" /\ speed > 2
          /\ Magnitude(TargetAt(bodies, r) - bodies[r].at) <= c.radius + 1
     THEN {Impact(r, speed)} ELSE {}

Bite(bodies, r) ==
  LET def == WeaponDefOf(r)
      reach == def.range + ChassisOfRobot(r).radius
  IN IF r \in Firing(bodies) /\ def.motion = "Melee"
          /\ Magnitude(TargetAt(bodies, r) - bodies[r].at) <= reach
     THEN {def.damage} ELSE {}

(* A robot that has nothing left is out of the registry and not struck     *)
(* again.                                                                  *)
Strike(bodies, now, t, blows) ==
  IF blows # {} /\ t \in robots /\ (bodies[t].hp = 0 \/ now[t].hp > 0)
  THEN [now EXCEPT ![t] = Struck(t, now[t], CHOOSE blow \in blows : TRUE)] ELSE now

Attacked(bodies, now, r) ==
  LET t == order[r].target
  IN Strike(bodies, Strike(bodies, now, t, Ram(bodies, r)), t, Bite(bodies, r))

Melee(bodies) ==
  LET inOrder == Ascending(Attackers(bodies))
      after[n \in 0 .. Len(inOrder)] ==
        IF n = 0 THEN Fired(bodies) ELSE Attacked(bodies, after[n - 1], inOrder[n])
  IN after[Len(inOrder)]

(* The tick of the registry; whoever has nothing left at its end is        *)
(* cleaned up, by a blow or by what it suffered from.                      *)
Stepped == Melee(Moved)

RobotsStep ==
  /\ \E stepped \in {Stepped} :
        /\ body' = stepped
        /\ CleanedUp({r \in robots : stepped[r].hp = 0})
  /\ pending' = Shots(Moved)
  /\ stand' = [p \in Player |-> [stand[p] EXCEPT !.since = AtMost(@ + 1, CatchUp)]]
  /\ UNCHANGED <<order, players, escortCap>>

RobotCommands ==
  \/ \E p \in Player, r \in Robot : AssignEscort(p, r)
  \/ \E p \in Player, r \in Robot : ReleaseEscort(p, r)
  \/ \E p \in Player, r \in Robot, o \in Orders : IssueOrder(p, r, o)
  \/ \E p \in Player, s \in Squad, r \in Robot : AssignSquadMember(p, s, r)
  \/ \E p \in Player, s \in Squad, r \in Robot : RemoveSquadMember(p, s, r)
  \/ \E p \in Player, s \in Squad, to \in Ground : RegroupSquad(p, s, to)

Command ==
  \/ RobotCommands
  \/ \E r \in Robot : SpawnRobot(r)
  \/ \E p \in Player : RegisterPlayer(p)
  \/ \E p \in Player, to \in Ground : PlayerMoves(p, to)
  \/ \E p \in Player, cap \in 0 .. MaxEscortCap + 1 : GrantEscortCap(p, cap)
  \/ \E f \in {FactionOf[r] : r \in Robot} : CreateSquad(f)

RobotsNext ==
  \/ Command
  \/ \E r \in Robot, blow \in Blows : ApplyDamage(r, blow)
  \/ RobotsStep

RobotsSpec == RobotsInit /\ [][RobotsNext]_robotsVars

-----------------------------------------------------------------------------
(* A robot escorts the player on whose roster it is, one at most, of its   *)
(* own faction; nobody has more than progression can ever grant; and who   *)
(* is destroyed is in no roster.                                           *)
EscortsKept ==
  /\ \A p \in Player : /\ escorts[p] = {r \in robots : owner[r] = p}
                       /\ Cardinality(escorts[p]) <= MaxEscortCap
                       /\ \A r \in escorts[p] : FactionOf[r] = PlayerFaction[p]
  /\ \A r \in destroyed : owner[r] = NoPlayer

(* Who has nothing left is not in the registry.                            *)
EscortsAgree == EscortsKept /\ \A r \in robots : body[r].hp # 0

(* A squad is led by one of its members as long as it has any, and a robot *)
(* that remembers a squad has exactly one slot in its formation, whatever  *)
(* was joined, left, or lost to damage before.                             *)
SquadsLed ==
  \A s \in Squad :
    /\ IF squads[s].members = <<>> THEN squads[s].leader = NoEntity
       ELSE squads[s].leader \in Members(s)
    /\ Len(squads[s].members) = Cardinality(Members(s))
    /\ \A r \in robots : squadOf[r] = s => r \in Members(s)

(* Assigning, releasing, joining, leaving, dying by a blow and dying of    *)
(* fire in a tick each keep every roster and the robots on it in step      *)
(* (robot.rs:755, 876).                                                    *)
RostersAgree == EscortsAgree /\ SquadsLed

(* A regroup reaches every member or none: whenever one robot is called to *)
(* a rally point, all of the squad are.                                    *)
RegroupIsWhole ==
  [][\A s \in Squad :
       (\E r \in robots : order[r] # order'[r] /\ order'[r] = [kind |-> "Regroup", squad |-> s])
         => \A m \in ToSet(squads'[s].members) :
              m \in robots /\ order'[m] = [kind |-> "Regroup", squad |-> s]]_robotsVars
=============================================================================
