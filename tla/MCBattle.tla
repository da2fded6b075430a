------------------------------ MODULE MCBattle ------------------------------
(* Four robots, two players and a turret on a line of ten places.          *)
EXTENDS Battle

VARIABLES scene, left   \* which of two scenes, and steps left in it
Hit(raw, effect) == [raw |-> raw, pierce |-> 0, kind |-> "Kinetic", effect |-> effect]
Body(speed, radius, health, flat, weapon) ==
  [speed |-> speed, acceleration |-> 2, tolerance |-> 0, separation |-> 1, radius |-> radius,
   standoff |-> 1, health |-> health, armour |-> [flat |-> flat, percent |-> 0],
   weapon |-> weapon, mass |-> 2]
MCChassis == [c \in {"Rifleman", "Grenadier", "Swarmer", "Charger"} |->
  CASE c = "Rifleman"  -> Body(1, 0, 3, 1, {"rifle"})
    [] c = "Grenadier" -> Body(1, 0, 3, 0, {"grenade"})
    [] c = "Swarmer"   -> Body(2, 0, 2, 0, {"bite"})
    [] c = "Charger"   -> Body(4, 1, 4, 1, {})]
Weapon(cycle, magazine, reload, perShot, range, motion, speed, splash, damage) ==
  [cycle |-> cycle, magazine |-> magazine, reloadTicks |-> reload, perShot |-> perShot,
   range |-> range, motion |-> motion, speed |-> speed, gravity |-> 2, splash |-> splash,
   damage |-> damage]
Fire == {[kind |-> "DamageOverTime", amount |-> 1, ticks |-> 2]}
MCWeaponDef == [w \in {"rifle", "grenade", "bite", "cannon"} |->
  CASE w = "rifle"   -> Weapon(1, 3, 2, 2, 3, "Linear", 2, 0, Hit(3, {}))
    [] w = "grenade" -> Weapon(2, 1, 2, 1, 3, "Ballistic", 1, 2, Hit(2, Fire))
    [] w = "bite"    -> Weapon(1, 9, 0, 0, 1, "Melee", 0, 0, Hit(2, {}))
    [] w = "cannon"  -> Weapon(1, 2, 1, 1, 4, "Linear", 3, 0, Hit(2, {}))]
MCPlayerFaction == [p \in Player |-> "red"]
MCAvatar == [p \in Player |-> IF p = "ann" THEN 5 ELSE 6]
MCFactionOf == [r \in Robot |-> IF r <= 2 THEN "red" ELSE "blue"]
MCChassisOf == [r \in Robot |->
  CASE r = 1 -> "Rifleman" [] r = 2 -> "Grenadier" [] r = 3 -> "Swarmer" [] OTHER -> "Charger"]
MCStart == [r \in Robot |-> CASE r = 1 -> 1 [] r = 2 -> 3 [] r = 3 -> 4 [] OTHER -> 8]
MCOrders == {[kind |-> "Attack", target |-> 3], [kind |-> "Attack", target |-> 1],
             [kind |-> "Follow", target |-> 2]}
MCBlows == {Hit(9, {})}
MCSiteFaction == [s \in Site |-> "blue"]
MCSiteAt == [s \in Site |-> IF s = 1 THEN 5 ELSE 7]
MCSiteHealth == [s \in Site |-> 3]
MCTurret == [s \in Site |-> IF s = 1 THEN {} ELSE {"cannon"}]
MCRate == [f \in {"red", "blue"} |-> IF f = "red" THEN 1000 ELSE 2000]

(* Two scenes.  Players, rosters and squads, each robot idle and the first  *)
(* squad formed or not, with whatever robots suffer (what changes no roster *)
(* comes early); and a battle that has begun, in which one more thing        *)
(* happens.                                                                *)
Begun(orders, present, registered, formed) ==
  /\ order = orders /\ robots = present /\ players = registered
  /\ destroyed = {} /\ pending = <<>> /\ nextSquad = 1 + Cardinality(formed) /\ flying = <<>> /\ clock = 0
  /\ owner = [r \in Robot |-> NoPlayer] /\ squadOf = [r \in Robot |-> NoSquad]
  /\ body = [r \in Robot |-> NewBody(r)]
  /\ stand = [p \in Player |-> [at |-> 0, since |-> 0]]
  /\ escorts = [p \in Player |-> {}] /\ escortCap = [p \in Player |-> BaseEscortCap]
  /\ squads = [s \in Squad |-> IF s \in formed THEN NewSquad("red") ELSE NotASquad]
  /\ site = [s \in Site |-> [hp |-> SiteHealth[s], state |-> "Constructed", powered |-> TRUE,
                              weapon |-> {WeaponState(w) : w \in Turret[s]}]]

SceneInit ==
  \/ /\ scene = "roster"
     /\ \/ left = 2 /\ Begun([r \in Robot |-> Idle], {1, 2, 4}, {"ann"}, {})
        \/ left = 4 /\ Begun([r \in Robot |-> Idle], {1, 2, 4}, Player, {1})
  \/ /\ scene = "battle" /\ left = 1
     /\ \E begun \in [Robot -> MCOrders \cup {Idle}] :
          Begun(begun, Robot, {"ann"}, {})
SceneNext ==
  /\ scene' = scene
  /\ \/ /\ scene = "roster" /\ left > 0 /\ left' = left - 1
        /\ RobotsNext /\ UNCHANGED <<site, flying, clock>>
        /\ \/ left \in {1, 2, 4}
           \/ <<robots, destroyed, players, owner, squadOf, squads>>' # <<robots, destroyed, players, owner, squadOf, squads>>
     \/ /\ scene = "battle" /\ left > 0 /\ left' = left - 1
        /\ \/ Command /\ UNCHANGED <<site, flying, clock>>
           \/ \E s \in Site : PowerChanges(s)
     \/ scene = "battle" /\ WorldTick /\ UNCHANGED left
SceneSpec == SceneInit /\ [][SceneNext]_<<battleVars, scene, left>>
=============================================================================
