------------------------------- MODULE Combat -------------------------------
(***************************************************************************)
(* What combat computes: crates/sim-core/src/combat.rs, navigation.rs and  *)
(* chassis.rs.  Distances lie on one line and are whole; time is in ticks, *)
(* speeds are distances per tick, factors are in thousandths.  The kinds   *)
(* of damage only label it and are left out.                               *)
(***************************************************************************)
EXTENDS Armor, Sequences, SequencesExt, FiniteSets, FiniteSetsExt, Functions

CONSTANTS
  Chassis,    \* the chassis: by name, a record of RobotArchetype's numbers
  WeaponDef,  \* the weapons, by name
  MinApproach \* MIN_APPROACH_FRACTION

(* A magazine holds at least a shot.                                       *)
ASSUME WeaponsAssumption ==
  \A w \in DOMAIN WeaponDef :
    /\ WeaponDef[w].perShot \in Nat /\ WeaponDef[w].reloadTicks \in Nat
    /\ WeaponDef[w].magazine \in Nat /\ WeaponDef[w].perShot <= WeaponDef[w].magazine

NoEntity == 0
Magnitude(x) == IF x < 0 THEN -x ELSE x
Toward(x) == IF x < 0 THEN -1 ELSE 1
Clamped(x, limit) == AtMost(AtLeast(x, -limit), limit)

-----------------------------------------------------------------------------
(* Conditions an entity is under.  Each lasts so many ticks; damage,       *)
(* stripped armour and slowing add up, stun and suppression keep the       *)
(* stronger.                                                               *)

NoStatus == [dots |-> <<>>, strips |-> <<>>, slows |-> <<>>, stun |-> 0,
             pinned |-> 0, spread |-> 0]

ApplyEffect(status, effect) ==
  CASE effect.kind = "DamageOverTime" /\ effect.ticks > 0 ->
         [status EXCEPT !.dots = Append(@, <<effect.amount, effect.ticks>>)]
    [] effect.kind = "ArmorDegradation" /\ effect.ticks > 0 ->
         [status EXCEPT !.strips = Append(@, <<effect.amount, effect.ticks>>)]
    [] effect.kind = "Slow" /\ effect.ticks > 0 ->
         [status EXCEPT !.slows = Append(@, <<AtMost(effect.amount, 1000), effect.ticks>>)]
    [] effect.kind = "StunEmp" ->
         [status EXCEPT !.stun = AtLeast(@, effect.ticks)]
    [] effect.kind = "Suppression" ->
         [status EXCEPT !.pinned = AtLeast(@, effect.ticks), !.spread = AtLeast(@, effect.amount)]
    [] OTHER -> status   \* also Knockback, which moves nothing

Later(effects) ==
  LET aged == [i \in DOMAIN effects |-> <<effects[i][1], effects[i][2] - 1>>]
  IN SelectSeq(aged, LAMBDA e : e[2] > 0)

Sum1(effects) == FoldSeq(LAMBDA e, sum : e[1] + sum, 0, effects)

StatusAfter(status) ==
  [dots |-> Later(status.dots), strips |-> Later(status.strips), slows |-> Later(status.slows),
   stun |-> AtLeast(status.stun - 1, 0), pinned |-> AtLeast(status.pinned - 1, 0),
   spread |-> IF status.pinned > 1 THEN status.spread ELSE 0]

DotDamage(status) == Sum1(status.dots)
ArmorDegradation(status) == Sum1(status.strips)
Stunned(status) == status.stun > 0

SpeedMultiplier(status) ==
  IF Stunned(status) THEN 0
  ELSE AtMost(AtLeast(FoldSeq(LAMBDA e, product : (product * e[1]) \div 1000, 1000, status.slows),
                      100), 1000)

-----------------------------------------------------------------------------
(* Weapons: [def, cooldown, loaded, reload].                               *)

WeaponState(name) ==
  [def |-> name, cooldown |-> 0, loaded |-> WeaponDef[name].magazine, reload |-> 0]
Def(weapon) == WeaponDef[weapon.def]

CanFire(weapon) == weapon.cooldown = 0 /\ weapon.loaded >= Def(weapon).perShot

WeaponAfter(weapon) ==
  [weapon EXCEPT !.cooldown = AtLeast(@ - 1, 0),
                 !.reload = AtLeast(@ - 1, 0),
                 !.loaded = IF weapon.reload = 1 THEN Def(weapon).magazine ELSE @]

(* Fault: an empty magazine is not noticed.                                *)
DischargedDry(weapon, rate) ==
  [weapon EXCEPT !.loaded = @ - Def(weapon).perShot,
                 !.cooldown = AtLeast((Def(weapon).cycle * 1000) \div rate, 1)]

(* A shot, at rate thousandths of the weapon's own, by a weapon that can   *)
(* fire.  Reloading starts when another shot would not be possible.        *)
Discharged(weapon, rate) ==
  LET left == weapon.loaded - Def(weapon).perShot
  IN [weapon EXCEPT !.loaded = left,
                    !.cooldown = AtLeast((Def(weapon).cycle * 1000) \div rate, 1),
                    !.reload = IF left < Def(weapon).perShot /\ Def(weapon).reloadTicks > 0
                               THEN Def(weapon).reloadTicks ELSE @]

-----------------------------------------------------------------------------
(* Projectiles.  A thrown one also has a height, which decides when it     *)
(* comes down.                                                             *)

NewLinear(owner, faction, at, direction, def, damage) ==
  [owner |-> owner, faction |-> faction, at |-> at, velocity |-> direction * def.speed,
   height |-> 0, climb |-> 0, gravity |-> 0, thrown |-> FALSE, damage |-> damage,
   splash |-> def.splash, travelled |-> 0, range |-> def.range, active |-> TRUE,
   life |-> IF def.speed > 0 THEN Ceiling(def.range, def.speed) + 1 ELSE 30]

NewBallistic(owner, faction, at, target, def, damage) ==
  LET flight == AtLeast(Magnitude(target - at) \div def.speed, 1)
  IN [owner |-> owner, faction |-> faction, at |-> at, velocity |-> (target - at) \div flight,
      height |-> 0, climb |-> (def.gravity * flight) \div 2, gravity |-> def.gravity,
      thrown |-> TRUE, damage |-> damage, splash |-> def.splash, travelled |-> 0,
      range |-> def.range, active |-> TRUE, life |-> flight + 10]

(* One tick of flight.  Only a straight shot ends at its range, only a     *)
(* thrown one on the ground; either is still tested for what it hit.       *)
Flown(p) ==
  LET up == AtLeast(p.height + p.climb, 0)
      far == p.travelled + Magnitude(p.velocity)
      over == IF p.thrown THEN p.height + p.climb <= 0 ELSE far >= p.range
  IN [p EXCEPT !.at = @ + p.velocity, !.height = IF p.thrown THEN up ELSE @,
               !.climb = @ - p.gravity, !.travelled = far, !.life = @ - 1,
               !.active = ~over]

-----------------------------------------------------------------------------
(* Movement.                                                               *)

(* The point standoff away from target, on the side of from.               *)
StandoffPosition(target, from, standoff) ==
  IF from = target THEN target - standoff ELSE target + Toward(from - target) * standoff

(* The velocity DirectSteering asks for: to the goal, slower near it, not  *)
(* past it, and away from whoever is too close.  A goal is a set of at     *)
(* most one position; bodies are [id, at, radius].                         *)
Arrived(at, goal, chassis) == \A to \in goal : Magnitude(to - at) <= chassis.tolerance

Seek(at, goal, chassis, speed) ==
  IF Arrived(at, goal, chassis) THEN 0
  ELSE LET to == CHOOSE x \in goal : TRUE
           away == Magnitude(to - at)
           ease == AtMost(AtLeast((away * 1000) \div (3 * AtLeast(chassis.tolerance, 1)),
                                  MinApproach), 1000)
       IN Toward(to - at) * AtMost((speed * ease) \div 1000, away)

Separation(id, at, bodies, chassis, speed) ==
  LET Influence(b) == AtLeast(chassis.separation, chassis.radius + b.radius)
      Push(b) ==
        LET away == Magnitude(at - b.at)
            size == ((Influence(b) - away) * 800 * speed) \div (Influence(b) * 1000)
        IN IF away >= Influence(b) THEN 0
           ELSE IF away = 0 THEN (IF id >= b.id THEN size ELSE -size)
           ELSE Toward(at - b.at) * size
  IN MapThenSumSet(Push, {b \in bodies : b.id # id})

Steer(id, at, goal, bodies, chassis, speed) ==
  Clamped(Seek(at, goal, chassis, speed) + Separation(id, at, bodies, chassis, speed), speed)

(* The velocity after one tick: acceleration and speed are limited, and a  *)
(* stunned robot stops where it is.                                        *)
NextVelocity(velocity, wanted, chassis, multiplier) ==
  LET turned == velocity + Clamped(wanted - velocity, chassis.acceleration)
  IN IF multiplier = 0 THEN 0
     ELSE Clamped(turned, (chassis.speed * multiplier) \div 1000)
=============================================================================
