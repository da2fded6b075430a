------------------------------- MODULE Battle -------------------------------
(***************************************************************************)
(* The armed part of a world tick: robots, then turrets, then projectiles  *)
(* (crates/sim-core/src/world.rs, step_systems).  Composes Robots with the *)
(* projectiles in flight and with the structures that shoot or are shot    *)
(* at.  What damage does to a structure besides taking its hit points, and *)
(* what powers a turret, is in Structures.tla; here power comes and goes.  *)
(***************************************************************************)
EXTENDS Robots

CONSTANTS
  Site,        \* structures: a set of numbers, which may be robots' too
  SiteFaction, SiteAt, SiteHealth,   \* by site; it reaches SiteReach to both sides
  SiteReach,
  Turret,      \* by site, the weapon it has: a set of one or none
  FireRate, DamageRate,   \* by faction, in thousandths, from research
  MaxTick

ASSUME BattleAssumption ==
  /\ Site \subseteq Nat \ {NoEntity} /\ IsFiniteSet(Site) /\ MaxTick \in Nat
  /\ \A s \in Site : Turret[s] \subseteq DOMAIN WeaponDef

VARIABLES
  site,     \* by structure: [hp, state, powered, weapon]
  flying,   \* projectiles, the oldest first
  clock     \* the tick, up to MaxTick

battleVars == <<robotsVars, site, flying, clock>>

BattleInit ==
  /\ RobotsInit
  /\ site = [s \in Site |-> [hp |-> SiteHealth[s], state |-> "Constructed", powered |-> TRUE,
                             weapon |-> {WeaponState(w) : w \in Turret[s]}]]
  /\ flying = <<>>
  /\ clock = 0

PowerChanges(s) ==
  /\ site' = [site EXCEPT ![s].powered = ~@]
  /\ UNCHANGED <<robotsVars, flying, clock>>

-----------------------------------------------------------------------------
(* Turrets.  alive are the robots that are left, at is where they are.     *)

CanShoot(s) == site[s].state = "Constructed" /\ site[s].powered

(* The nearest hostile robot in range, the one with the lowest number of   *)
(* several.                                                                *)
TargetsOf(s, def, alive, bodies) ==
  LET hostile == {r \in alive : FactionOf[r] # SiteFaction[s]
                                  /\ Magnitude(bodies[r].at - SiteAt[s]) <= def.range}
      Nearer(q, r) == Magnitude(bodies[q].at - SiteAt[s]) < Magnitude(bodies[r].at - SiteAt[s])
      nearest == {r \in hostile : ~\E q \in hostile : Nearer(q, r)}
  IN IF nearest = {} THEN {} ELSE {Min(nearest)}

(* What a turret becomes and fires.  Its weapon only cycles while the      *)
(* turret stands and has power; one that does not shoot straight goes off  *)
(* to no effect.                                                           *)
TurretTick(s, alive, bodies) ==
  IF site[s].weapon = {} \/ ~CanShoot(s) THEN [site |-> site[s], shots |-> <<>>]
  ELSE LET ready == WeaponAfter(CHOOSE w \in site[s].weapon : TRUE)
           def == Def(ready)
           targets == TargetsOf(s, def, alive, bodies)
           rate == FireRate[SiteFaction[s]]
           blow == [def.damage EXCEPT !.raw = AtLeast((@ * DamageRate[SiteFaction[s]]) \div 1000, 1)]
           shot == NewLinear(NoEntity, SiteFaction[s], SiteAt[s],
                             Toward(bodies[Min(targets)].at - SiteAt[s]),
                             [def EXCEPT !.splash = 0], blow)
       IN IF ~CanFire(ready) \/ targets = {}
          THEN [site |-> [site[s] EXCEPT !.weapon = {ready}], shots |-> <<>>]
          ELSE [site |-> [site[s] EXCEPT !.weapon = {Discharged(ready, rate)}],
                shots |-> IF def.motion = "Linear" THEN <<shot>> ELSE <<>>]

-----------------------------------------------------------------------------
(* Projectiles.                                                            *)

(* A round body is met where the flight comes closest to its middle, a     *)
(* structure where the flight enters it: how far along that is, if at all. *)
Clamp(x, low, high) == AtMost(AtLeast(x, low), high)
ClosestTo(at, from, to) == IF from < to THEN Clamp(at, from, to) ELSE Clamp(at, to, from)

MetBody(at, radius, from, to) ==
  {Magnitude(x - from) : x \in {y \in {ClosestTo(at, from, to)} : Magnitude(at - y) <= radius}}

MetSite(at, from, to) ==
  LET entry == IF from < to THEN AtLeast(at - SiteReach, from) ELSE AtMost(at + SiteReach, from)
  IN {Magnitude(x - from) :
        x \in {y \in {entry} : Magnitude(at - y) <= SiteReach /\ ClosestTo(y, from, to) = y}}

(* Fault: a shot does not tell friend from foe.                            *)
RobotsMetAny(p, to, alive, bodies) ==
  UNION {{<<met, 1, r>> : met \in MetBody(bodies[r].at, ChassisOfRobot(r).radius, p.at, to)} :
         r \in alive \ {p.owner}}

(* What a shot may hit: <<how far away, what sort, which>>, the least of   *)
(* which it does.  A structure that was destroyed still stands in the way. *)
RobotsMet(p, to, alive, bodies) ==
  UNION {{<<met, 1, r>> : met \in MetBody(bodies[r].at, ChassisOfRobot(r).radius, p.at, to)} :
         r \in {q \in alive \ {p.owner} : FactionOf[q] # p.faction}}

SitesMet(p, to) ==
  UNION {{<<met, 2, s>> : met \in MetSite(SiteAt[s], p.at, to)} :
         s \in {q \in Site : SiteFaction[q] # p.faction}}

GroundMet(p, q) ==
  IF q.thrown /\ q.height = 0
  THEN {<<IF p.height = 0 THEN 0 ELSE Magnitude(q.at - p.at), 3, NoEntity>>} ELSE {}

Before(a, b) ==
  \/ a[1] < b[1]
  \/ a[1] = b[1] /\ a[2] < b[2]
  \/ a[1] = b[1] /\ a[2] = b[2] /\ a[3] < b[3]

HitOf(p, alive, bodies) ==
  LET q == Flown(p)
      met == RobotsMet(p, q.at, alive, bodies) \cup SitesMet(p, q.at) \cup GroundMet(p, q)
  IN {h \in met : \A g \in met \ {h} : Before(h, g)}

InFlight(p) == p.active /\ p.life > 0

(* What a shot does to what it hit.                                        *)
ImpactOf(p, hit) ==
  [target |-> hit[3], at |-> p.at + Toward(p.velocity) * hit[1], damage |-> p.damage,
   splash |-> p.splash, faction |-> p.faction]

StillFlying(shots, alive, bodies) ==
  LET Misses(p) == InFlight(p) /\ HitOf(p, alive, bodies) = {} /\ Flown(p).active
      missing == Ascending({i \in DOMAIN shots : Misses(shots[i])})
  IN [i \in DOMAIN missing |-> Flown(shots[missing[i]])]

SiteStruck(now, blow) ==
  IF now.state = "Destroyed" THEN now
  ELSE LET hp == AfterDamage(now.hp, EffectiveDamage([flat |-> 0, percent |-> 0], blow))
       IN [now EXCEPT !.hp = hp, !.state = IF hp = 0 THEN "Destroyed" ELSE @,
                      !.powered = @ /\ hp > 0]

Falloff(blow, away, radius) ==
  [blow EXCEPT !.raw = (@ * AtMost(AtLeast(1000 - (away * 1000) \div radius, 100), 1000)) \div 1000]

(* One impact: on the robot with the target's number if there is one, else *)
(* on the structure with that number; and on all others of another         *)
(* faction within the splash.  w is [alive, bodies, site].                 *)
AfterImpact(w, impact) ==
  LET t == impact.target
      Near(at) == Magnitude(impact.at - at) <= impact.splash /\ impact.splash > 0
      Blow(at) == Falloff(impact.damage, Magnitude(impact.at - at), impact.splash)
      hit == IF t \in w.alive THEN [w.bodies EXCEPT ![t] = Struck(t, w.bodies[t], impact.damage)]
             ELSE w.bodies
      hitSite == IF t \notin w.alive /\ t \in Site
                 THEN [w.site EXCEPT ![t] = SiteStruck(w.site[t], impact.damage)] ELSE w.site
      bodies == [r \in Robot |->
        IF r \in w.alive \ {t} /\ FactionOf[r] # impact.faction /\ Near(hit[r].at)
        THEN Struck(r, hit[r], Blow(hit[r].at)) ELSE hit[r]]
      sites == [s \in Site |->
        IF s # t /\ SiteFaction[s] # impact.faction /\ Near(SiteAt[s])
        THEN SiteStruck(hitSite[s], Blow(SiteAt[s])) ELSE hitSite[s]]
  IN [alive |-> {r \in w.alive : bodies[r].hp > 0}, bodies |-> bodies, site |-> sites]

-----------------------------------------------------------------------------
(* The tick: robots step and fire, turrets fire, everything in flight      *)
(* moves and hits.                                                         *)

AliveIn(bodies) == {r \in robots : bodies[r].hp > 0}

TurretsTick(bodies) ==
  LET alive == AliveIn(bodies) IN [s \in Site |-> TurretTick(s, alive, bodies)]

TurretShots(turret) ==
  LET inOrder == Ascending({s \in Site : turret[s].shots # <<>>})
  IN [i \in DOMAIN inOrder |-> Head(turret[inOrder[i]].shots)]

(* One impact after the other, in the order of the shots; what they hit    *)
(* was found before any of them did harm.                                  *)
HitsOf(p, bodies) == IF InFlight(p) THEN HitOf(p, AliveIn(bodies), bodies) ELSE {}

AfterShot(w, p, hits) ==
  IF hits = {} THEN w ELSE AfterImpact(w, ImpactOf(p, CHOOSE hit \in hits : TRUE))

AfterImpacts(shots, bodies, turret) ==
  LET after[n \in 0 .. Len(shots)] ==
        IF n = 0 THEN [alive |-> AliveIn(bodies), bodies |-> bodies,
                       site |-> [s \in Site |-> turret[s].site]]
        ELSE AfterShot(after[n - 1], shots[n], HitsOf(shots[n], bodies))
  IN after[Len(shots)]

WorldTick ==
  /\ clock < MaxTick
  /\ \E stepped \in {Stepped} : \E turret \in {TurretsTick(stepped)} :
     \E shots \in {flying \o Shots(Moved) \o TurretShots(turret)} :
     \E after \in {AfterImpacts(shots, stepped, turret)} :
        /\ body' = after.bodies
        /\ site' = after.site
        /\ flying' = StillFlying(shots, AliveIn(stepped), stepped)
        /\ CleanedUp(robots \ after.alive)
  /\ pending' = <<>>
  /\ stand' = [p \in Player |-> [stand[p] EXCEPT !.since = AtMost(@ + 1, CatchUp)]]
  /\ clock' = clock + 1
  /\ UNCHANGED <<order, players, escortCap>>

BattleNext ==
  \/ Command /\ UNCHANGED <<site, flying, clock>>
  \/ \E s \in Site : PowerChanges(s)
  \/ WorldTick

BattleSpec == BattleInit /\ [][BattleNext]_battleVars

-----------------------------------------------------------------------------
(* Nothing that can be reloaded runs dry for good: a weapon, of a robot or *)
(* of a turret, that has less than a shot loaded is reloading, and none    *)
(* holds more than its magazine.                                           *)
WeaponsRecover ==
  \A w \in UNION ({body[r].weapon : r \in robots} \cup {site[s].weapon : s \in Site}) :
    /\ w.loaded < Def(w).perShot /\ Def(w).reloadTicks > 0 => w.reload > 0
    /\ w.loaded <= Def(w).magazine

(* Robot r, or structure s, is hostile to a shot that comes within reach of *)
(* it in this tick: as near as its body, or as the splash of the shot.     *)
Reaches(p, at, size) ==
  InFlight(p) /\ Magnitude(at - ClosestTo(at, p.at, Flown(p).at)) <= AtLeast(size, p.splash)

ReachesRobot(p, r, at) == p.faction # FactionOf[r] /\ Reaches(p, at, ChassisOfRobot(r).radius)
ReachesSite(p, s) == p.faction # SiteFaction[s] /\ Reaches(p, SiteAt[s], SiteReach)

(* Shooting is all that harms after the robots have stepped: the tick's    *)
(* shots, the robots as they stand then, and who is worse off at its end.  *)
ShotsIn(bodies) == flying \o Shots(Moved) \o TurretShots(TurretsTick(bodies))
RobotsHarmed(bodies) == {r \in robots : body'[r].hp < bodies[r].hp}
SitesHarmed == {s \in Site : site'[s].hp < site[s].hp}

(* Shooting harms foes only: whatever a shot harms is of another faction   *)
(* and was within its reach.  It would be so if an EntityId were unique     *)
(* (ids.rs:3) and numbers of two kinds were never mixed (DECISIONS.md:21);  *)
(* an impact takes a structure's for a robot's (world.rs:1044), or the      *)
(* reverse.                                                                *)
NoFriendlyFire ==
  [][clock' # clock =>
       \A stepped \in {Stepped} : \A shots \in {ToSet(ShotsIn(stepped))} :
         /\ \A r \in RobotsHarmed(stepped) : \E p \in shots : ReachesRobot(p, r, stepped[r].at)
         /\ \A s \in SitesHarmed : \E p \in shots : ReachesSite(p, s)]_battleVars

(* What holds instead: whatever a shot harms, by hitting it or by bursting *)
(* near it, bears the number of a foe that was within reach of the shot,   *)
(* robot or structure, be it dead or gone by the time the impact counts.   *)
ShotsHarmNumbersOfFoes ==
  [][clock' # clock =>
       \A stepped \in {Stepped} : \A shots \in {ToSet(ShotsIn(stepped))} :
         LET Reached(x) ==
               \E p \in shots : \/ x \in robots /\ ReachesRobot(p, x, stepped[x].at)
                                \/ x \in Site /\ ReachesSite(p, x)
         IN \A x \in RobotsHarmed(stepped) \cup SitesHarmed : Reached(x)]_battleVars
=============================================================================
