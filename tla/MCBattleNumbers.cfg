\* Robots and structures that share a number.
SPECIFICATION SceneSpec
CONSTANTS
  Chassis <- MCChassis
  WeaponDef <- MCWeaponDef
  MinApproach = 250
  Robot = {1, 2, 3, 4}
  Player = {"ann", "bob"}
  FactionOf <- MCFactionOf
  ChassisOf <- MCChassisOf
  PlayerFaction <- MCPlayerFaction
  Avatar <- MCAvatar
  Start <- MCStart
  Squad = {1, 2}
  Orders <- MCOrders
  Blows <- MCBlows
  Ground = {0, 4}
  BaseEscortCap = 1
  MaxEscortCap = 2
  AttackStandoff = 2
  Spacing = 1
  PlayerStep = 1
  CatchUp = 1
  Site = {1, 7}
  SiteFaction <- MCSiteFaction
  SiteAt <- MCSiteAt
  SiteHealth <- MCSiteHealth
  SiteReach = 0
  Turret <- MCTurret
  FireRate <- MCRate
  DamageRate <- MCRate
  MaxTick = 6
PROPERTY NoFriendlyFire
CHECK_DEADLOCK FALSE
