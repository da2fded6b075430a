\* What a match is made of: battles, sight and supervision, regions.
SPECIFICATION FieldSpec
CONSTANTS
  Chassis <- MCChassis
  WeaponDef <- MCWeaponDef
  MinApproach = 250
  Robot = {1, 2, 3, 4}
  Player = {"ann", "bob"}
  FactionOf <- MCFactionOf
  ChassisOf <- MCChassisOf
  PlayerFaction <- MCPlayerFaction
  Avatar <- MCAvatar
  Start <- MCStart
  Squad = {1, 2}
  Orders <- MCOrders
  Blows <- MCBlows
  Ground = {0, 4}
  BaseEscortCap = 1
  MaxEscortCap = 2
  AttackStandoff = 2
  Spacing = 1
  PlayerStep = 1
  CatchUp = 1
  Site = {1, 7}
  SiteFaction <- MCSiteFaction
  SiteAt <- MCSiteAt
  SiteHealth <- MCSiteHealth
  SiteReach = 0
  Turret <- MCTurret
  FireRate <- MCRate
  DamageRate <- MCRate
  MaxTick = 6
  f1 = f1
  f2 = f2
  s1 = s1
  Faction = {f1, f2}
  Neutral = Neutral
  Place <- MCPlace
  Unit = {1, 2}
  Commander = {3}
  Structure = {2}
  Allegiance <- MCAllegiance
  Owner <- MCOwner
  StandsAt <- MCStandsAt
  CellSize = 2
  Width = 3
  UnitRadius = 1
  AvatarRadius = 2
  StructureRadius = 2
  TopHealth = 2
  SessionId = {s1}
  PlaysFor <- MCPlaysFor
  ActorOf <- MCActorOf
  ServerPolicy = "PrivateCustom"
  NoManifest = NoManifest
  Manifest <- MCManifest
  ServerManifest <- MCServerManifest
  AcceptedManifest = NoManifest
  SuspicionWeight <- MCWeight
  ProbationAfter = 1
  TrustedAfter = 2
  FlagThreshold = 4
  BanThreshold = 8
  Decay = 1
  BanOnCritical = TRUE
  MaxSpeed = 1
  MaxTeleport = 1
  MaxReach = 2
  MinFireInterval = 1
  MaxLead = 1
  MaxTransfer = 5
  FloodWindow = 1
  FloodLimit = 2
  MaxRotation = 1
  Balance <- MCBalance
  Ammo <- MCAmmo
  OutOfBounds <- MCOutOfBounds
  Instruction <- MCInstruction
  MaxWatch = 2
  r1 = r1
  r2 = r2
  r3 = r3
  p1 = p1
  RegionId = {r1, r2, r3}
  NullRegion = NullRegion
  Party = {p1}
  NullParty = NullParty
  InitialState <- MCInitialState
  DefaultCapacity = 1
  MediumInterval = 2
  MaxWakeups = 1
  MaxEntities = 2
  MaxMail = 3
  MaxRegionTick = 3
  Packets <- AllPackets
  MaxSent = 2
  MaxFaults = 1
  Foreign <- MCForeign
  MinX <- MCMinX
  MaxX = 30
  MinZ <- MCMinZ
  MaxZ = 12
  Obstacles <- MCObstacles
  Radius = 1
  SprintSpeed = 10
  PlayerMaxSpeed = 10
  ValidatorCap = 2
  CatchUpCap = 4
  Requests <- MCRequests
  NoPosition = NoPosition
  Spawn <- MCSpawn
  MaxMoveTick = 4
  WalkSpeed = 5
  Acceleration = 4
  Deceleration = 6
  JumpVelocity = 2
  Gravity = 1
  MinDelta = 1
  MaxDelta = 3
  HistoryCapacity = 3
  Keys <- MCKeys
  Entry <- MCEntry
  Pushes <- MCPushes
  MaxFrames = 4
  SampleCapacity = 3
  InterpolationDelay = 2
  MaxExtrapolation = 1
  FullTurn = 8
  Paths <- MCPaths
  SiteId = {1, 2, 3}
  Buildable = {"Wall", "Turret"}
  HalfExtent <- MCHalfExtent
  Height <- MCHeight
  Reach = 60
  Rotations = {0, 80}
  Stands <- MCStands
  Requested <- MCRequested
  Targets <- MCTargets
INVARIANTS RostersAgree WeaponsRecover GhostsMatchSight StandingConsistent RegionsAgree NoMessageGoesStale PacketsSurvive PlacementAgrees
PROPERTIES RegroupIsWhole ShotsHarmNumbersOfFoes NothingForgotten AvatarKeepsPace PredictionTracks DrawnForward
CHECK_DEADLOCK FALSE
