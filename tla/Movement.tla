------------------------------ MODULE Movement ------------------------------
(***************************************************************************)
(* What the server makes of the positions a client reports: Command::Move  *)
(* in dispatch.rs, RobotRegistry::apply_player_move.  Speeds are per tick. *)
(***************************************************************************)
EXTENDS Terrain

CONSTANTS
  PlayerMaxSpeed,  \* RobotConfig::player_max_speed
  ValidatorCap,    \* ticks of travel validate_authoritative_movement allows: half a second
  CatchUpCap,      \* ticks of travel apply_player_move allows: one second
  Requests,        \* positions clients report; NoPosition stands for those that are none
  NoPosition,
  Spawn,           \* where the avatar appears
  MaxMoveTick      \* bound: ticks of a behaviour

ASSUME MovementAssumption ==
  /\ PlayerMaxSpeed \in Nat \ {0}
  /\ ValidatorCap \in Nat \ {0} /\ CatchUpCap \in Nat \ {0}

VARIABLES
  avatar,      \* PlayerPresence::position, the authoritative one
  updatedAt,   \* PlayerPresence::last_update_tick
  moveTick     \* WorldState::tick

movevars == <<avatar, updatedAt, moveTick>>

(* Every accepted update allows at least one step of travel.               *)
Elapsed == Between(moveTick - updatedAt, 1, CatchUpCap)

ValidatorReach ==
  (11 * SprintSpeed * (IF Elapsed < ValidatorCap THEN Elapsed ELSE ValidatorCap)) \div 10

ValidateMovement(previous, requested) ==
  ResolveMovement(Towards(previous, requested, ValidatorReach))

(* Fault: travel is allowed for from the start of the match.               *)
AllowanceSinceStart == PlayerMaxSpeed * Between(moveTick, 1, CatchUpCap)

Allowance == PlayerMaxSpeed * Elapsed

ApplyPlayerMove(reported) ==
  /\ avatar' = Towards(avatar, reported, Allowance)
  /\ updatedAt' = moveTick

Move(requested) ==
  /\ requested # NoPosition
  /\ ApplyPlayerMove(ValidateMovement(avatar, requested))
  /\ UNCHANGED moveTick

MoveTick == moveTick < MaxMoveTick /\ moveTick' = moveTick + 1 /\ UNCHANGED <<avatar, updatedAt>>

MoveInit == avatar = Spawn /\ updatedAt = 0 /\ moveTick = 0
MoveNext == MoveTick \/ \E p \in Requests : Move(p)
MoveSpec == MoveInit /\ [][MoveNext]_movevars

(* Whatever a client reports and however its packets bunch, its avatar     *)
(* stays inside the play area and covers, over any update, no more than    *)
(* its top speed over the ticks since the one before; and, where obstacles *)
(* stand clear of one another and of the edges, it ends inside one only if *)
(* the second clamp cut short the way on which the first had just been     *)
(* pushed out of it (terrain.rs, robot.rs:469).                            *)
AvatarKeepsPace ==
  [][avatar' # avatar =>
       LET steps == IF moveTick = updatedAt THEN 1 ELSE moveTick - updatedAt
           pace == PlayerMaxSpeed * PlayerMaxSpeed * steps * steps
       IN  /\ avatar' = ClampToBounds(avatar')
           /\ SquareOf(avatar, avatar') <= pace
           /\ CheckCollision(avatar') =>
                \E p \in Requests \ {NoPosition} : SquareOf(avatar, ValidateMovement(avatar, p)) > pace]_movevars
=============================================================================
