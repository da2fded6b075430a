---------------------------- MODULE Interpolation ---------------------------
(***************************************************************************)
(* How a client draws a remote entity (game-client/interpolation.rs and    *)
(* the receive_, remove_ and get_ calls of presentation.rs): it keeps the  *)
(* newest samples and draws the entity a little in the past, between two   *)
(* of them, or ahead of the last one along its velocity.  The server that  *)
(* samples a body on its way and the network that delays, repeats and      *)
(* loses what it sends are external.  A position is how far along its way. *)
(***************************************************************************)
EXTENDS Integers, SequencesExt

CONSTANTS
  SampleCapacity,     \* InterpolationBuffer::capacity
  InterpolationDelay, MaxExtrapolation,
  FullTurn,           \* headings are 0..FullTurn-1
  Paths               \* ways of a body: [position, velocity, yaw] at each time

ASSUME InterpolationAssumption ==
  /\ SampleCapacity \in Nat \ {0} /\ {InterpolationDelay, MaxExtrapolation} \subseteq Nat
  /\ FullTurn \in Nat \ {0} /\ FullTurn % 2 = 0
  /\ \A path \in Paths : \A t \in DOMAIN path :
        /\ path[t].position \in Nat /\ path[t].velocity \in Nat /\ path[t].yaw \in 0..(FullTurn - 1)
        /\ t > 1 => path[t].position >= path[t - 1].position

VARIABLES
  samples,    \* the buffer kept for the entity; <<>> if there is none
  currentTime,      \* current_time_ms, on both sides
  path,       \* the way of the body
  inFlight,   \* the samples the server has sent
  drawn       \* what the last frame drew, and whether samples covered that time

interpolationvars == <<samples, currentTime, path, inFlight, drawn>>

None == [position |-> -1, yaw |-> -1, covered |-> FALSE]

(* Fault: only a repetition is discarded, not an older sample.             *)
FreshIfOther(sample) == samples = <<>> \/ sample.at # Last(samples).at

Fresh(sample) == samples = <<>> \/ sample.at > Last(samples).at

PushSample(sample) ==
  samples' = IF ~Fresh(sample) THEN samples
             ELSE Append(IF Len(samples) >= SampleCapacity THEN Tail(samples) ELSE samples, sample)

RenderTime == IF currentTime > InterpolationDelay THEN currentTime - InterpolationDelay ELSE 0

(* The first two neighbours a time lies between.                           *)
Bracket(t) ==
  LET holds(i) == samples[i].at <= t /\ t <= samples[i + 1].at
      i == CHOOSE j \in 1..(Len(samples) - 1) : holds(j) /\ \A k \in 1..(j - 1) : ~holds(k)
  IN  <<samples[i], samples[i + 1]>>

Within(t) == samples[1].at < t /\ t < Last(samples).at

Lerp(a, b, t, from, to) == from + ((to - from) * (t - a.at)) \div (b.at - a.at)

InterpolatePosition(t) ==
  IF Within(t) THEN LET b == Bracket(t) IN Lerp(b[1], b[2], t, b[1].position, b[2].position)
  ELSE IF t <= samples[1].at THEN samples[1].position
  ELSE IF t - Last(samples).at > MaxExtrapolation THEN Last(samples).position
  ELSE Last(samples).position + Last(samples).velocity * (t - Last(samples).at)

(* The turn from one heading to another, the shorter way round.            *)
Turn(from, to) ==
  LET d == (to - from) % FullTurn IN IF d > FullTurn \div 2 THEN d - FullTurn ELSE d

InterpolateYaw(t) ==
  IF Within(t)
  THEN LET b == Bracket(t)
       IN  Lerp(b[1], b[2], t, b[1].yaw, b[1].yaw + Turn(b[1].yaw, b[2].yaw)) % FullTurn
  ELSE IF t <= samples[1].at THEN samples[1].yaw ELSE Last(samples).yaw

-----------------------------------------------------------------------------

ReceiveRemoteEntitySample(sample) ==
  PushSample(sample) /\ UNCHANGED <<currentTime, path, inFlight, drawn>>

RemoveRemoteEntity ==
  /\ samples # <<>>
  /\ samples' = <<>> /\ drawn' = None
  /\ UNCHANGED <<currentTime, path, inFlight>>

(* A frame draws the entities that have samples.                           *)
DrawFrame ==
  /\ drawn' = IF samples = <<>> THEN None
              ELSE [position |-> InterpolatePosition(RenderTime), yaw |-> InterpolateYaw(RenderTime),
                    covered |-> RenderTime <= Last(samples).at]
  /\ UNCHANGED <<samples, currentTime, path, inFlight>>

SampleAt(t) == [at |-> t] @@ path[t + 1]

(* Time passes; the server may sample the body where it then is.           *)
BodyMoves ==
  /\ currentTime + 1 < Len(path) /\ currentTime' = currentTime + 1
  /\ inFlight' \in {inFlight, inFlight \cup {SampleAt(currentTime + 1)}}
  /\ UNCHANGED <<samples, path, drawn>>

InterpolationInit ==
  /\ samples = <<>> /\ currentTime = 0 /\ drawn = None
  /\ path \in Paths /\ inFlight = {SampleAt(0)}
InterpolationNext ==
  \/ BodyMoves
  \/ DrawFrame
  \/ RemoveRemoteEntity
  \/ \E sample \in inFlight : ReceiveRemoteEntitySample(sample)
InterpolationSpec == InterpolationInit /\ [][InterpolationNext]_interpolationvars

(* However its samples arrive, a body that never goes back is not drawn    *)
(* going back after a frame whose time the samples covered (it may be if   *)
(* that frame had to guess), and between two samples it is drawn facing a  *)
(* way on the shorter turn from one to the other (interpolate_position).   *)
DrawnForward ==
  [][/\ drawn.covered /\ drawn' # None => drawn'.position >= drawn.position
     /\ drawn' # drawn /\ drawn' # None /\ Within(RenderTime) =>
          LET b == Bracket(RenderTime)
              bend(x, y) == IF Turn(x, y) < 0 THEN -Turn(x, y) ELSE Turn(x, y)
          IN  bend(b[1].yaw, drawn'.yaw) + bend(drawn'.yaw, b[2].yaw) = bend(b[1].yaw, b[2].yaw)
    ]_interpolationvars
=============================================================================
