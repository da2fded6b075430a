------------------------------ MODULE Terrain -------------------------------
(***************************************************************************)
(* Where a body may be (sim-core/terrain.rs).  Positions are <<x, z>> on   *)
(* the ground, in whole units; every obstacle is taller than a jump, so    *)
(* the vertical test of a box always succeeds.  Where the code scales a    *)
(* vector the model rounds towards its origin.                             *)
(***************************************************************************)
EXTENDS Integers, SequencesExt

CONSTANTS
  MinX, MaxX, MinZ, MaxZ,  \* GreyboxTerrain
  Obstacles,       \* boxes <<x0, x1, z0, z1>> in the order they were added
  Radius, SprintSpeed      \* MovementConfig

ASSUME TerrainAssumption ==
  /\ {MinX, MaxX, MinZ, MaxZ} \subseteq Int /\ Radius \in Nat /\ SprintSpeed \in Nat \ {0}
  /\ MinX + Radius <= MaxX - Radius /\ MinZ + Radius <= MaxZ - Radius

AbsOf(n) == IF n < 0 THEN -n ELSE n
Between(v, low, high) == IF v < low THEN low ELSE IF v > high THEN high ELSE v
SquareOf(a, b) == (a[1] - b[1]) * (a[1] - b[1]) + (a[2] - b[2]) * (a[2] - b[2])

ClampToBounds(p) ==
  <<Between(p[1], MinX + Radius, MaxX - Radius), Between(p[2], MinZ + Radius, MaxZ - Radius)>>

(* A cylinder touches a box if the box's closest point is inside it.       *)
Hits(box, p) ==
  SquareOf(p, <<Between(p[1], box[1], box[2]), Between(p[2], box[3], box[4])>>) < Radius * Radius

(* Pushed out along the axis of least penetration; x only if it is less.   *)
PushedOut(box, p) ==
  LET left  == (p[1] + Radius) - box[1]
      right == box[2] - (p[1] - Radius)
      front == (p[2] + Radius) - box[3]
      back  == box[4] - (p[2] - Radius)
      alongX == IF left < right THEN -left ELSE right
      alongZ == IF front < back THEN -front ELSE back
  IN  IF ~Hits(box, p) THEN p
      ELSE IF AbsOf(alongX) < AbsOf(alongZ) THEN <<p[1] + alongX, p[2]>>
      ELSE <<p[1], p[2] + alongZ>>

ResolveMovement(p) ==
  ClampToBounds(FoldLeft(LAMBDA q, box : PushedOut(box, q), ClampToBounds(p), Obstacles))

CheckCollision(p) ==
  \/ p[1] - Radius < MinX \/ p[1] + Radius > MaxX
  \/ p[2] - Radius < MinZ \/ p[2] + Radius > MaxZ
  \/ \E i \in DOMAIN Obstacles : Hits(Obstacles[i], p)

(* The least whole number whose square is not below n.                     *)
Root(n) == CHOOSE r \in 0..n : r * r >= n /\ \A q \in 0..(r - 1) : q * q < n
Part(d, reach, dist) ==
  IF d < 0 THEN -((-d * reach) \div dist) ELSE (d * reach) \div dist

(* No further from one point towards another than a given reach.           *)
Towards(from, to, reach) ==
  IF SquareOf(from, to) <= reach * reach THEN to
  ELSE LET dist == Root(SquareOf(from, to))
       IN  <<from[1] + Part(to[1] - from[1], reach, dist),
             from[2] + Part(to[2] - from[2], reach, dist)>>
=============================================================================
