----------------------------- MODULE Placement ------------------------------
(***************************************************************************)
(* The ground structures stand on: what StructureRegistry's request_build, *)
(* apply_damage and remove_structure make of its cells, boxes and wall     *)
(* grid (module Structures has the rest of those handlers, on places taken *)
(* as given), and the ghost with which a client previews a site               *)
(* (game-client/placement.rs).  Positions are <<x, y, z>> in quarters of a *)
(* metre, y up from the ground.                                            *)
(***************************************************************************)
EXTENDS Terrain, FiniteSets

CONSTANTS
  SiteId,            \* identifiers of structures, 1..n in the order they are given
  Buildable, HalfExtent, Height,   \* of a kind: <<x, z>> from the centre, and how tall
  Reach,           \* max_interaction_reach and PlacementGhost::max_reach
  Rotations,       \* degrees clients send
  Stands,          \* where the builder may stand
  Requested,       \* positions clients request without a ghost
  Targets          \* ground points clients aim the ghost at

ASSUME PlacementAssumption ==
  /\ SiteId \subseteq Nat /\ Reach \in Nat /\ Rotations \subseteq 0..359
  /\ Requested \subseteq (Int \X Int \X Int) /\ Targets \subseteq (Int \X Int)
  /\ "Wall" \in Buildable
  /\ \A k \in Buildable : HalfExtent[k] \in ((Nat \ {0}) \X (Nat \ {0})) /\ Height[k] \in Nat

VARIABLES
  built,        \* built[i]: [kind, at, rotation, standing], or NoSite
  reservedCells,\* cells of a metre, each with the structure it is reserved for
  wallGrid,     \* cells of two metres marked as walls: CompactWallGrid
  builder,      \* where the server has the player
  view,         \* the client's copy of the registry
  placementGhost         \* PlacementGhost: [active, kind, rotation, at, status]

placementvars == <<built, reservedCells, wallGrid, builder, view, placementGhost>>

Metre == 4
NoSite == [kind |-> "None", standing |-> FALSE]

(* Degrees to quarter turns, to the nearest.                               *)
QuarterTurns(degrees) == ((2 * (degrees % 360) + 90) \div 180) % 4

HalfExtents(kind, rotation) ==
  IF QuarterTurns(rotation) \in {1, 3} THEN <<HalfExtent[kind][2], HalfExtent[kind][1]>>
  ELSE HalfExtent[kind]

(* A footprint <<x0, x1, z0, z1>>.                                         *)
Footprint(kind, at, rotation) ==
  LET h == HalfExtents(kind, rotation)
  IN  <<at[1] - h[1], at[1] + h[1], at[3] - h[2], at[3] + h[2]>>

(* f32::round: halves go away from zero.                                   *)
Nearest(n, d) == IF n < 0 THEN -((-2 * n + d) \div (2 * d)) ELSE (2 * n + d) \div (2 * d)

ToCell(n) == Nearest(n, Metre)
Floor(n) == n \div Metre
Ceil(n) == -((-n) \div Metre)

(* Fault: the corners of a footprint are rounded to their cells.           *)
CellsRounded(box) == (ToCell(box[1])..ToCell(box[2])) \X (ToCell(box[3])..ToCell(box[4]))

Cells(box) == (Floor(box[1])..Ceil(box[2])) \X (Floor(box[3])..Ceil(box[4]))

ToGridCoords(at) == <<Nearest(at[1], 2 * Metre), Nearest(at[3], 2 * Metre)>>

Overlap(a, b) == a[1] < b[2] /\ a[2] > b[1] /\ a[3] < b[4] /\ a[4] > b[3]

FootprintOf(s) == Footprint(s.kind, s.at, s.rotation)

(* A site is tested four metres high, a structure is as tall as its kind.  *)
IntersectsAabb(s, box, floor) ==
  /\ Overlap(FootprintOf(s), box)
  /\ s.at[2] < floor + 4 * Metre /\ s.at[2] + Height[s.kind] > floor

Beyond(at, from) ==
  SquareOf(<<at[1], at[3]>>, <<from[1], from[3]>>) + (at[2] - from[2]) * (at[2] - from[2]) > Reach * Reach

OffBounds(box) ==
  box[1] < Metre * MinX \/ box[2] > Metre * MaxX \/ box[3] < Metre * MinZ \/ box[4] > Metre * MaxZ

StandingIn(sites) == {i \in SiteId : sites[i].standing}

-----------------------------------------------------------------------------
(* The server.                                                             *)

TakesSite(kind, at, rotation) ==
  LET box == Footprint(kind, at, rotation)
  IN  /\ ~Beyond(at, builder)
      /\ ~OffBounds(box)
      /\ \A c \in Cells(box) : \A r \in reservedCells : r.cell # c
      /\ \A i \in StandingIn(built) : ~IntersectsAabb(built[i], box, at[2])

RequestBuild(kind, at, rotation) ==
  \E i \in SiteId :
     /\ built[i] = NoSite /\ \A j \in SiteId : j < i => built[j] # NoSite
     /\ TakesSite(kind, at, rotation)
     /\ built' = [built EXCEPT ![i] = [kind |-> kind, at |-> at, rotation |-> rotation, standing |-> TRUE]]
     /\ reservedCells' = reservedCells \cup
          {[cell |-> c, site |-> i] : c \in Cells(Footprint(kind, at, rotation))}
     /\ wallGrid' = IF kind = "Wall" THEN wallGrid \cup {ToGridCoords(at)} ELSE wallGrid
     /\ UNCHANGED <<builder, view, placementGhost>>

FreeGround(i) ==
  /\ reservedCells' = {r \in reservedCells : r.site # i}
  /\ wallGrid' = IF built[i].kind = "Wall" THEN wallGrid \ {ToGridCoords(built[i].at)} ELSE wallGrid

(* A destroyed structure stays in the registry and gives up its ground.    *)
Destroy(i) ==
  /\ built[i].standing
  /\ built' = [built EXCEPT ![i].standing = FALSE]
  /\ FreeGround(i)
  /\ UNCHANGED <<builder, view, placementGhost>>

(* A cancelled plan, or a dismantling that has ended; its number is never  *)
(* given again.                                                            *)
RemoveStructure(i) ==
  /\ built[i].standing
  /\ built' = [built EXCEPT ![i] = [NoSite EXCEPT !.kind = "Gone"]]
  /\ FreeGround(i)
  /\ UNCHANGED <<builder, view, placementGhost>>

-----------------------------------------------------------------------------
(* The client.                                                             *)

SnapToGrid(target) ==
  <<2 * Metre * Nearest(target[1], 2 * Metre), 0, 2 * Metre * Nearest(target[2], 2 * Metre)>>

Obstructed(box) == \E k \in DOMAIN Obstacles : Overlap([e \in 1..4 |-> Metre * Obstacles[k][e]], box)

(* Fault: the preview is blocked by what once stood there.                 *)
BlockedForEver(box) == \E i \in SiteId : view[i].kind \in Buildable /\ IntersectsAabb(view[i], box, 0)

Blocked(box) == \E i \in StandingIn(view) : IntersectsAabb(view[i], box, 0)

(* What update_preview says of a snapped site, seen from where one stands. *)
Preview(kind, at, rotation, from) ==
  LET box == Footprint(kind, at, rotation)
  IN  CASE Beyond(at, from)  -> "TooFarFromPlayer"
        [] ~Beyond(at, from) /\ OffBounds(box) -> "InvalidOutOfBounds"
        [] ~Beyond(at, from) /\ ~OffBounds(box) /\ Obstructed(box) -> "BlockedByTerrain"
        [] OTHER -> IF Blocked(box) THEN "BlockedByStructure" ELSE "Valid"

UpdatePreview(target, from) ==
  /\ placementGhost.active
  /\ \E at \in {SnapToGrid(target)} :
       placementGhost' = [placementGhost EXCEPT !.at = at, !.status = Preview(placementGhost.kind, at, placementGhost.rotation, from)]
  /\ UNCHANGED <<built, reservedCells, wallGrid, builder, view>>

Handle(change) == placementGhost' = change /\ UNCHANGED <<built, reservedCells, wallGrid, builder, view>>

Activate(kind) == Handle([placementGhost EXCEPT !.active = TRUE, !.kind = kind])
Deactivate == Handle([placementGhost EXCEPT !.active = FALSE])
RotateClockwise == Handle([placementGhost EXCEPT !.rotation = (@ + 90) % 360])

(* The command is the ghost's as it is, its verdict possibly a former one. *)
CreateBuildCommand ==
  /\ placementGhost.active /\ placementGhost.status = "Valid"
  /\ RequestBuild(placementGhost.kind, placementGhost.at, placementGhost.rotation)

(* The client learns what the server's registry holds.                     *)
RefreshView == view' = built /\ UNCHANGED <<built, reservedCells, wallGrid, builder, placementGhost>>

Walk(to) == builder' = to /\ UNCHANGED <<built, reservedCells, wallGrid, view, placementGhost>>

PlacementInit ==
  /\ built = [i \in SiteId |-> NoSite] /\ view = built
  /\ reservedCells = {} /\ wallGrid = {} /\ builder \in Stands
  /\ placementGhost = [active |-> FALSE, kind |-> "Wall", rotation |-> 0, at |-> <<0, 0, 0>>, status |-> "Valid"]
GroundChanges ==
  \/ \E kind \in Buildable, at \in Requested, rotation \in Rotations : RequestBuild(kind, at, rotation)
  \/ \E i \in SiteId : Destroy(i) \/ RemoveStructure(i)
  \/ \E to \in Stands : Walk(to)
ClientActs ==
  \/ \E target \in Targets, from \in Stands : UpdatePreview(target, from)
  \/ \E kind \in Buildable : Activate(kind)
  \/ Deactivate \/ RotateClockwise \/ CreateBuildCommand \/ RefreshView
PlacementNext == GroundChanges \/ ClientActs
PlacementSpec == PlacementInit /\ [][PlacementNext]_placementvars

(* No two standing structures share ground, and each holds exactly the     *)
(* cells it covers.                                                        *)
GroundApart ==
  /\ \A i, j \in StandingIn(built) : i # j => ~Overlap(FootprintOf(built[i]), FootprintOf(built[j]))
  /\ reservedCells =
       UNION {{[cell |-> c, site |-> i] : c \in Cells(FootprintOf(built[i]))} : i \in StandingIn(built)}

(* That is so whatever was built, destroyed and dismantled, wherever and   *)
(* whichever way round, and the wall grid has one cell for every standing  *)
(* wall and no other (structure.rs:577, 636, 888, 957).                    *)
SitesApart ==
  LET walls == {i \in StandingIn(built) : built[i].kind = "Wall"}
  IN  /\ GroundApart
      /\ wallGrid = {ToGridCoords(built[i].at) : i \in walls}
      /\ \A i, j \in walls : i # j => ToGridCoords(built[i].at) # ToGridCoords(built[j].at)

(* A preview of what the registry holds, seen from where the builder is,   *)
(* never turns down for distance, bounds or a structure a site the server  *)
(* would take: the ghost may promise too much, never too little            *)
(* (update_preview against request_build).                                 *)
PreviewCautious ==
  view = built =>
    \A target \in Targets, kind \in Buildable :
       \E at \in {SnapToGrid(target)} :
          TakesSite(kind, at, placementGhost.rotation) =>
             Preview(kind, at, placementGhost.rotation, builder) \in {"Valid", "BlockedByTerrain"}

(* Registry, ground and ghost agree, whatever was built, lost and walked.  *)
PlacementAgrees == SitesApart /\ PreviewCautious
=============================================================================
