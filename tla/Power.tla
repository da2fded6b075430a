------------------------------- MODULE Power -------------------------------
(***************************************************************************)
(* The power network: crates/sim-core/src/power.rs.  Nodes of one faction  *)
(* that reach each other form a grid; every tick a grid adds up what its   *)
(* nodes make and need, charges or drains its batteries, and hands what    *)
(* there is to its consumers by priority.  Structures keeps the nodes and  *)
(* calls these operators; n is always a table of nodes.                    *)
(*                                                                         *)
(* Abstracted: places are points on a line; a satisfaction is only told    *)
(* from one half, below which a browned-out structure stops ("Dim");       *)
(* totals and counts kept for display are left out.                        *)
(***************************************************************************)
EXTENDS Armor, FiniteSets, Sequences, SequencesExt, FiniteSetsExt, Functions

CONSTANTS
  Structure,   \* the ids of structures, in the order they are given
  Faction,
  Kind,
  PowerSpec,   \* PowerSpec[k]: makes, needs, holds, charge, discharge,
               \*   connects, spreads, relay and priority
  Place,       \* sites, all disjoint
  At           \* At[p]: where on the line p is

ASSUME PowerAssumption ==
  /\ Structure \subseteq Nat \ {0} /\ "none" \notin Faction
  /\ At \in [Place -> Int]
  /\ \A k \in Kind : PowerSpec[k].priority \in {"High", "Normal", "Low"}

NoNode == [kind |-> "none"]

(* A wall takes no part in the network.                                    *)
Passive(k) ==
  LET s == PowerSpec[k]
  IN s.makes = 0 /\ s.needs = 0 /\ s.holds = 0 /\ ~s.relay

PowerNode(k, f, p) ==
  [kind |-> k, faction |-> f, place |-> p, on |-> FALSE, stored |-> 0]

IsNode(n, i) == n[i] # NoNode
SpecOf(n, i) == PowerSpec[n[i].kind]

-----------------------------------------------------------------------------
(* Topology.                                                               *)

Distance(p, q) == AtLeast(At[p] - At[q], At[q] - At[p])

(* How far two nodes may be apart and still be connected.                  *)
Reach(s, t) ==
  CASE s.relay /\ t.relay   -> AtLeast(s.connects, t.connects)
    [] s.relay /\ ~t.relay  -> AtLeast(s.spreads, t.connects)
    [] ~s.relay /\ t.relay  -> AtLeast(t.spreads, s.connects)
    [] ~s.relay /\ ~t.relay -> AtLeast(s.spreads, t.spreads)

CanConnect(n, i, j) ==
  Distance(n[i].place, n[j].place) <= Reach(SpecOf(n, i), SpecOf(n, j))

InIdOrder(S) ==
  [k \in 1 .. Cardinality(S) |-> CHOOSE i \in S : Cardinality({j \in S : j < i}) = k - 1]

InGrid(grids, i) == \E grid \in grids : i \in Range(grid)

(* The grid of first: each visit takes the last node of the stack and      *)
(* finds those near it among the ones left.                                *)
Explored(n, first, others) ==
  LET Visit(walk, visit) ==
        IF walk.stack = <<>> THEN walk
        ELSE LET near == InIdOrder({j \in walk.left : CanConnect(n, Last(walk.stack), j)})
             IN [found |-> walk.found \o near, stack |-> Front(walk.stack) \o near,
                 left |-> walk.left \ Range(near)]
  IN FoldLeft(Visit, [found |-> <<first>>, stack |-> <<first>>, left |-> others],
              <<first>> \o InIdOrder(others)).found

(* The grids of a set of nodes of one faction, the lowest id first.        *)
Components(n, ids) ==
  FoldLeft(LAMBDA grids, i :
             IF InGrid(grids, i) THEN grids
             ELSE grids \cup {Explored(n, i, {j \in ids : j > i /\ ~InGrid(grids, j)})},
           {}, InIdOrder(ids))

Topology(n) ==
  UNION {Components(n, {i \in Structure : IsNode(n, i) /\ n[i].on /\ n[i].faction = f})
           : f \in Faction}

-----------------------------------------------------------------------------
(* One grid in one tick.  patch[f] is what research makes of generation    *)
(* and of efficiency, in thousandths.                                      *)

PatchedGeneration(kw, patch) == (kw * patch.makes) \div 1000

PatchedDemand(kw, patch) ==
  IF kw = 0 THEN 0 ELSE AtLeast((kw * 1000) \div patch.saves, 1)

(* Only nodes still in operation count.                                    *)
Total(n, grid, Amount(_)) ==
  FoldLeft(LAMBDA sum, i : sum + (IF IsNode(n, i) /\ n[i].on THEN Amount(i) ELSE 0), 0, grid)

Generation(n, grid, patch) ==
  Total(n, grid, LAMBDA i : PatchedGeneration(SpecOf(n, i).makes, patch[n[i].faction]))

Needs(n, i, patch) == PatchedDemand(SpecOf(n, i).needs, patch[n[i].faction])
Demand(n, grid, patch) == Total(n, grid, LAMBDA i : Needs(n, i, patch))
Stored(n, grid) == Total(n, grid, LAMBDA i : n[i].stored)

(* What the batteries of a grid are asked to give to cover a deficit.      *)
DischargeBudget(n, grid, patch) ==
  LET deficit == AtLeast(Demand(n, grid, patch) - Generation(n, grid, patch), 0)
      rate == Total(n, grid, LAMBDA i : SpecOf(n, i).discharge)
  IN AtMost(AtMost(deficit, rate), Stored(n, grid))

ChargeBudget(n, grid, patch) ==
  LET surplus == AtLeast(Generation(n, grid, patch) - Demand(n, grid, patch), 0)
      rate == Total(n, grid, LAMBDA i : SpecOf(n, i).charge)
      room == Total(n, grid, LAMBDA i : SpecOf(n, i).holds) - Stored(n, grid)
  IN AtMost(AtMost(surplus, rate), AtLeast(room, 0))

AvailablePower(n, grid, patch) ==
  Generation(n, grid, patch) + DischargeBudget(n, grid, patch)

(* The batteries are filled or drained in the order of the grid, each up   *)
(* to its room or its rate, until the budget is used up.                   *)
ShareOf(n, grid, i, budget, Limit(_)) ==
  LET before == Total(n, SubSeq(grid, 1, CHOOSE x \in DOMAIN grid : grid[x] = i), Limit) - Limit(i)
  IN AtMost(Limit(i), AtLeast(budget - before, 0))

StoredAfter(n, grid, i, patch) ==
  LET Takes(j) == AtMost(AtLeast(SpecOf(n, j).holds - n[j].stored, 0), SpecOf(n, j).charge)
      Gives(j) == AtMost(n[j].stored, SpecOf(n, j).discharge)
  IN n[i].stored
       + ShareOf(n, grid, i, ChargeBudget(n, grid, patch), Takes)
       - ShareOf(n, grid, i, DischargeBudget(n, grid, patch), Gives)

Tier(n, grid, priority, patch) ==
  Total(n, grid, LAMBDA i : IF SpecOf(n, i).priority = priority THEN Needs(n, i, patch) ELSE 0)

(* What is left for the consumers of a priority.                           *)
LeftFor(n, grid, priority, patch) ==
  LET all == AvailablePower(n, grid, patch)
      high == AtLeast(all - Tier(n, grid, "High", patch), 0)
  IN CASE priority = "High"   -> all
       [] priority = "Normal" -> high
       [] priority = "Low"    -> AtLeast(high - Tier(n, grid, "Normal", patch), 0)

(* The consumers of a tier share alike what the tiers above have left.     *)
PowerStatus(n, grid, i, patch) ==
  LET power == LeftFor(n, grid, SpecOf(n, i).priority, patch)
      tier == Tier(n, grid, SpecOf(n, i).priority, patch)
  IN CASE SpecOf(n, i).needs = 0 \/ power >= tier -> "Powered"
       [] OTHER -> IF power = 0 THEN "Unpowered" ELSE IF 2 * power >= tier THEN "Brownout" ELSE "Dim"

RunsOn(status) == status \in {"NotRequired", "Powered", "Brownout"}

-----------------------------------------------------------------------------
(* The tick of the network.                                                *)

GridOf(grids, i) == CHOOSE grid \in grids : i \in Range(grid)

NodesAfterTick(n, grids, patch) ==
  [i \in Structure |->
     IF IsNode(n, i) /\ n[i].on /\ InGrid(grids, i)
     THEN [n[i] EXCEPT !.stored = StoredAfter(n, GridOf(grids, i), i, patch)]
     ELSE n[i]]

StatusAfterTick(n, status, grids, patch) ==
  [i \in Structure |->
     CASE IsNode(n, i) /\ ~n[i].on -> "Unpowered"
       [] IsNode(n, i) /\ n[i].on /\ InGrid(grids, i) -> PowerStatus(n, GridOf(grids, i), i, patch)
       [] OTHER -> status[i]]

(* What a structure without an entry is told.                              *)
GetPowerStatus(n, status, i) ==
  CASE status[i] # "None" -> status[i]
    [] status[i] = "None" /\ IsNode(n, i) -> IF SpecOf(n, i).needs > 0 THEN "Unpowered" ELSE "NotRequired"
    [] OTHER -> "NotRequired"
=============================================================================
