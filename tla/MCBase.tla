------------------------------- MODULE MCBase -------------------------------
(* A base: its structures and their power, and its laboratories; one of     *)
(* the two works while the other stands still.                             *)
EXTENDS Structures, MCResearch

Node(makes, needs, holds, reach, relay, priority) ==
  [makes |-> makes, needs |-> needs, holds |-> holds, charge |-> 1, discharge |-> 1,
   connects |-> 2 * reach, spreads |-> reach, relay |-> relay, priority |-> priority]
MCKind == {"Generator", "Battery", "Pylon", "Turret", "Depot", "MiningDrill", "Wall"}
MCPowerSpec == [k \in MCKind |->
  CASE k = "Generator"   -> Node(2, 0, 0, 1, FALSE, "Normal")
    [] k = "Battery"     -> Node(0, 0, 1, 1, FALSE, "Normal")
    [] k = "Pylon"       -> Node(0, 1, 0, 1, TRUE, "High")
    [] k = "Turret"      -> Node(0, 1, 0, 0, FALSE, "High")
    [] k = "MiningDrill" -> Node(0, 2, 0, 0, FALSE, "Normal")
    [] k = "Depot"       -> Node(0, 1, 0, 0, FALSE, "Low")
    [] k = "Wall"        -> Node(0, 0, 0, 0, FALSE, "Normal")]
MCPlace == {"a", "b", "c"}
MCAt == [p \in MCPlace |-> CASE p = "a" -> 0 [] p = "b" -> 1 [] p = "c" -> 2]
MCPlan == <<{<<"Generator", "red", "a">>},
            {<<"Battery", "red", "b">>, <<"Pylon", "red", "b">>, <<"Wall", "blue", "b">>},
            {<<"Depot", "red", "b">>, <<"MiningDrill", "red", "c">>}>>
MCMaxHealth == [k \in MCKind |-> CASE k = "MiningDrill" -> 4 [] k = "Wall" -> 2 [] OTHER -> 1]
MCBuildCost == [k \in MCKind |-> IF k \in {"Wall", "Depot"} THEN 1 ELSE 0]
MCWallArmour == [flat |-> 1, percent |-> 0]
MCBlow == {Blunt(2)}
MCPatches == {[makes |-> 1500, saves |-> 1000, repairs |-> 1000]}

VARIABLE part   \* "structures" or "research"

BaseInit ==
  /\ StructuresInit /\ ResearchInit /\ part \in {"structures", "research"}
  /\ tree[1] = {}   \* the second technology may need the first
  /\ part = "structures" => tree[2] = {}
BaseNext ==
  /\ UNCHANGED part
  /\ \/ part = "structures" /\ UNCHANGED researchVars /\ StructuresNext
     \/ part = "research" /\ UNCHANGED structVars /\ ResearchNext
BaseSpec == BaseInit /\ [][BaseNext]_<<structVars, researchVars, part>>
=============================================================================
