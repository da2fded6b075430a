---------------------------- MODULE MCProduction ----------------------------
(* Two drills on one deposit and a refinery that smelts ore to steel and   *)
(* hardens steel.                                                          *)
EXTENDS Production, TLC

CONSTANTS d1, d2, refinery, ore, steel, hard, smelt, harden, vein

MCFacility == <<d1, d2, refinery>>
MCRecipesOf == refinery :> {smelt, harden}
MCInputs == (smelt :> [r \in Material |-> IF r = ore THEN 2 ELSE 0])
         @@ (harden :> [r \in Material |-> IF r = steel THEN 1 ELSE 0])
MCProduct == (smelt :> steel) @@ (harden :> hard)
MCBatch == (smelt :> 1) @@ (harden :> 1)
MCDuration == (smelt :> 3) @@ (harden :> 2)
MCOre == vein :> ore
MCInitial == vein :> 3
MCYield == vein :> 2
MCInputRoom == (d1 :> 0) @@ (d2 :> 0) @@ (refinery :> 2)
MCOutputRoom == (d1 :> 2) @@ (d2 :> 2) @@ (refinery :> 1)
MCWorth == (ore :> 1) @@ (steel :> 2) @@ (hard :> 2)

VARIABLE scene   \* what goes on: "mining" or "crafting"

(* Two drills compete for the deposit and nothing is crafted; or one drill *)
(* feeds the refinery, whose power comes and goes.                         *)
Idle(f) == facility'[f] = facility[f]
Steady(f) == supply'[f] = supply[f]
SceneInit == ProductionInit /\ scene \in {"mining", "crafting"}
SceneNext ==
  /\ ProductionNext
  /\ scene = "mining" => Idle(refinery) /\ Steady(refinery)
  /\ scene = "crafting" => Idle(d2) /\ Steady(d1)
  /\ UNCHANGED scene
SceneSpec ==
  /\ SceneInit /\ [][SceneNext]_<<productionVars, scene>>
  /\ WF_<<productionVars, scene>>(Tick /\ UNCHANGED scene)
=============================================================================
