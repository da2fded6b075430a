------------------------------ MODULE MCStores -------------------------------
(* What is stored and what is made of it: an unowned depot of three slots  *)
(* and a silo of two slots owned by one faction, ore (raw) stacking by two *)
(* and steel by one; or the drills and the refinery.  One of the two works *)
(* while the other stands still.                                           *)
EXTENDS Inventory, MCProduction

CONSTANTS depot, silo, f1, f2

MCOwner == (depot :> NoFaction) @@ (silo :> f1)
MCMaxSlots == (depot :> 3) @@ (silo :> 2)
MCMaxVolume == (depot :> 5) @@ (silo :> 3)
MCStackLimit == [r \in Resource |-> IF r = ore THEN 2 ELSE 1]
MCUnitVolume == [r \in Resource |-> 1]

VARIABLE part   \* "containers" or "machines"

StoresInit ==
  /\ Init /\ SceneInit /\ part \in {"containers", "machines"}
  /\ part = "containers" => scene = "crafting"
StoresNext ==
  /\ UNCHANGED part
  /\ \/ part = "containers" /\ UNCHANGED <<productionVars, scene>> /\ Next
     \/ part = "machines" /\ UNCHANGED vars /\ SceneNext
StoresSpec ==
  /\ StoresInit /\ [][StoresNext]_<<vars, productionVars, scene, part>>
  /\ WF_<<productionVars, scene, part>>(part = "machines" /\ Tick /\ UNCHANGED <<scene, part>>)
=============================================================================
