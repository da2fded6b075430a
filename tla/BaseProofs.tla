----------------------------- MODULE BaseProofs -----------------------------
(***************************************************************************)
(* Theorems about a base, for any structures, costs, technologies,         *)
(* laboratories and limits.  Of Structures: its registers stay in          *)
(* agreement.  Of Research: nothing is researched before what it rests on, *)
(* materials are locked once and for a job that is queued, and spent once. *)
(***************************************************************************)
EXTENDS Structures, Research, Induction, TLAPS

-----------------------------------------------------------------------------
(* The registers of the structures.                                        *)

StructureStates == {"Planned", "UnderConstruction", "Constructed", "Dismantling", "Destroyed"}
Built(s) ==
  s \in [kind : Kind, faction : Faction, place : Place, state : StructureStates,
         left : {s.left}, hp : {s.hp}, power : {s.power}]
Node(n) ==
  n \in [kind : {n.kind}, faction : {n.faction}, place : {n.place}, on : {n.on}, stored : {n.stored}]

RegisterTypes ==
  /\ structure = [i \in Structure |-> structure[i]]
  /\ node = [i \in Structure |-> node[i]]
  /\ reserved = [p \in Place |-> reserved[p]] /\ wall = [p \in Place |-> wall[p]]
  /\ nextId \in Nat \ {0}
  /\ \A i \in Structure : /\ structure[i] = NoStructure \/ Built(structure[i])
                          /\ node[i] = NoNode \/ Node(node[i])
                          /\ i >= nextId => structure[i] = NoStructure
  /\ \A p \in Place : reserved[p] \in Structure \cup {0}

(* The registers of one structure and of one site.                         *)
OneStructure(i) ==
  /\ IsNode(node, i) <=> Standing(i) /\ ~Passive(structure[i].kind)
  /\ IsNode(node, i) /\ node[i].on => i \in finished
  /\ i \in facility <=> Exists(i) /\ HasFacility(structure[i].kind)
WallAt(p, f, i) == StandingAt(p, i) /\ structure[i].kind = "Wall" /\ structure[i].faction = f
OneSite(p) ==
  /\ \A i \in Structure : reserved[p] = i <=> StandingAt(p, i)
  /\ \A f \in Faction : wall[p] = f <=> \E i \in Structure : WallAt(p, f, i)

RegisterInv ==
  /\ RegisterTypes
  /\ \A i \in Structure : OneStructure(i)
  /\ \A p \in Place : OneSite(p)

LEMMA RegistersDoAgree == RegisterInv => RegistersAgree
  BY DEF RegisterInv, RegistersAgree, OneStructure, OneSite, WallAt

LEMMA NotNone ==
  /\ \A s : Built(s) => s # NoStructure
  /\ \A n : Node(n) => n # NoNode
  <1>1. ASSUME NEW s, Built(s) PROVE s # NoStructure
    <2>1. s.state # "None"
      BY <1>1 DEF Built, StructureStates
    <2> QED
      BY <2>1 DEF NoStructure
  <1>2. ASSUME NEW n, Node(n) PROVE n # NoNode
    <2>1. "on" \in DOMAIN n
      BY <1>2 DEF Node
    <2>2. "on" \notin DOMAIN NoNode
      BY DEF NoNode
    <2> QED
      BY <2>1, <2>2
  <1> QED
    BY <1>1, <1>2

-----------------------------------------------------------------------------
LEMMA RegistersInitially == StructuresInit => RegisterInv
  <1> SUFFICES ASSUME StructuresInit PROVE RegisterInv
    OBVIOUS
  <1>1. RegisterTypes
    BY PowerAssumption DEF StructuresInit, RegisterTypes
  <1>2. \A i \in Structure : OneStructure(i)
    BY DEF StructuresInit, OneStructure, IsNode, Standing, Exists
  <1>3. \A p \in Place : OneSite(p)
    <2> SUFFICES ASSUME NEW p \in Place PROVE OneSite(p)
      OBVIOUS
    <2>1. \A i \in Structure : ~StandingAt(p, i) /\ i # 0
      BY PowerAssumption DEF StructuresInit, StandingAt, Standing, Exists
    <2>2. reserved[p] = 0 /\ wall[p] = "none" /\ "none" \notin Faction
      BY PowerAssumption DEF StructuresInit
    <2> QED
      BY <2>1, <2>2 DEF OneSite, WallAt
  <1> QED
    BY <1>1, <1>2, <1>3 DEF RegisterInv

(* A building that stays: whatever else changes, what it is, where, whose  *)
(* and whether it was destroyed does not.                                  *)
Stays(i) ==
  IF structure[i] = NoStructure THEN structure'[i] = NoStructure
  ELSE /\ Built(structure'[i])
       /\ structure'[i].kind = structure[i].kind /\ structure'[i].faction = structure[i].faction
       /\ structure'[i].place = structure[i].place
       /\ structure'[i].state = "Destroyed" <=> structure[i].state = "Destroyed"
(* Its node stays too, and is switched on by its completion only.          *)
NodeStays(i) ==
  IF node[i] = NoNode THEN node'[i] = NoNode
  ELSE Node(node'[i]) /\ (node'[i].on => node[i].on \/ i \in finished')
(* A building that leaves: nothing stands there, and its facility goes     *)
(* with its record.                                                        *)
Leaves(i) ==
  /\ Standing(i)
  /\ \/ structure'[i] = NoStructure /\ i \notin facility'
     \/ Built(structure'[i]) /\ structure'[i].state = "Destroyed"
        /\ structure'[i].kind = structure[i].kind /\ (i \in facility' <=> i \in facility)
  /\ node'[i] = NoNode

(* A step in which some buildings leave, with all that is released, and    *)
(* all the others stay.                                                    *)
Leaving(ids) ==
  /\ structure' = [i \in Structure |-> structure'[i]]
  /\ node' = [i \in Structure |-> node'[i]]
  /\ reserved' = [p \in Place |-> reserved'[p]] /\ wall' = [p \in Place |-> wall'[p]]
  /\ nextId' = nextId /\ finished \subseteq finished'
  /\ \A i \in Structure :
       IF i \in ids THEN Leaves(i)
       ELSE Stays(i) /\ NodeStays(i) /\ (i \in facility' <=> i \in facility)
  /\ \A p \in Place :
       /\ reserved'[p] = IF reserved[p] \in ids THEN 0 ELSE reserved[p]
       /\ wall'[p] = IF \E i \in ids : structure[i].kind = "Wall" /\ structure[i].place = p
                     THEN "none" ELSE wall[p]

LEMMA LeavingKeeps ==
  ASSUME RegisterInv, NEW ids \in SUBSET Structure, Leaving(ids)
  PROVE  RegisterInv'
  <1>1. RegisterTypes /\ (\A i \in Structure : OneStructure(i)) /\ \A p \in Place : OneSite(p)
    BY DEF RegisterInv
  <1>2. ASSUME NEW i \in Structure
        PROVE /\ structure'[i] = NoStructure \/ Built(structure'[i])
              /\ node'[i] = NoNode \/ Node(node'[i])
              /\ i >= nextId => structure'[i] = NoStructure
    BY <1>1, NotNone DEF Leaving, Leaves, Stays, NodeStays, RegisterTypes, Standing, Exists
  <1>3. RegisterTypes'
    BY <1>1, <1>2 DEF Leaving, RegisterTypes
  <1>4. ASSUME NEW i \in Structure
        PROVE  /\ Standing(i)' <=> Standing(i) /\ i \notin ids
               /\ i \notin ids /\ Standing(i) => structure'[i].place = structure[i].place
               /\ i \notin ids /\ Standing(i) => structure'[i].kind = structure[i].kind
               /\ i \notin ids /\ Standing(i) => structure'[i].faction = structure[i].faction
    <2>1. CASE i \in ids
      BY <1>1, <2>1, NotNone DEF Leaving, Leaves, RegisterTypes, Standing, Exists, Is
    <2>2. CASE i \notin ids
      BY <1>1, <2>2, NotNone DEF Leaving, Stays, RegisterTypes, Standing, Exists, Is
    <2> QED
      BY <2>1, <2>2
  <1>5. ASSUME NEW i \in Structure PROVE OneStructure(i)'
    <2>1. CASE i \in ids
      BY <1>1, <1>4, <2>1, NotNone DEF Leaving, Leaves, RegisterTypes, OneStructure, Standing, Exists, Is, IsNode
    <2>2. CASE i \notin ids
      <3>1. (IsNode(node, i) <=> Standing(i) /\ ~Passive(structure[i].kind))'
        BY <1>1, <1>4, <2>2, NotNone DEF Leaving, NodeStays, OneStructure, IsNode
      <3>2. (IsNode(node, i) /\ node[i].on => i \in finished)'
        BY <1>1, <2>2, NotNone DEF Leaving, NodeStays, OneStructure, IsNode
      <3>3. (i \in facility <=> Exists(i) /\ HasFacility(structure[i].kind))'
        BY <1>1, <2>2, NotNone DEF Leaving, Stays, OneStructure, Exists
      <3> QED
        BY <3>1, <3>2, <3>3 DEF OneStructure
    <2> QED
      BY <2>1, <2>2
  <1>6. ASSUME NEW p \in Place PROVE OneSite(p)'
    <2>1. ASSUME NEW i \in Structure PROVE StandingAt(p, i)' <=> StandingAt(p, i) /\ i \notin ids
      BY <1>4 DEF StandingAt
    <2>2. ASSUME NEW i \in Structure PROVE reserved'[p] = i <=> StandingAt(p, i)'
      <3>1. i # 0
        BY PowerAssumption
      <3>2. reserved[p] = i <=> StandingAt(p, i)
        BY <1>1 DEF OneSite
      <3> QED
        BY <2>1, <3>1, <3>2 DEF Leaving
    <2>3. ASSUME NEW f \in Faction
          PROVE wall'[p] = f <=> \E i \in Structure : WallAt(p, f, i)'
      <3>1. wall[p] = f <=> \E i \in Structure : WallAt(p, f, i)
        BY <1>1 DEF OneSite
      <3>2. CASE \E i \in ids : structure[i].kind = "Wall" /\ structure[i].place = p
        <4>1. PICK i \in ids : structure[i].kind = "Wall" /\ structure[i].place = p
          BY <3>2
        <4>2. StandingAt(p, i)
          BY <4>1 DEF Leaving, Leaves, StandingAt
        <4>3. ASSUME NEW j \in Structure PROVE ~StandingAt(p, j)'
          BY <1>1, <2>1, <4>1, <4>2 DEF OneSite
        <4>4. wall'[p] = "none" /\ "none" \notin Faction
          BY <3>2, PowerAssumption DEF Leaving
        <4> QED
          BY <4>3, <4>4 DEF WallAt
      <3>3. CASE ~\E i \in ids : structure[i].kind = "Wall" /\ structure[i].place = p
        <4>1. ASSUME NEW i \in Structure PROVE WallAt(p, f, i)' <=> WallAt(p, f, i)
          BY <1>4, <2>1, <3>3 DEF WallAt, StandingAt
        <4>2. wall'[p] = wall[p]
          BY <3>3 DEF Leaving
        <4> QED
          BY <3>1, <4>1, <4>2
      <3> QED
        BY <3>2, <3>3
    <2> QED
      BY <2>2, <2>3 DEF OneSite, WallAt, StandingAt, Standing, Exists, Is
  <1> QED
    BY <1>3, <1>5, <1>6 DEF RegisterInv

-----------------------------------------------------------------------------
(* A new building is the only one of its site.                             *)
LEMMA BuildKeeps ==
  ASSUME RegisterInv, NEW kind \in Kind, NEW faction \in Faction, NEW place \in Place,
         RequestBuild(kind, faction, place)
  PROVE  RegisterInv'
  <1> DEFINE new == Planned(kind, faction, place)
  <1>1. RegisterTypes /\ (\A j \in Structure : OneStructure(j)) /\ \A p \in Place : OneSite(p)
    BY DEF RegisterInv
  <1>2. PICK i \in Structure :
        /\ i = nextId /\ i \in Nat \ {0}
        /\ Free(place)
        /\ nextId' = i + 1 /\ finished' = finished
        /\ reserved' = [reserved EXCEPT ![place] = i]
        /\ structure' = [structure EXCEPT ![i] = new]
        /\ node' = IF Passive(kind) THEN node
                   ELSE [node EXCEPT ![i] = PowerNode(kind, faction, place)]
        /\ wall' = IF kind = "Wall" THEN [wall EXCEPT ![place] = faction] ELSE wall
        /\ facility' = IF HasFacility(kind) THEN facility \cup {i} ELSE facility
    BY <1>1, Zenon DEF RequestBuild, RegisterTypes
  <1>3. Built(new) /\ new.state = "Planned" /\ new.kind = kind /\ new.faction = faction /\ new.place = place
    BY DEF Built, Planned, StructureStates
  <1>4. Node(PowerNode(kind, faction, place)) /\ ~PowerNode(kind, faction, place).on
    BY DEF Node, PowerNode
  <1>5. structure[i] = NoStructure /\ node[i] = NoNode /\ i \notin facility
    BY <1>1, <1>2 DEF RegisterTypes, OneStructure, Standing, Exists, IsNode
  <1> HIDE DEF new
  <1>6. /\ structure' = [j \in Structure |-> structure'[j]]
        /\ structure'[i] = new /\ \A j \in Structure : j # i => structure'[j] = structure[j]
    BY <1>1, <1>2 DEF RegisterTypes
  <1>7. /\ node' = [j \in Structure |-> node'[j]]
        /\ node'[i] = IF Passive(kind) THEN NoNode ELSE PowerNode(kind, faction, place)
        /\ \A j \in Structure : j # i => node'[j] = node[j]
    BY <1>1, <1>2, <1>5 DEF RegisterTypes
  <1>8. /\ reserved' = [p \in Place |-> reserved'[p]] /\ wall' = [p \in Place |-> wall'[p]]
        /\ \A p \in Place : reserved'[p] = IF p = place THEN i ELSE reserved[p]
        /\ \A p \in Place : wall'[p] = IF kind = "Wall" /\ p = place THEN faction ELSE wall[p]
    BY <1>1, <1>2, Zenon DEF RegisterTypes
  <1>9. RegisterTypes'
    <2>1. \A j \in Structure : structure'[j] = NoStructure \/ Built(structure'[j])
      BY <1>1, <1>3, <1>6 DEF RegisterTypes
    <2>2. \A j \in Structure : node'[j] = NoNode \/ Node(node'[j])
      BY <1>1, <1>4, <1>7 DEF RegisterTypes
    <2>3. \A j \in Structure : j >= nextId' => structure'[j] = NoStructure
      <3> SUFFICES ASSUME NEW j \in Structure, j >= nextId' PROVE structure'[j] = NoStructure
        OBVIOUS
      <3>1. j \in Nat
        BY PowerAssumption
      <3>2. j # i /\ j >= nextId
        BY <1>2, <3>1
      <3> QED
        BY <1>1, <1>6, <3>2 DEF RegisterTypes
    <2>4. nextId' \in Nat \ {0} /\ \A p \in Place : reserved'[p] \in Structure \cup {0}
      BY <1>1, <1>2, <1>8 DEF RegisterTypes
    <2> QED
      BY <1>6, <1>7, <1>8, <2>1, <2>2, <2>3, <2>4 DEF RegisterTypes
  <1>10. ASSUME NEW j \in Structure PROVE OneStructure(j)'
    <2>1. CASE j = i
      BY <1>2, <1>3, <1>4, <1>5, <1>6, <1>7, <2>1, NotNone DEF OneStructure, Standing, Exists, Is, IsNode
    <2>2. CASE j # i
      BY <1>1, <1>2, <1>6, <1>7, <2>2 DEF OneStructure, Standing, Exists, Is, IsNode
    <2> QED
      BY <2>1, <2>2
  <1>11. /\ Standing(i)' /\ structure'[i].place = place
         /\ \A j \in Structure : j # i => (Standing(j)' <=> Standing(j))
         /\ ~Standing(i)
    BY <1>2, <1>3, <1>5, <1>6, NotNone DEF Standing, Exists, Is
  <1>12. \A j \in Structure : ~StandingAt(place, j)
    BY <1>2 DEF Free, StandingAt, Standing
  <1>13. ASSUME NEW p \in Place PROVE OneSite(p)'
    <2>1. CASE p = place
      <3>1. \A j \in Structure : StandingAt(p, j)' <=> j = i
        BY <1>2, <1>6, <1>11, <1>12, <2>1 DEF StandingAt
      <3>2. \A j \in Structure : reserved'[p] = j <=> StandingAt(p, j)'
        BY <1>8, <2>1, <3>1
      <3>3. ASSUME NEW f \in Faction PROVE wall'[p] = f <=> \E j \in Structure : WallAt(p, f, j)'
        <4>1. wall[p] # f
          BY <1>1, <1>12, <2>1 DEF OneSite, WallAt
        <4>2. (\E j \in Structure : WallAt(p, f, j)') <=> WallAt(p, f, i)'
          BY <1>2, <3>1 DEF WallAt
        <4>3. WallAt(p, f, i)' <=> kind = "Wall" /\ faction = f
          BY <1>2, <1>3, <1>6, <3>1 DEF WallAt
        <4> QED
          BY <1>8, <2>1, <4>1, <4>2, <4>3
      <3> QED
        BY <3>2, <3>3 DEF OneSite, WallAt, StandingAt, Standing, Exists, Is
    <2>2. CASE p # place
      <3>1. \A j \in Structure : StandingAt(p, j)' <=> StandingAt(p, j)
        BY <1>6, <1>11, <2>2 DEF StandingAt
      <3>2. \A j \in Structure : reserved'[p] = j <=> StandingAt(p, j)'
        BY <1>1, <1>8, <2>2, <3>1 DEF OneSite
      <3>3. ASSUME NEW f \in Faction PROVE wall'[p] = f <=> \E j \in Structure : WallAt(p, f, j)'
        <4>1. \A j \in Structure : WallAt(p, f, j)' <=> WallAt(p, f, j)
          BY <1>6, <1>11, <3>1 DEF WallAt, StandingAt
        <4> QED
          BY <1>1, <1>8, <2>2, <4>1 DEF OneSite
      <3> QED
        BY <3>2, <3>3 DEF OneSite, WallAt, StandingAt, Standing, Exists, Is
    <2> QED
      BY <2>1, <2>2
  <1> QED
    BY <1>9, <1>10, <1>13 DEF RegisterInv

(* A step that rewrites one building, and at most switches on its node.    *)
LEMMA RewriteKeeps ==
  ASSUME RegisterInv, NEW i \in Structure, NEW s, structure[i] # NoStructure,
         Built(s), s.kind = structure[i].kind, s.faction = structure[i].faction,
         s.place = structure[i].place, s.state = "Destroyed" <=> structure[i].state = "Destroyed",
         structure' = [structure EXCEPT ![i] = s],
         node' \in {node, SwitchedOn(node, {i})}, node' # node => i \in finished',
         finished \subseteq finished',
         UNCHANGED <<reserved, wall, facility, nextId>>
  PROVE  RegisterInv'
  <1>1. RegisterTypes
    BY DEF RegisterInv
  <1>2. /\ structure' = [j \in Structure |-> structure'[j]]
        /\ structure'[i] = s /\ \A j \in Structure : j # i => structure'[j] = structure[j]
    BY <1>1 DEF RegisterTypes
  <1>3. node' = [j \in Structure |-> node'[j]]
    BY <1>1 DEF RegisterTypes, SwitchedOn
  <1>4. ASSUME NEW j \in Structure PROVE NodeStays(j)
    <2>1. CASE node' = node
      BY <1>1, <2>1 DEF RegisterTypes, NodeStays
    <2>2. CASE node' = SwitchedOn(node, {i}) /\ node' # node
      <3>1. node'[j] = IF j = i /\ node[j] # NoNode THEN [node[j] EXCEPT !.on = TRUE] ELSE node[j]
        BY <2>2 DEF SwitchedOn, IsNode
      <3>2. node[j] # NoNode => Node([node[j] EXCEPT !.on = TRUE])
        BY <1>1, Zenon DEF RegisterTypes, Node
      <3> QED
        BY <1>1, <2>2, <3>1, <3>2 DEF RegisterTypes, NodeStays
    <2> QED
      BY <2>1, <2>2
  <1>5. ASSUME NEW j \in Structure PROVE Stays(j)
    BY <1>1, <1>2 DEF RegisterTypes, Stays
  <1>6. Leaving({})
    BY <1>1, <1>2, <1>3, <1>4, <1>5 DEF Leaving, RegisterTypes
  <1> QED
    BY <1>6, LeavingKeeps

LEMMA StartConstructionKeeps ==
  ASSUME RegisterInv, NEW i \in Structure, StartConstruction(i)
  PROVE  RegisterInv'
  <1> DEFINE s == [structure[i] EXCEPT !.state = "UnderConstruction", !.left = BuildTicks]
  <1>1. Built(structure[i]) /\ structure[i] # NoStructure /\ structure[i].state = "Planned"
    BY NotNone DEF RegisterInv, RegisterTypes, StartConstruction, Is, NoStructure
  <1>2. /\ Built(s) /\ s.kind = structure[i].kind /\ s.faction = structure[i].faction
        /\ s.place = structure[i].place /\ s.state = "UnderConstruction"
    BY <1>1, Zenon DEF Built, StructureStates
  <1>3. structure' = [structure EXCEPT ![i] = s]
    BY DEF StartConstruction
  <1>4. finished \subseteq finished' /\ node' = node /\ UNCHANGED <<reserved, wall, facility, nextId>>
    BY DEF StartConstruction
  <1> HIDE DEF s
  <1> QED
    BY <1>1, <1>2, <1>3, <1>4, RewriteKeeps, Zenon

LEMMA CompleteConstructionKeeps ==
  ASSUME RegisterInv, NEW i \in Structure, CompleteConstruction(i)
  PROVE  RegisterInv'
  <1> DEFINE s == [structure[i] EXCEPT !.state = "Constructed", !.hp = MaxHealth[structure[i].kind]]
  <1>1. Built(structure[i]) /\ structure[i] # NoStructure /\ structure[i].state = "Planned"
    BY NotNone DEF RegisterInv, RegisterTypes, CompleteConstruction, Is, NoStructure
  <1>2. /\ Built(s) /\ s.kind = structure[i].kind /\ s.faction = structure[i].faction
        /\ s.place = structure[i].place /\ s.state = "Constructed"
    BY <1>1, Zenon DEF Built, StructureStates
  <1>3. structure' = [structure EXCEPT ![i] = s]
    BY DEF CompleteConstruction
  <1>4. /\ finished' = finished \cup {i} /\ node' = SwitchedOn(node, {i})
        /\ UNCHANGED <<reserved, wall, facility, nextId>>
    BY DEF CompleteConstruction
  <1> HIDE DEF s
  <1> QED
    BY <1>1, <1>2, <1>3, <1>4, RewriteKeeps, Zenon

LEMMA RequestRepairKeeps ==
  ASSUME RegisterInv, NEW i \in Structure, NEW faction \in Faction, RequestRepair(i, faction)
  PROVE  RegisterInv'
  <1>1. PICK hp : structure' = [structure EXCEPT ![i].hp = hp]
    BY Zenon DEF RequestRepair
  <1> DEFINE s == [structure[i] EXCEPT !.hp = hp]
  <1>2. Built(structure[i]) /\ structure[i] # NoStructure /\ structure[i].state = "Constructed"
    BY NotNone DEF RegisterInv, RegisterTypes, RequestRepair, Is, NoStructure
  <1>3. /\ Built(s) /\ s.kind = structure[i].kind /\ s.faction = structure[i].faction
        /\ s.place = structure[i].place /\ s.state = "Constructed"
    BY <1>2 DEF Built, StructureStates
  <1>4. structure' = [structure EXCEPT ![i] = s]
    BY <1>1
  <1>5. finished \subseteq finished' /\ node' = node /\ UNCHANGED <<reserved, wall, facility, nextId>>
    BY DEF RequestRepair
  <1> HIDE DEF s
  <1> QED
    BY <1>2, <1>3, <1>4, <1>5, RewriteKeeps, Zenon

(* A step in which one building leaves.                                    *)
LEMMA LeaveKeeps ==
  ASSUME RegisterInv, NEW i \in Structure, Standing(i), NEW s,
         structure' = [structure EXCEPT ![i] = s], Released({i}),
         node' = NodesWithout(node, {i}), finished' = finished, nextId' = nextId,
         \/ s = NoStructure /\ facility' = facility \ {i}
         \/ Built(s) /\ s.state = "Destroyed" /\ s.kind = structure[i].kind /\ facility' = facility
  PROVE  RegisterInv'
  <1>1. RegisterTypes
    BY DEF RegisterInv
  <1>2. /\ structure' = [j \in Structure |-> structure'[j]]
        /\ structure'[i] = s /\ \A j \in Structure : j # i => structure'[j] = structure[j]
    BY <1>1 DEF RegisterTypes
  <1>3. /\ node' = [j \in Structure |-> node'[j]]
        /\ node'[i] = NoNode /\ \A j \in Structure : j # i => node'[j] = node[j]
    BY <1>1 DEF RegisterTypes, NodesWithout
  <1>4. Leaves(i)
    BY <1>2, <1>3 DEF Leaves
  <1>5. ASSUME NEW j \in Structure, j # i PROVE Stays(j) /\ NodeStays(j) /\ (j \in facility' <=> j \in facility)
    BY <1>1, <1>2, <1>3, <1>5, Zenon DEF RegisterTypes, Stays, NodeStays
  <1>6. Leaving({i})
    BY <1>1, <1>2, <1>3, <1>4, <1>5 DEF Leaving, Released
  <1> QED
    BY <1>6, LeavingKeeps

LEMMA RequestDismantleKeeps ==
  ASSUME RegisterInv, NEW i \in Structure, NEW faction \in Faction, RequestDismantle(i, faction)
  PROVE  RegisterInv'
  <1>1. Built(structure[i]) /\ structure[i] # NoStructure /\ structure[i].state # "Destroyed" /\ Standing(i)
    BY DEF RegisterInv, RegisterTypes, RequestDismantle, Is, Exists, Standing
  <1>2. CASE Is(i, {"Planned"})
    BY <1>1, <1>2, LeaveKeeps DEF RequestDismantle
  <1>3. CASE ~Is(i, {"Planned"})
    <2> DEFINE s == [structure[i] EXCEPT !.state = "Dismantling", !.left = DismantleTicks, !.hp = 0]
    <2>1. /\ Built(s) /\ s.kind = structure[i].kind /\ s.faction = structure[i].faction
          /\ s.place = structure[i].place /\ s.state = "Dismantling"
      BY <1>1, Zenon DEF Built, StructureStates
    <2>2. structure' = [structure EXCEPT ![i] = s]
      BY <1>3 DEF RequestDismantle
    <2>3. finished \subseteq finished' /\ node' = node /\ UNCHANGED <<reserved, wall, facility, nextId>>
      BY <1>3 DEF RequestDismantle
    <2> HIDE DEF s
    <2> QED
      BY <1>1, <2>1, <2>2, <2>3, RewriteKeeps, Zenon
  <1> QED
    BY <1>2, <1>3

LEMMA ApplyDamageKeeps ==
  ASSUME RegisterInv, NEW i \in Structure, NEW blow \in Blow, ApplyDamage(i, blow)
  PROVE  RegisterInv'
  <1> DEFINE hp == AfterDamage(HitPoints(structure[i]), Damage(structure[i].kind, blow))
  <1>1. Built(structure[i]) /\ structure[i] # NoStructure /\ structure[i].state # "Destroyed" /\ Standing(i)
    BY DEF RegisterInv, RegisterTypes, ApplyDamage, Is, Exists, Standing
  <1>2. CASE hp = 0
    <2> DEFINE s == [structure[i] EXCEPT !.state = "Destroyed", !.hp = 0, !.left = 0]
    <2>1. Built(s) /\ s.kind = structure[i].kind /\ s.state = "Destroyed"
      BY <1>1, Zenon DEF Built, StructureStates
    <2>2. structure' = [structure EXCEPT ![i] = s]
      BY <1>2 DEF ApplyDamage
    <2>3. /\ Released({i}) /\ node' = NodesWithout(node, {i})
          /\ finished' = finished /\ nextId' = nextId /\ facility' = facility
      BY <1>2 DEF ApplyDamage
    <2> HIDE DEF s
    <2> QED
      BY <1>1, <2>1, <2>2, <2>3, LeaveKeeps, Zenon
  <1>3. CASE hp # 0
    <2> DEFINE s == [structure[i] EXCEPT !.state = "Constructed", !.hp = hp, !.left = 0]
    <2>1. /\ Built(s) /\ s.kind = structure[i].kind /\ s.faction = structure[i].faction
          /\ s.place = structure[i].place /\ s.state = "Constructed"
      BY <1>1, Zenon DEF Built, StructureStates
    <2>2. structure' = [structure EXCEPT ![i] = s]
      BY <1>3 DEF ApplyDamage
    <2>3. finished \subseteq finished' /\ node' = node /\ UNCHANGED <<reserved, wall, facility, nextId>>
      BY <1>3 DEF ApplyDamage
    <2> HIDE DEF s
    <2> QED
      BY <1>1, <2>1, <2>2, <2>3, RewriteKeeps, Zenon
  <1> QED
    BY <1>2, <1>3

(* What ages keeps its identity, and nothing is destroyed by ageing.       *)
LEMMA AgedStays ==
  ASSUME NEW s, Built(s), NEW told
  PROVE  LET t == [Aged(s) EXCEPT !.power = told]
         IN /\ Built(t) /\ t.kind = s.kind /\ t.faction = s.faction /\ t.place = s.place
            /\ t.state = "Destroyed" <=> s.state = "Destroyed"
  <1> DEFINE t == Aged(s)
  <1>1. /\ Built(t) /\ t.kind = s.kind /\ t.faction = s.faction /\ t.place = s.place
        /\ t.state = "Destroyed" <=> s.state = "Destroyed"
    <2>1. CASE s.state = "UnderConstruction" /\ s.left <= 1
      BY <2>1, Zenon DEF Aged, Built, StructureStates
    <2>2. CASE s.state = "UnderConstruction" /\ s.left > 1 /\ ~(s.left <= 1)
      BY <2>2 DEF Aged, Built, StructureStates
    <2>3. CASE s.state = "Dismantling"
      BY <2>3 DEF Aged, Built, StructureStates
    <2>4. CASE ~(s.state = "UnderConstruction" /\ s.left <= 1) /\ ~(s.state = "UnderConstruction" /\ s.left > 1)
               /\ s.state # "Dismantling"
      BY <2>4 DEF Aged
    <2> QED
      BY <2>1, <2>2, <2>3, <2>4
  <1> HIDE DEF t
  <1>2. Built([t EXCEPT !.power = told])
    BY <1>1 DEF Built
  <1>3. /\ [t EXCEPT !.power = told].kind = t.kind /\ [t EXCEPT !.power = told].faction = t.faction
        /\ [t EXCEPT !.power = told].place = t.place /\ [t EXCEPT !.power = told].state = t.state
    BY <1>1 DEF Built
  <1> QED
    BY <1>1, <1>2, <1>3 DEF t

(* Solving the network changes what is stored, and no node.                *)
LEMMA TickKeepsNodes ==
  ASSUME NEW n, NEW subnets, NEW patches, NEW i \in Structure, n[i] = NoNode \/ Node(n[i])
  PROVE  LET m == NodesAfterTick(n, subnets, patches)[i]
         IN IF n[i] = NoNode THEN m = NoNode ELSE Node(m) /\ m.on = n[i].on
  <1>1. CASE IsNode(n, i) /\ n[i].on /\ InGrid(subnets, i)
    <2> DEFINE stored == StoredAfter(n, GridOf(subnets, i), i, patches)
    <2>1. NodesAfterTick(n, subnets, patches)[i] = [n[i] EXCEPT !.stored = stored]
      BY <1>1 DEF NodesAfterTick
    <2> HIDE DEF stored
    <2> QED
      BY <1>1, <2>1, Zenon DEF IsNode, Node
  <1>2. CASE ~(IsNode(n, i) /\ n[i].on /\ InGrid(subnets, i))
    BY <1>2 DEF NodesAfterTick
  <1> QED
    BY <1>1, <1>2

LEMMA StructuresTickKeeps ==
  ASSUME RegisterInv, StructuresTick
  PROVE  RegisterInv'
  <1>1. RegisterTypes
    BY DEF RegisterInv
  <1>0. PICK nodes \in {TickNodes}, subnets \in {TickGrids} :
          \E answer \in {StatusAfterTick(nodes, StatusWithout(Dismantled), subnets, patch)} :
            /\ node' = NodesAfterTick(nodes, subnets, patch)
            /\ structure' = [i \in Structure |->
                               IF i \in Dismantled \/ ~Exists(i) THEN NoStructure
                               ELSE [Aged(structure[i]) EXCEPT !.power = GetPowerStatus(nodes, answer, i)]]
    BY DEF StructuresTick
  <1>2. PICK answer \in {StatusAfterTick(nodes, StatusWithout(Dismantled), subnets, patch)} :
          /\ node' = NodesAfterTick(nodes, subnets, patch)
          /\ structure' = [i \in Structure |->
                             IF i \in Dismantled \/ ~Exists(i) THEN NoStructure
                             ELSE [Aged(structure[i]) EXCEPT !.power = GetPowerStatus(nodes, answer, i)]]
    BY <1>0
  <1>3. /\ Released(Dismantled) /\ facility' = facility \ Dismantled
        /\ finished' = finished \cup Completing /\ nextId' = nextId
    BY DEF StructuresTick
  <1>4. /\ structure' = [i \in Structure |-> structure'[i]]
        /\ node' = [i \in Structure |-> node'[i]]
    BY <1>2 DEF NodesAfterTick
  <1>5. ASSUME NEW i \in Structure, i \in Dismantled PROVE Leaves(i)
    <2>1. structure[i].state = "Dismantling"
      BY <1>5 DEF Dismantled, Is
    <2>2. Standing(i)
      BY <2>1 DEF Standing, Exists, Is, NoStructure
    <2>3. structure'[i] = NoStructure
      BY <1>2, <1>5
    <2>4. nodes[i] = NoNode
      BY <1>2, <1>5 DEF TickNodes, NodesWithout
    <2>5. node'[i] = NoNode
      BY <1>2, <2>4, TickKeepsNodes
    <2> QED
      BY <1>3, <1>5, <2>2, <2>3, <2>5 DEF Leaves
  <1>6. ASSUME NEW i \in Structure, i \notin Dismantled PROVE Stays(i)
    <2>1. CASE structure[i] = NoStructure
      BY <1>2, <2>1 DEF Stays, Exists
    <2>2. CASE structure[i] # NoStructure
      <3> DEFINE t == [Aged(structure[i]) EXCEPT !.power = GetPowerStatus(nodes, answer, i)]
      <3>1. structure'[i] = t
        BY <1>2, <1>6, <2>2 DEF Exists
      <3>2. Built(structure[i])
        BY <1>1, <2>2 DEF RegisterTypes
      <3>3. /\ Built(t) /\ t.kind = structure[i].kind /\ t.faction = structure[i].faction
            /\ t.place = structure[i].place
            /\ t.state = "Destroyed" <=> structure[i].state = "Destroyed"
        BY <3>2, AgedStays
      <3> HIDE DEF t
      <3> QED
        BY <2>2, <3>1, <3>3 DEF Stays
    <2> QED
      BY <2>1, <2>2
  <1>7. ASSUME NEW i \in Structure, i \notin Dismantled PROVE NodeStays(i)
    <2>1. nodes[i] = IF i \in Completing /\ node[i] # NoNode THEN [node[i] EXCEPT !.on = TRUE] ELSE node[i]
      BY <1>2, <1>7 DEF TickNodes, NodesWithout, SwitchedOn, IsNode
    <2>2. IF node[i] = NoNode THEN nodes[i] = NoNode
          ELSE Node(nodes[i]) /\ (nodes[i].on => node[i].on \/ i \in finished')
      BY <1>1, <1>3, <2>1, Zenon DEF RegisterTypes, Node
    <2>3. nodes[i] = NoNode \/ Node(nodes[i])
      BY <2>2
    <2>4. IF nodes[i] = NoNode THEN node'[i] = NoNode
          ELSE Node(node'[i]) /\ node'[i].on = nodes[i].on
      BY <1>2, <2>3, TickKeepsNodes
    <2> QED
      BY <2>2, <2>4, NotNone DEF NodeStays
  <1>8. Leaving(Dismantled)
    BY <1>3, <1>4, <1>5, <1>6, <1>7 DEF Leaving, Released
  <1> QED
    BY <1>8, LeavingKeeps DEF Dismantled

LEMMA StepKeepsRegisters ==
  ASSUME RegisterInv, [StructuresNext]_structVars
  PROVE  RegisterInv'
  <1>1. CASE UNCHANGED <<structure, reserved, wall, node, facility, nextId, finished>>
    BY <1>1 DEF RegisterInv, RegisterTypes, OneStructure, OneSite, WallAt, StandingAt, Standing,
                Exists, Is, IsNode
  <1>2. CASE UNCHANGED structVars
    BY <1>1, <1>2 DEF structVars
  <1>3. CASE StructureCommands
    BY <1>3, BuildKeeps, RequestDismantleKeeps, RequestRepairKeeps DEF StructureCommands
  <1>4. CASE \E i \in Structure : StartConstruction(i) \/ CompleteConstruction(i)
    BY <1>4, StartConstructionKeeps, CompleteConstructionKeeps
  <1>5. CASE \E i \in Structure, b \in Blow : ApplyDamage(i, b)
    BY <1>5, ApplyDamageKeeps
  <1>6. CASE \E f \in Faction, p \in Patches : InstallModifierPatch(f, p)
    BY <1>1, <1>6 DEF InstallModifierPatch
  <1>7. CASE StructuresTick
    BY <1>7, StructuresTickKeeps
  <1> QED
    BY <1>2, <1>3, <1>4, <1>5, <1>6, <1>7 DEF StructuresNext

(* The registers of the structures, their sites, walls, nodes and          *)
(* facilities agree after every command, blow and tick                     *)
(* (structure.rs:500-760, 905-1400).                                       *)
THEOREM RegistersStayInAgreement == StructuresSpec => []RegistersAgree
  <1>1. RegisterInv /\ [StructuresNext]_structVars => RegisterInv'
    BY StepKeepsRegisters
  <1> QED
    BY <1>1, RegistersInitially, RegistersDoAgree, PTL DEF StructuresSpec

-----------------------------------------------------------------------------
(* The research queue.                                                     *)

(* What a job may be; its duration is that of its technology or what the   *)
(* modifiers of some technologies make of it.                              *)
States == {"Queued", "InProgress", "AwaitingResources", "Unpowered"}
Hosting == {0} \cup {Min(S) : S \in SUBSET Lab}
Durations ==
  {TechDuration[t] : t \in Tech}
    \cup {DurationTicksFor(Totals(Contribution, done), "ResearchSpeed", TechDuration[t]) :
            done \in SUBSET Tech, t \in Tech}
Jobs == [id : Job, tech : Tech, state : States, host : Hosting, locks : BOOLEAN,
         progress : Nat, total : Durations]

QueueTypes == queue \in Seq(Jobs) /\ completed \in SUBSET Tech /\ nextJob \in Nat
QueueInv == QueueTypes /\ PrerequisitesFirst

(* A queue that is another one rearranged or shortened.                    *)
DrawnFrom(q, r) ==
  \E place \in [DOMAIN q -> DOMAIN r] :
    \A i \in DOMAIN q : q[i] = r[place[i]]
                        /\ \A k \in DOMAIN q : place[i] = place[k] => i = k

LEMMA DrawnKeeps ==
  ASSUME QueueInv, queue' \in Seq(Jobs), DrawnFrom(queue', queue),
         UNCHANGED <<tree, completed, nextJob>>
  PROVE  QueueInv'
  <1>1. PICK place \in [DOMAIN queue' -> DOMAIN queue] :
          \A i \in DOMAIN queue' : queue'[i] = queue[place[i]]
                        /\ \A k \in DOMAIN queue' : place[i] = place[k] => i = k
    BY DEF DrawnFrom
  <1>2. \A i \in DOMAIN queue' : tree[queue'[i].tech] \subseteq completed
    BY <1>1 DEF QueueInv, PrerequisitesFirst
  <1>3. \A i, j \in DOMAIN queue' : queue'[i].tech = queue'[j].tech => i = j
    BY <1>1 DEF QueueInv, PrerequisitesFirst
  <1> QED
    BY <1>2, <1>3 DEF QueueInv, QueueTypes, PrerequisitesFirst

LEMMA RemoveAtIs ==
  ASSUME NEW S, NEW s \in Seq(S), NEW i \in DOMAIN s
  PROVE  /\ RemoveAt(s, i) \in Seq(S)
         /\ Len(RemoveAt(s, i)) = Len(s) - 1
         /\ \A k \in 1 .. Len(s) - 1 : RemoveAt(s, i)[k] = IF k < i THEN s[k] ELSE s[k + 1]
  <1> DEFINE a == SubSeq(s, 1, i - 1)
             b == SubSeq(s, i + 1, Len(s))
  <1>1. a \in Seq(S) /\ Len(a) = i - 1 /\ \A k \in 1 .. i - 1 : a[k] = s[k]
    OBVIOUS
  <1>2. b \in Seq(S) /\ Len(b) = Len(s) - i /\ \A k \in 1 .. Len(s) - i : b[k] = s[i + k]
    OBVIOUS
  <1>3. RemoveAt(s, i) = a \o b
    BY DEF RemoveAt
  <1> HIDE DEF a, b
  <1>4. a \o b \in Seq(S) /\ Len(a \o b) = Len(s) - 1
    BY <1>1, <1>2
  <1>5. ASSUME NEW k \in 1 .. Len(s) - 1 PROVE (a \o b)[k] = IF k < i THEN s[k] ELSE s[k + 1]
    <2>1. (a \o b)[k] = IF k <= Len(a) THEN a[k] ELSE b[k - Len(a)]
      <3>1. k \in 1 .. Len(a) + Len(b)
        BY <1>1, <1>2
      <3> QED
        BY <1>1, <1>2, <3>1, SMTT(30)
    <2>2. CASE k < i
      BY <1>1, <2>1, <2>2
    <2>3. CASE k >= i
      <3>1. k - (i - 1) \in 1 .. Len(s) - i
        BY <2>3
      <3>2. b[k - (i - 1)] = s[i + (k - (i - 1))]
        BY <1>2, <3>1, Zenon
      <3>3. i + (k - (i - 1)) = k + 1 /\ ~(k <= Len(a))
        BY <1>1, <2>3
      <3>4. (a \o b)[k] = b[k - (i - 1)]
        BY <1>1, <2>1, <3>3
      <3> QED
        BY <2>3, <3>2, <3>3, <3>4
    <2>4. k < i \/ k >= i
      OBVIOUS
    <2> QED
      BY <2>2, <2>3, <2>4, Zenon
  <1> QED
    BY <1>3, <1>4, <1>5, Zenon

LEMMA InsertAtIs ==
  ASSUME NEW S, NEW s \in Seq(S), NEW i \in 1 .. Len(s) + 1, NEW e \in S
  PROVE  /\ InsertAt(s, i, e) \in Seq(S)
         /\ Len(InsertAt(s, i, e)) = Len(s) + 1
         /\ \A k \in 1 .. Len(s) + 1 :
              InsertAt(s, i, e)[k] = IF k < i THEN s[k] ELSE IF k = i THEN e ELSE s[k - 1]
  <1> DEFINE a == SubSeq(s, 1, i - 1)
             b == SubSeq(s, i, Len(s))
  <1>1. a \in Seq(S) /\ Len(a) = i - 1 /\ \A k \in 1 .. i - 1 : a[k] = s[k]
    OBVIOUS
  <1>2. b \in Seq(S) /\ Len(b) = Len(s) - i + 1 /\ \A k \in 1 .. Len(s) - i + 1 : b[k] = s[i + k - 1]
    OBVIOUS
  <1>3. InsertAt(s, i, e) = (a \o <<e>>) \o b
    BY DEF InsertAt
  <1> HIDE DEF a, b
  <1> DEFINE c == a \o <<e>>
  <1>4. c \in Seq(S) /\ Len(c) = i /\ \A k \in 1 .. i : c[k] = IF k < i THEN s[k] ELSE e
    <2>1. <<e>> \in Seq(S) /\ Len(<<e>>) = 1 /\ <<e>>[1] = e
      OBVIOUS
    <2>2. c \in Seq(S) /\ Len(c) = i
      BY <1>1, <2>1
    <2>3. \A k \in 1 .. i : c[k] = IF k <= Len(a) THEN a[k] ELSE <<e>>[k - Len(a)]
      BY <1>1, <2>1
    <2>4. \A k \in 1 .. i : k <= Len(a) <=> k < i
      BY <1>1
    <2>5. \A k \in 1 .. i : ~(k < i) => k - Len(a) = 1
      BY <1>1
    <2> QED
      BY <1>1, <2>1, <2>2, <2>3, <2>4, <2>5
  <1> HIDE DEF c
  <1>5. c \o b \in Seq(S) /\ Len(c \o b) = Len(s) + 1
    <2>1. Len(s) \in Nat /\ Len(c) + Len(b) = Len(s) + 1
      BY <1>2, <1>4
    <2> QED
      BY <1>2, <1>4, <2>1
  <1>6. ASSUME NEW k \in 1 .. Len(s) + 1
        PROVE  (c \o b)[k] = IF k < i THEN s[k] ELSE IF k = i THEN e ELSE s[k - 1]
    <2>1. (c \o b)[k] = IF k <= Len(c) THEN c[k] ELSE b[k - Len(c)]
      <3>1. k \in 1 .. Len(c) + Len(b)
        BY <1>2, <1>4
      <3> QED
        BY <1>2, <1>4, <3>1, SMTT(30)
    <2>2. CASE k <= i
      BY <1>4, <2>1, <2>2
    <2>3. CASE k > i
      <3>1. k - i \in 1 .. Len(s) - i + 1
        BY <2>3
      <3>2. b[k - i] = s[i + (k - i) - 1]
        BY <1>2, <3>1, Zenon
      <3>3. i + (k - i) - 1 = k - 1 /\ ~(k <= Len(c)) /\ ~(k < i) /\ k # i
        BY <1>4, <2>3
      <3>4. (c \o b)[k] = b[k - i]
        BY <1>4, <2>1, <3>3
      <3> QED
        BY <3>2, <3>3, <3>4
    <2>4. k <= i \/ k > i
      OBVIOUS
    <2> QED
      BY <2>2, <2>3, <2>4, Zenon
  <1> QED
    BY <1>3, <1>5, <1>6, Zenon DEF c

-----------------------------------------------------------------------------
LEMMA QueueResearchKeeps ==
  ASSUME QueueInv, NEW t \in Tech, QueueResearch(t)
  PROVE  QueueInv'
  <1> DEFINE job == [id |-> nextJob, tech |-> t, state |-> "Queued", host |-> 0,
                     locks |-> FALSE, progress |-> 0, total |-> TechDuration[t]]
  <1>1. QueueTypes /\ PrerequisitesFirst /\ UNCHANGED <<tree, completed>>
    BY DEF QueueInv, QueueResearch
  <1>2. queue' = Append(queue, job) /\ nextJob' = nextJob + 1 /\ nextJob \in Job
    BY DEF QueueResearch
  <1>3. job \in Jobs /\ job.tech = t
    BY <1>2 DEF Jobs, States, Hosting, Durations
  <1>4. tree[t] \subseteq completed /\ \A i \in DOMAIN queue : queue[i].tech # t
    BY DEF QueueResearch, PrerequisitesMet, Queued
  <1> HIDE DEF job
  <1>5. /\ queue' \in Seq(Jobs) /\ Len(queue) \in Nat
        /\ DOMAIN queue = 1 .. Len(queue) /\ DOMAIN queue' = 1 .. Len(queue) + 1
        /\ queue'[Len(queue) + 1] = job /\ \A i \in DOMAIN queue : queue'[i] = queue[i]
    BY <1>1, <1>2, <1>3 DEF QueueTypes
  <1>6. QueueTypes'
    BY <1>1, <1>2, <1>5 DEF QueueTypes
  <1>7. \A i \in DOMAIN queue' : tree[queue'[i].tech] \subseteq completed
    BY <1>1, <1>3, <1>4, <1>5 DEF PrerequisitesFirst
  <1>8. \A i, j \in DOMAIN queue' : queue'[i].tech = queue'[j].tech => i = j
    BY <1>1, <1>3, <1>4, <1>5 DEF PrerequisitesFirst
  <1> QED
    BY <1>1, <1>6, <1>7, <1>8 DEF QueueInv, PrerequisitesFirst

LEMMA CancelDraws ==
  ASSUME QueueInv, NEW i, CancelResearch(i)
  PROVE  /\ queue' \in Seq(Jobs) /\ DrawnFrom(queue', queue)
         /\ \A m \in DOMAIN queue : m # i => \E k \in DOMAIN queue' : queue'[k] = queue[m]
  <1>1. queue \in Seq(Jobs) /\ i \in DOMAIN queue /\ queue' = RemoveAt(queue, i)
    BY DEF QueueInv, QueueTypes, CancelResearch
  <1>2. /\ queue' \in Seq(Jobs) /\ Len(queue') = Len(queue) - 1 /\ Len(queue) \in Nat
        /\ \A k \in 1 .. Len(queue) - 1 : queue'[k] = IF k < i THEN queue[k] ELSE queue[k + 1]
    <2> DEFINE rest == RemoveAt(queue, i)
    <2>1. /\ rest \in Seq(Jobs) /\ Len(rest) = Len(queue) - 1
          /\ \A k \in 1 .. Len(queue) - 1 : rest[k] = IF k < i THEN queue[k] ELSE queue[k + 1]
      BY <1>1, RemoveAtIs, Zenon
    <2> HIDE DEF rest
    <2>2. queue' = rest /\ Len(queue) \in Nat
      BY <1>1 DEF rest
    <2> QED
      BY <2>1, <2>2
  <1> DEFINE place == [k \in DOMAIN queue' |-> IF k < i THEN k ELSE k + 1]
  <1>3. place \in [DOMAIN queue' -> DOMAIN queue]
    BY <1>1, <1>2
  <1>4. \A k \in DOMAIN queue' : queue'[k] = queue[place[k]]
    BY <1>1, <1>2
  <1>5. \A k, l \in DOMAIN queue' : place[k] = place[l] => k = l
    BY <1>1, <1>2
  <1>6. DrawnFrom(queue', queue)
    BY <1>3, <1>4, <1>5, Zenon DEF DrawnFrom
  <1>7. ASSUME NEW m \in DOMAIN queue, m # i PROVE \E k \in DOMAIN queue' : queue'[k] = queue[m]
    <2>1. CASE m < i
      <3>1. m \in DOMAIN queue' /\ queue'[m] = queue[m]
        BY <1>1, <1>2, <2>1
      <3> QED
        BY <3>1
    <2>2. CASE m > i
      <3>1. m - 1 \in DOMAIN queue' /\ queue'[m - 1] = queue[m]
        BY <1>1, <1>2, <2>2
      <3> QED
        BY <3>1
    <2> QED
      BY <1>1, <1>7, <2>1, <2>2
  <1> QED
    BY <1>2, <1>6, <1>7

LEMMA CancelResearchKeeps ==
  ASSUME QueueInv, NEW i, CancelResearch(i)
  PROVE  QueueInv'
  BY CancelDraws, DrawnKeeps, Zenon DEF CancelResearch

LEMMA ReorderDraws ==
  ASSUME QueueInv, NEW i, NEW to, ReorderQueue(i, to)
  PROVE  /\ queue' \in Seq(Jobs) /\ DrawnFrom(queue', queue)
         /\ \A m \in DOMAIN queue : \E k \in DOMAIN queue' : queue'[k] = queue[m]
  <1>0. PICK rest : rest = RemoveAt(queue, i)
    OBVIOUS
  <1>1. /\ queue \in Seq(Jobs) /\ i \in DOMAIN queue /\ to \in DOMAIN queue
        /\ queue' = InsertAt(rest, to, queue[i])
    BY <1>0 DEF QueueInv, QueueTypes, ReorderQueue
  <1>2. /\ rest \in Seq(Jobs) /\ Len(rest) = Len(queue) - 1 /\ Len(queue) \in Nat
        /\ \A k \in 1 .. Len(queue) - 1 : rest[k] = IF k < i THEN queue[k] ELSE queue[k + 1]
    <2>1. /\ RemoveAt(queue, i) \in Seq(Jobs) /\ Len(RemoveAt(queue, i)) = Len(queue) - 1
          /\ \A k \in 1 .. Len(queue) - 1 :
               RemoveAt(queue, i)[k] = IF k < i THEN queue[k] ELSE queue[k + 1]
      BY <1>1, RemoveAtIs
    <2>2. Len(queue) \in Nat
      BY <1>1
    <2> QED
      BY <1>0, <2>1, <2>2
  <1>3. to \in 1 .. Len(rest) + 1 /\ queue[i] \in Jobs
    <2>1. to \in 1 .. Len(queue)
      BY <1>1
    <2> QED
      BY <1>1, <1>2, <2>1
  <1>4. /\ queue' \in Seq(Jobs) /\ Len(queue') = Len(rest) + 1
        /\ \A k \in 1 .. Len(rest) + 1 :
             queue'[k] = IF k < to THEN rest[k] ELSE IF k = to THEN queue[i] ELSE rest[k - 1]
    <2>1. rest \in Seq(Jobs)
      BY <1>2
    <2> DEFINE q == InsertAt(rest, to, queue[i])
    <2>2. /\ q \in Seq(Jobs) /\ Len(q) = Len(rest) + 1
          /\ \A k \in 1 .. Len(rest) + 1 :
               q[k] = IF k < to THEN rest[k] ELSE IF k = to THEN queue[i] ELSE rest[k - 1]
      BY <1>3, <2>1, InsertAtIs
    <2> QED
      BY <1>1, <2>2
  <1> DEFINE Skipped(k) == IF k < i THEN k ELSE k + 1
             place == [k \in DOMAIN queue' |->
                         IF k = to THEN i ELSE IF k < to THEN Skipped(k) ELSE Skipped(k - 1)]
  <1>5. DOMAIN queue' = 1 .. Len(queue) /\ DOMAIN queue = 1 .. Len(queue)
    <2>1. Len(queue') = Len(queue)
      BY <1>2, <1>4
    <2> QED
      BY <1>1, <1>4, <2>1
  <1>6. place \in [DOMAIN queue' -> DOMAIN queue]
    BY <1>1, <1>2, <1>5
  <1>7. ASSUME NEW k \in DOMAIN queue' PROVE queue'[k] = queue[place[k]]
    <2>1. CASE k = to
      BY <1>2, <1>4, <1>5, <2>1
    <2>2. CASE k < to
      <3>1. k \in 1 .. Len(queue) - 1 /\ queue'[k] = rest[k]
        BY <1>1, <1>2, <1>4, <1>5, <2>2
      <3> QED
        BY <1>2, <2>2, <3>1
    <2>3. CASE k > to
      <3>1. k - 1 \in 1 .. Len(queue) - 1 /\ queue'[k] = rest[k - 1]
        BY <1>1, <1>2, <1>4, <1>5, <2>3
      <3>2. rest[k - 1] = queue[Skipped(k - 1)]
        BY <1>2, <3>1
      <3>3. place[k] = Skipped(k - 1)
        BY <1>1, <1>5, <2>3
      <3> QED
        BY <3>1, <3>2, <3>3
    <2> QED
      BY <1>1, <1>5, <2>1, <2>2, <2>3
  <1>8. \A k, l \in DOMAIN queue' : place[k] = place[l] => k = l
    BY <1>1, <1>2, <1>5
  <1>9. DrawnFrom(queue', queue)
    BY <1>6, <1>7, <1>8, Zenon DEF DrawnFrom
  <1>10. ASSUME NEW m \in DOMAIN queue
         PROVE  \E k \in DOMAIN queue' : queue'[k] = queue[m]
    <2>1. \A k \in DOMAIN queue' : queue'[k] = queue[place[k]]
      BY <1>7
    <2> DEFINE Slot(n) == IF n < to THEN n ELSE n + 1
               k == IF m = i THEN to ELSE IF m < i THEN Slot(m) ELSE Slot(m - 1)
    <2>2. k \in DOMAIN queue' /\ place[k] = m
      <3>1. CASE m = i
        BY <1>1, <1>5, <3>1
      <3>2. CASE m < i
        BY <1>1, <1>2, <1>5, <3>2
      <3>3. CASE m > i
        BY <1>1, <1>2, <1>5, <3>3
      <3> QED
        BY <1>1, <1>5, <3>1, <3>2, <3>3
    <2> HIDE DEF k, place
    <2> QED
      BY <2>1, <2>2
  <1> QED
    BY <1>4, <1>9, <1>10

LEMMA ReorderQueueKeeps ==
  ASSUME QueueInv, NEW i, NEW to, ReorderQueue(i, to)
  PROVE  QueueInv'
  BY ReorderDraws, DrawnKeeps DEF ReorderQueue

LEMMA GrantTechKeeps ==
  ASSUME QueueInv, NEW t \in Tech, GrantTech(t)
  PROVE  QueueInv'
  BY DEF GrantTech, QueueInv, QueueTypes, PrerequisitesFirst

(* What a tick makes of the first job, but for finishing it.               *)
LEMMA FirstJobKeeps ==
  ASSUME QueueInv, queue # << >>, NEW job \in Jobs, job.tech = queue[1].tech,
         queue' = [queue EXCEPT ![1] = job], UNCHANGED <<tree, completed, nextJob>>
  PROVE  QueueInv'
  <1>1. queue \in Seq(Jobs) /\ 1 \in DOMAIN queue
    BY DEF QueueInv, QueueTypes
  <1>2. queue' \in Seq(Jobs) /\ DOMAIN queue' = DOMAIN queue
    BY <1>1
  <1>3. \A k \in DOMAIN queue : queue'[k].tech = queue[k].tech
    BY <1>1
  <1> QED
    BY <1>2, <1>3 DEF QueueInv, QueueTypes, PrerequisitesFirst

LEMMA RunsJobKeeps ==
  ASSUME QueueInv, queue # << >>, RunsJob(queue[1]), UNCHANGED <<tree, nextJob>>
  PROVE  QueueInv'
  <1> DEFINE job == queue[1]
  <1>1. queue \in Seq(Jobs) /\ 1 \in DOMAIN queue /\ job \in Jobs /\ completed \in SUBSET Tech
    BY DEF QueueInv, QueueTypes
  <1>2. Powered # {} => Selected \in Hosting
    <2>1. Powered \in SUBSET Lab
      BY DEF Powered
    <2> QED
      BY <2>1 DEF Selected, Hosting
  <1>3. ASSUME NEW state \in States, Waits(job, state) PROVE QueueInv'
    <2>1. queue' = [queue EXCEPT ![1] = [job EXCEPT !.state = state]] /\ UNCHANGED completed
      BY <1>3 DEF Waits
    <2>2. [job EXCEPT !.state = state] \in Jobs /\ [job EXCEPT !.state = state].tech = job.tech
      BY <1>1 DEF Jobs
    <2> QED
      BY <2>1, <2>2, FirstJobKeeps, Zenon
  <1>4. ASSUME Powered # {}, Starts(job, Selected) PROVE QueueInv'
    <2> DEFINE new == [job EXCEPT !.state = "InProgress", !.host = Selected, !.locks = TRUE,
                                  !.progress = 0, !.total = ResearchTicks(job)]
    <2>1. queue' = [queue EXCEPT ![1] = new] /\ UNCHANGED completed
      BY <1>4, Zenon DEF Starts
    <2>2. ResearchTicks(job) \in Durations
      BY <1>1 DEF ResearchTicks, Durations, Jobs
    <2>3. new \in Jobs /\ new.tech = job.tech
      BY <1>1, <1>2, <1>4, <2>2, Zenon DEF Jobs, States
    <2> QED
      BY <2>1, <2>3, FirstJobKeeps, Zenon
  <1>5. ASSUME Advances(job) PROVE QueueInv'
    <2>1. queue' = [queue EXCEPT ![1] = [job EXCEPT !.progress = job.progress + 1]] /\ UNCHANGED completed
      BY <1>5 DEF Advances
    <2>2. /\ [job EXCEPT !.progress = job.progress + 1] \in Jobs
          /\ [job EXCEPT !.progress = job.progress + 1].tech = job.tech
      BY <1>1 DEF Jobs
    <2> QED
      BY <2>1, <2>2, FirstJobKeeps, Zenon
  <1>6. ASSUME NEW l, Finishes(job, l) PROVE QueueInv'
    <2>1. CASE queue' = Tail(queue) /\ completed' = completed \cup {job.tech}
      <3>1. /\ queue' \in Seq(Jobs) /\ Len(queue) \in Nat
            /\ DOMAIN queue = 1 .. Len(queue) /\ DOMAIN queue' = 1 .. Len(queue) - 1
            /\ \A k \in DOMAIN queue' : queue'[k] = queue[k + 1]
        BY <1>1, <2>1
      <3>2. job.tech \in Tech /\ tree[job.tech] \subseteq completed
        BY <1>1 DEF Jobs, QueueInv, PrerequisitesFirst
      <3>3. QueueTypes'
        BY <1>1, <2>1, <3>1, <3>2 DEF QueueInv, QueueTypes
      <3>4. \A t \in completed' : tree[t] \subseteq completed'
        BY <2>1, <3>2 DEF QueueInv, PrerequisitesFirst
      <3>5. \A k \in DOMAIN queue' : k + 1 \in DOMAIN queue
        BY <3>1
      <3>6. \A k \in DOMAIN queue' : tree[queue'[k].tech] \subseteq completed'
        BY <2>1, <3>1, <3>5 DEF QueueInv, PrerequisitesFirst
      <3>7. \A k, m \in DOMAIN queue' : queue'[k].tech = queue'[m].tech => k + 1 = m + 1
        BY <3>1, <3>5 DEF QueueInv, PrerequisitesFirst
      <3>8. \A k, m \in DOMAIN queue' : queue'[k].tech = queue'[m].tech => k = m
        BY <3>1, <3>7
      <3> QED
        BY <3>3, <3>4, <3>6, <3>8 DEF QueueInv, PrerequisitesFirst
    <2>2. CASE /\ queue' = [queue EXCEPT ![1].state = "AwaitingResources", ![1].locks = FALSE,
                                         ![1].progress = 0]
               /\ UNCHANGED completed
      <3> DEFINE new == [job EXCEPT !.state = "AwaitingResources", !.locks = FALSE, !.progress = 0]
      <3>1. queue' = [queue EXCEPT ![1] = new]
        BY <2>2, Zenon
      <3>2. new \in Jobs /\ new.tech = job.tech
        BY <1>1, Zenon DEF Jobs, States
      <3> QED
        BY <2>2, <3>1, <3>2, FirstJobKeeps, Zenon
    <2> QED
      BY <1>6, <2>1, <2>2 DEF Finishes
  <1>7. job.state \in States
    BY <1>1 DEF Jobs
  <1> HIDE DEF job
  <1>8. RunsJob(job)
    BY DEF job
  <1> QED
    BY <1>3, <1>4, <1>5, <1>6, <1>7, <1>8, Zenon DEF RunsJob, States

LEMMA ResearchInductive == QueueInv /\ [ResearchNext]_researchVars => QueueInv'
  <1> SUFFICES ASSUME QueueInv, [ResearchNext]_researchVars PROVE QueueInv'
    OBVIOUS
  <1>1. ASSUME UNCHANGED <<tree, queue, completed, nextJob>> PROVE QueueInv'
    BY <1>1 DEF QueueInv, QueueTypes, PrerequisitesFirst
  <1>2. CASE ResearchCommands
    BY <1>2, QueueResearchKeeps, CancelResearchKeeps, ReorderQueueKeeps DEF ResearchCommands
  <1>3. CASE \E t \in Tech : GrantTech(t)
    BY <1>3, GrantTechKeeps
  <1>4. CASE (\E l \in Lab, now \in {"None", "Off", "Dark", "Lit"} : SiteChanges(l, now))
             \/ (\E l \in Lab : Deliver(l)) \/ UNCHANGED researchVars
    BY <1>1, <1>4 DEF SiteChanges, Deliver, researchVars
  <1>5. CASE ResearchTick
    <2>1. CASE queue # << >>
      BY <1>5, <2>1, RunsJobKeeps DEF ResearchTick
    <2>2. CASE queue = << >>
      BY <1>1, <1>5, <2>2 DEF ResearchTick
    <2> QED
      BY <2>1, <2>2
  <1> QED
    BY <1>2, <1>3, <1>4, <1>5 DEF ResearchNext

(* Nothing is researched before what it rests on, or twice                 *)
(* (research.rs:889-1000, 1143-1260).                                      *)
THEOREM ResearchInOrder == ResearchSpec => []PrerequisitesFirst
  <1>1. ResearchInit => QueueInv
    BY DEF ResearchInit, QueueInv, QueueTypes, PrerequisitesFirst
  <1>2. QueueInv => PrerequisitesFirst
    BY DEF QueueInv
  <1> QED
    BY <1>1, <1>2, ResearchInductive, PTL DEF ResearchSpec

-----------------------------------------------------------------------------
(* The order in which technologies are sorted as the tree is loaded.       *)

LEMMA LeastIsMember ==
  ASSUME NEW S \in SUBSET Nat, S # {}
  PROVE  Min(S) \in S
  <1>1. \E n \in S : \A m \in S : n <= m
    BY LeastNatural, Zenon
  <1> QED
    BY <1>1, Zenon DEF Min

(* What the topological order of the technologies after done is.           *)
SortedBy(p, sorted) ==
  sorted = [done \in SUBSET Tech |->
              IF {t \in Tech \ done : p[t] \subseteq done} = {} THEN <<>>
              ELSE <<Min({t \in Tech \ done : p[t] \subseteq done})>>
                     \o sorted[done \cup {Min({t \in Tech \ done : p[t] \subseteq done})}]]

LEMMA SortExists ==
  ASSUME NEW p
  PROVE  \E sorted \in [SUBSET Tech -> Seq(Tech)] : SortedBy(p, sorted)
  <1> DEFINE Ready(done) == {t \in Tech \ done : p[t] \subseteq done}
             First(s) == Min(Ready(Tech \ s))
             pick == [s \in SUBSET Tech |-> IF Ready(Tech \ s) = {} THEN CHOOSE t \in s : TRUE ELSE First(s)]
             step == [q \in (SUBSET Tech) \X Seq(Tech) |->
                        IF Ready(Tech \ q[1]) = {} THEN <<>> ELSE <<First(q[1])>> \o q[2]]
  <1>1. ASSUME NEW s \in SUBSET Tech, Ready(Tech \ s) # {} PROVE First(s) \in s /\ First(s) \in Tech
    <2>1. Ready(Tech \ s) \in SUBSET Nat /\ Ready(Tech \ s) \subseteq s
      BY ResearchAssumption, Zenon
    <2> QED
      BY <1>1, <2>1, LeastIsMember
  <1>2. \A s \in SUBSET Tech : s # {} => pick[s] \in s
    BY <1>1
  <1>3. step \in [(SUBSET Tech) \X Seq(Tech) -> Seq(Tech)]
    <2> SUFFICES ASSUME NEW s \in SUBSET Tech, NEW v \in Seq(Tech), Ready(Tech \ s) # {}
                 PROVE  <<First(s)>> \o v \in Seq(Tech)
      OBVIOUS
    <2>1. First(s) \in Tech
      BY <1>1
    <2> HIDE DEF First
    <2> QED
      BY <2>1
  <1>4. ASSUME NEW s \in SUBSET Tech, NEW v \in Seq(Tech)
        PROVE  step[<<s, v>>] = IF Ready(Tech \ s) = {} THEN <<>> ELSE <<First(s)>> \o v
    BY Zenon
  <1> HIDE DEF step
  <1>5. PICK g : FoldOf(g, Tech, Seq(Tech), <<>>, step, pick)
    <2>1. << >> \in Seq(Tech) /\ IsFiniteSet(Tech)
      BY ResearchAssumption
    <2> HIDE DEF pick
    <2> QED
      BY <1>2, <1>3, <2>1, FoldExists, Zenon
  <1> DEFINE sorted == [done \in SUBSET Tech |-> g[Tech \ done]]
  <1>6. sorted \in [SUBSET Tech -> Seq(Tech)]
    BY <1>5 DEF FoldOf
  <1>7. ASSUME NEW done \in SUBSET Tech
        PROVE  sorted[done] = IF Ready(done) = {} THEN <<>>
                              ELSE <<Min(Ready(done))>> \o sorted[done \cup {Min(Ready(done))}]
    <2>1. PICK s : s = Tech \ done
      BY Zenon
    <2>2. s \in SUBSET Tech /\ Tech \ s = done
      BY <2>1
    <2>3. CASE s = {}
      <3>1. g[s] = << >>
        BY <1>5, <2>2, <2>3, Zenon DEF FoldOf
      <3>2. Ready(done) = {}
        BY <2>1, <2>3
      <3> QED
        BY <2>1, <3>1, <3>2
    <2>4. CASE s # {}
      <3>1. g[s] = step[<<s, g[s \ {pick[s]}]>>] /\ g[s \ {pick[s]}] \in Seq(Tech)
        <4>1. s \ {pick[s]} \in SUBSET Tech
          BY <2>2
        <4> HIDE DEF pick
        <4> QED
          BY <1>5, <2>2, <2>4, <4>1, Zenon DEF FoldOf
      <3>2. g[s] = IF Ready(done) = {} THEN <<>> ELSE <<First(s)>> \o g[s \ {pick[s]}]
        BY <1>4, <2>2, <3>1, Zenon
      <3>3. CASE Ready(done) = {}
        BY <2>1, <3>2, <3>3
      <3>4. CASE Ready(done) # {}
        <4>1. First(s) = Min(Ready(done)) /\ pick[s] = First(s)
          BY <2>2, <3>4
        <4>2. s \ {pick[s]} = Tech \ (done \cup {Min(Ready(done))})
          BY <2>1, <4>1, Zenon
        <4>3. Min(Ready(done)) \in Tech
          BY <1>1, <2>2, <3>4, <4>1
        <4>4. sorted[done \cup {Min(Ready(done))}] = g[s \ {pick[s]}]
          BY <4>2, <4>3, Zenon
        <4> QED
          BY <2>1, <3>2, <3>4, <4>1, <4>4
      <3> QED
        BY <3>3, <3>4
    <2> QED
      BY <2>3, <2>4
  <1>8. SortedBy(p, sorted)
    <2> DEFINE other == [done \in SUBSET Tech |->
                           IF Ready(done) = {} THEN <<>>
                           ELSE <<Min(Ready(done))>> \o sorted[done \cup {Min(Ready(done))}]]
    <2>1. \A done \in SUBSET Tech : sorted[done] = other[done]
      BY <1>7, Zenon
    <2>2. sorted = other
      BY <2>1, Zenon
    <2> QED
      BY <2>2, Zenon DEF SortedBy
  <1> QED
    BY <1>6, <1>8, Zenon

LEMMA OrderIsSorted ==
  ASSUME NEW p
  PROVE  \E sorted : SortedBy(p, sorted) /\ TopologicalOrder(p) = sorted[{}]
  <1> DEFINE order == CHOOSE sorted : SortedBy(p, sorted)
  <1>1. SortedBy(p, order)
    BY SortExists, Zenon
  <1>2. TopologicalOrder(p) = order[{}]
    BY DEF TopologicalOrder, SortedBy
  <1> HIDE DEF order
  <1> QED
    BY <1>1, <1>2

(* Technologies each of which needs another of them are never sorted.      *)
LEMMA CycleIsLeftOut ==
  ASSUME NEW p, NEW S \in SUBSET Tech, \A t \in S : p[t] \cap S # {}
  PROVE  Len(TopologicalOrder(p)) + Cardinality(S) <= Cardinality(Tech)
  <1>1. PICK sorted : SortedBy(p, sorted) /\ TopologicalOrder(p) = sorted[{}]
    BY OrderIsSorted
  <1> DEFINE Ready(done) == {t \in Tech \ done : p[t] \subseteq done}
             F == {r \in SUBSET Tech : S \subseteq r =>
                     /\ sorted[Tech \ r] \in Seq(Tech)
                     /\ Len(sorted[Tech \ r]) + Cardinality(S) <= Cardinality(r)}
  <1>2. ASSUME NEW done \in SUBSET Tech
        PROVE  sorted[done] = IF Ready(done) = {} THEN <<>>
                              ELSE <<Min(Ready(done))>> \o sorted[done \cup {Min(Ready(done))}]
    BY <1>1, Zenon DEF SortedBy
  <1>3. \A r \in SUBSET Tech : IsFiniteSet(r) /\ Cardinality(r) \in Nat
    BY ResearchAssumption, FS_Subset, FS_CardinalityType, Zenon
  <1>4. ASSUME NEW r \in SUBSET Tech, Ready(Tech \ r) = {} PROVE r \in F
    <2>1. sorted[Tech \ r] = << >>
      BY <1>2, <1>4, Zenon
    <2>2. S \subseteq r => Cardinality(S) <= Cardinality(r)
      BY <1>3, FS_Subset
    <2>3. sorted[Tech \ r] \in Seq(Tech) /\ Len(sorted[Tech \ r]) = 0
      BY <2>1
    <2>4. Cardinality(S) \in Nat
      BY <1>3
    <2> QED
      BY <2>2, <2>3, <2>4
  <1>5. {} \in F
    <2>1. Ready(Tech \ {}) = {}
      OBVIOUS
    <2> QED
      BY <1>4, <2>1, Zenon
  <1>6. ASSUME NEW r \in SUBSET Tech, r # {}, \A x \in r : r \ {x} \in F PROVE r \in F
    <2> SUFFICES ASSUME S \subseteq r, Ready(Tech \ r) # {} PROVE r \in F
      BY <1>4, Zenon
    <2>1. PICK m : m = Min(Ready(Tech \ r))
      BY Zenon
    <2>2. m \in Ready(Tech \ r)
      <3>1. Ready(Tech \ r) \in SUBSET Nat
        BY ResearchAssumption, Zenon
      <3> QED
        BY <2>1, <3>1, LeastIsMember
    <2>3. m \in r /\ m \in Tech /\ m \notin S
      BY <2>2
    <2>4. r \ {m} \in F /\ S \subseteq r \ {m} /\ Tech \ (r \ {m}) = (Tech \ r) \cup {m}
      BY <1>6, <2>3, Zenon
    <2>5. PICK rest : rest = sorted[(Tech \ r) \cup {m}]
      OBVIOUS
    <2>6. rest \in Seq(Tech) /\ Len(rest) + Cardinality(S) <= Cardinality(r \ {m})
      BY <2>4, <2>5, Zenon
    <2>7. sorted[Tech \ r] = <<m>> \o rest
      <3>1. Tech \ r \in SUBSET Tech
        OBVIOUS
      <3> QED
        BY <1>2, <2>1, <2>5, <3>1, Zenon
    <2>8. <<m>> \o rest \in Seq(Tech) /\ Len(<<m>> \o rest) = 1 + Len(rest) /\ Len(rest) \in Nat
      BY <2>3, <2>6
    <2>9. Cardinality(r \ {m}) = Cardinality(r) - 1
      BY <1>3, <2>3, FS_RemoveElement
    <2>10. Len(sorted[Tech \ r]) + Cardinality(S) <= Cardinality(r)
      BY <1>3, <2>6, <2>7, <2>8, <2>9
    <2> QED
      BY <2>7, <2>8, <2>10, Zenon
  <1> HIDE DEF F
  <1>7. \A r \in SUBSET Tech : r \in F
    BY <1>5, <1>6, ResearchAssumption, FiniteInduction, Zenon
  <1>8. Tech \in F /\ Tech \ Tech = {}
    BY <1>7
  <1> QED
    BY <1>1, <1>8, Zenon DEF F

LEMMA LoadedHasNoCycle ==
  ASSUME NEW p, Loads(p), NEW S \in SUBSET Tech, S # {}
  PROVE  \E t \in S : p[t] \cap S = {}
  <1> SUFFICES ASSUME \A t \in S : p[t] \cap S # {} PROVE FALSE
    OBVIOUS
  <1>1. Len(TopologicalOrder(p)) + Cardinality(S) <= Cardinality(Tech)
    BY CycleIsLeftOut
  <1>2. Len(TopologicalOrder(p)) = Cardinality(Tech)
    BY DEF Loads
  <1>3. Cardinality(S) \in Nat /\ Cardinality(S) # 0 /\ Cardinality(Tech) \in Nat
    <2>1. IsFiniteSet(S) /\ IsFiniteSet(Tech)
      BY ResearchAssumption, FS_Subset, Zenon
    <2> QED
      BY <2>1, FS_CardinalityType, FS_EmptySet
  <1> QED
    BY <1>1, <1>2, <1>3

(* And a tree that loads has no cycle, or some technologies could never be *)
(* researched (research.rs:345-420).                                       *)
THEOREM ResearchEarnedInOrder == ResearchSpec => []EarnedInOrder
  <1>1. ResearchInit => NoCycle
    BY LoadedHasNoCycle DEF ResearchInit, NoCycle
  <1>2. NoCycle /\ [ResearchNext]_researchVars => NoCycle'
    <2>1. [ResearchNext]_researchVars => UNCHANGED tree
      BY Zenon DEF ResearchNext, ResearchCommands, QueueResearch, CancelResearch, ReorderQueue, GrantTech,
             SiteChanges, Deliver, ResearchTick, researchVars
    <2> QED
      BY <2>1 DEF NoCycle
  <1>3. PrerequisitesFirst /\ NoCycle => EarnedInOrder
    BY DEF EarnedInOrder
  <1> QED
    BY <1>1, <1>2, <1>3, ResearchInOrder, PTL DEF ResearchSpec

-----------------------------------------------------------------------------
(* The materials that research locks.                                      *)

LockTypes ==
  /\ hopper \in [Lab -> Nat] /\ orphaned \in [Lab -> Nat] /\ held \in [Lab -> [Job -> Nat]]
  /\ nextJob # 0
  /\ site = [l \in Lab |-> site[l]]

Numbered ==
  /\ \A i \in DOMAIN queue : queue[i].id < nextJob /\ (queue[i].locks => queue[i].host \in Lab)
  /\ \A i, j \in DOMAIN queue : queue[i].id = queue[j].id => i = j

(* What a job holds: its price, in the laboratory that hosts it.           *)
Holds(q, l, j, amount) ==
  \E i \in DOMAIN q : q[i].id = j /\ q[i].host = l /\ q[i].locks /\ amount = TechCost[q[i].tech]
PricesHeld == \A l \in Lab, j \in Job : held[l][j] # 0 => Holds(queue, l, j, held[l][j])
LocksFit == \A l \in Lab : orphaned[l] + SumOf(held[l], Job) <= hopper[l]

LockInv == QueueInv /\ LockTypes /\ Numbered /\ PricesHeld /\ LocksFit

LEMMA JobsFinite == IsFiniteSet(Job)
  BY FS_Interval, ResearchAssumption DEF Job

LEMMA LockedSum == \A l : LockedIn(l) = orphaned[l] + SumOf(held[l], Job)
  BY DEF LockedIn, SumOf

LEMMA HeldSum == LockTypes => \A l \in Lab : SumOf(held[l], Job) \in Nat
  <1> SUFFICES ASSUME LockTypes, NEW l \in Lab PROVE SumOf(held[l], Job) \in Nat
    OBVIOUS
  <1>1. held[l] \in [Job -> Nat]
    BY DEF LockTypes
  <1> QED
    BY <1>1, JobsFinite, SumIsNat

With(h, f, j, c) == h = [f EXCEPT ![j] = c]

LEMMA SumWith ==
  ASSUME NEW f \in [Job -> Nat], NEW j \in Job, NEW c \in Nat, NEW h, With(h, f, j, c)
  PROVE  h \in [Job -> Nat] /\ SumOf(h, Job) = SumOf(f, Job) - f[j] + c
  <1>1. h \in [Job -> Nat] /\ h[j] = c /\ \A k \in Job : k # j => f[k] = h[k]
    BY DEF With
  <1>2. Alike(f, h, Job, j)
    BY <1>1 DEF Alike
  <1>3. SumOf(h, Job) = SumOf(f, Job) - f[j] + h[j]
    BY <1>2, JobsFinite, SumChanges
  <1> QED
    BY <1>1, <1>3

LEMMA LocksDoHaveOwners == LockInv => LocksHaveOwners
  <1> SUFFICES ASSUME LockInv, NEW l \in Lab
               PROVE (\A j \in Job : held[l][j] > 0 => Hosts(l, j)) /\ LockedIn(l) <= hopper[l]
    BY DEF LocksHaveOwners
  <1>1. ASSUME NEW j \in Job, held[l][j] > 0 PROVE Hosts(l, j)
    <2>1. held[l][j] # 0
      BY <1>1 DEF LockInv, LockTypes
    <2>2. Holds(queue, l, j, held[l][j])
      BY <2>1 DEF LockInv, PricesHeld
    <2> QED
      BY <2>2 DEF Holds, Hosts
  <1>2. LockedIn(l) = orphaned[l] + SumOf(held[l], Job)
    BY LockedSum
  <1> QED
    BY <1>1, <1>2 DEF LockInv, LocksFit

-----------------------------------------------------------------------------
(* Commands.                                                               *)

LEMMA QueueResearchLocks ==
  ASSUME LockInv, NEW t \in Tech, QueueResearch(t)
  PROVE  LockInv'
  <1> DEFINE job == [id |-> nextJob, tech |-> t, state |-> "Queued", host |-> 0,
                     locks |-> FALSE, progress |-> 0, total |-> TechDuration[t]]
  <1>1. QueueInv' /\ QueueInv
    BY QueueResearchKeeps DEF LockInv
  <1>2. queue' = Append(queue, job) /\ nextJob' = nextJob + 1 /\ nextJob \in Job
    BY DEF QueueResearch
  <1>3. job.id = nextJob /\ job.locks = FALSE
    OBVIOUS
  <1> HIDE DEF job
  <1>4. /\ Len(queue) \in Nat
        /\ DOMAIN queue = 1 .. Len(queue) /\ DOMAIN queue' = 1 .. Len(queue) + 1
        /\ queue'[Len(queue) + 1] = job /\ \A i \in DOMAIN queue : queue'[i] = queue[i]
    BY <1>1, <1>2 DEF QueueInv, QueueTypes
  <1>5. \A i \in DOMAIN queue : queue[i].id \in Nat /\ queue[i].id < nextJob
    <2>1. \A i \in DOMAIN queue : queue[i] \in Jobs
      BY <1>1 DEF QueueInv, QueueTypes
    <2>2. Job \subseteq Nat
      BY DEF Job
    <2>3. \A i \in DOMAIN queue : queue[i].id \in Job
      BY <2>1 DEF Jobs
    <2> QED
      BY <2>2, <2>3, Zenon DEF LockInv, Numbered
  <1>6. nextJob \in Nat
    BY <1>1 DEF QueueInv, QueueTypes
  <1>7. \A i \in DOMAIN queue' : queue'[i].id < nextJob' /\ (queue'[i].locks => queue'[i].host \in Lab)
    BY <1>2, <1>3, <1>4, <1>5, <1>6 DEF LockInv, Numbered
  <1>8. \A i, j \in DOMAIN queue' : queue'[i].id = queue'[j].id => i = j
    <2>1. \A i, j \in DOMAIN queue : queue[i].id = queue[j].id => i = j
      BY DEF LockInv, Numbered
    <2>2. \A i \in DOMAIN queue : queue[i].id # nextJob
      BY <1>5, <1>6
    <2> QED
      BY <1>3, <1>4, <2>1, <2>2
  <1>9. UNCHANGED <<hopper, orphaned, held, site>> /\ nextJob' # 0
    BY <1>2, <1>6 DEF QueueResearch, materialVars
  <1>10. \A l \in Lab, j \in Job : held[l][j] # 0 => Holds(queue', l, j, held[l][j])
    <2> SUFFICES ASSUME NEW l \in Lab, NEW j \in Job, held[l][j] # 0
                 PROVE  Holds(queue', l, j, held[l][j])
      OBVIOUS
    <2>1. PICK i \in DOMAIN queue : /\ queue[i].id = j /\ queue[i].host = l /\ queue[i].locks
                                    /\ held[l][j] = TechCost[queue[i].tech]
      BY DEF LockInv, PricesHeld, Holds
    <2>2. i \in DOMAIN queue' /\ queue'[i] = queue[i]
      BY <1>4
    <2> QED
      BY <2>1, <2>2 DEF Holds
  <1> QED
    BY <1>1, <1>7, <1>8, <1>9, <1>10 DEF LockInv, LockTypes, Numbered, PricesHeld, LocksFit

(* A queue that is another one rearranged or shortened numbers its jobs as *)
(* it did.                                                                 *)
LEMMA DrawnIsNumbered ==
  ASSUME Numbered, DrawnFrom(queue', queue), UNCHANGED nextJob
  PROVE  Numbered'
  <1>1. PICK place \in [DOMAIN queue' -> DOMAIN queue] :
          \A i \in DOMAIN queue' : queue'[i] = queue[place[i]]
                        /\ \A k \in DOMAIN queue' : place[i] = place[k] => i = k
    BY DEF DrawnFrom
  <1>2. \A i \in DOMAIN queue' : queue'[i].id < nextJob' /\ (queue'[i].locks => queue'[i].host \in Lab)
    BY <1>1 DEF Numbered
  <1>3. \A i, j \in DOMAIN queue' : queue'[i].id = queue'[j].id => i = j
    BY <1>1 DEF Numbered
  <1> QED
    BY <1>2, <1>3 DEF Numbered

LEMMA CancelResearchLocks ==
  ASSUME LockInv, NEW i, CancelResearch(i)
  PROVE  LockInv'
  <1> DEFINE id == queue[i].id
             h == queue[i].host
  <1>0. QueueInv /\ QueueInv' /\ Numbered /\ i \in DOMAIN queue /\ LockTypes
    BY CancelResearchKeeps DEF LockInv, CancelResearch
  <1>1. Numbered'
    BY <1>0, CancelDraws, DrawnIsNumbered, Zenon DEF CancelResearch
  <1>2. \A m \in DOMAIN queue : m # i => \E k \in DOMAIN queue' : queue'[k] = queue[m]
    BY <1>0, CancelDraws
  <1>3. UNCHANGED <<hopper, orphaned, nextJob, site>>
    BY DEF CancelResearch
  <1>4. id \in Job /\ (queue[i].locks => h \in Lab)
    <2>1. queue[i] \in Jobs
      BY <1>0 DEF QueueInv, QueueTypes
    <2> QED
      BY <1>0, <2>1 DEF Numbered, Jobs
  <1>5. ASSUME NEW l \in Lab
        PROVE  /\ held'[l] \in [Job -> Nat] /\ SumOf(held'[l], Job) <= SumOf(held[l], Job)
               /\ \A j \in Job : held'[l][j] # 0 =>
                     held'[l][j] = held[l][j] /\ ~(queue[i].locks /\ j = id /\ l = h)
    <2>1. held[l] \in [Job -> Nat] /\ SumOf(held[l], Job) \in Nat
      BY <1>0, HeldSum DEF LockTypes
    <2>2. CASE queue[i].locks /\ l = h
      <3>1. held' = [held EXCEPT ![h][id] = 0]
        BY <2>2 DEF CancelResearch
      <3>2. held'[l] = [held[l] EXCEPT ![id] = 0]
        BY <1>0, <2>2, <3>1 DEF LockTypes
      <3>3. held'[l] \in [Job -> Nat] /\ SumOf(held'[l], Job) = SumOf(held[l], Job) - held[l][id] + 0
        BY <1>4, <2>1, <3>2, SumWith DEF With
      <3>4. held[l][id] \in Nat
        BY <1>4, <2>1
      <3>5. SumOf(held'[l], Job) <= SumOf(held[l], Job)
        BY <2>1, <3>3, <3>4
      <3> QED
        BY <1>4, <2>1, <3>2, <3>3, <3>5
    <2>3. CASE ~(queue[i].locks /\ l = h)
      <3>1. held'[l] = held[l]
        BY <1>0, <1>4, <2>3 DEF LockTypes, CancelResearch
      <3> QED
        BY <2>1, <2>3, <3>1
    <2> QED
      BY <2>2, <2>3
  <1>6. held' \in [Lab -> [Job -> Nat]]
    <2>1. held' = [l \in Lab |-> held'[l]]
      BY <1>0, Zenon DEF CancelResearch, LockTypes
    <2> QED
      BY <1>5, <2>1
  <1>7. ASSUME NEW l \in Lab, NEW j \in Job, held'[l][j] # 0 PROVE Holds(queue', l, j, held'[l][j])
    <2>1. held'[l][j] = held[l][j] /\ ~(queue[i].locks /\ j = id /\ l = h)
      BY <1>5, <1>7
    <2>2. PICK m \in DOMAIN queue : /\ queue[m].id = j /\ queue[m].host = l /\ queue[m].locks
                                    /\ held[l][j] = TechCost[queue[m].tech]
      BY <1>7, <2>1 DEF LockInv, PricesHeld, Holds
    <2>3. m # i
      BY <2>1, <2>2
    <2>4. PICK k \in DOMAIN queue' : queue'[k] = queue[m]
      BY <1>2, <2>3
    <2> QED
      BY <2>1, <2>2, <2>4 DEF Holds
  <1>8. ASSUME NEW l \in Lab PROVE orphaned[l] + SumOf(held'[l], Job) <= hopper[l]
    <2>1. SumOf(held'[l], Job) \in Nat /\ SumOf(held[l], Job) \in Nat
      BY <1>0, <1>5, JobsFinite, SumIsNat, HeldSum
    <2>2. orphaned[l] \in Nat /\ hopper[l] \in Nat /\ orphaned[l] + SumOf(held[l], Job) <= hopper[l]
      BY <1>0 DEF LockTypes, LockInv, LocksFit
    <2> QED
      BY <1>5, <2>1, <2>2
  <1>9. LockTypes' /\ LocksFit' /\ PricesHeld'
    BY <1>0, <1>3, <1>6, <1>7, <1>8 DEF LockTypes, LocksFit, PricesHeld
  <1> QED
    BY <1>0, <1>1, <1>9 DEF LockInv

LEMMA ReorderQueueLocks ==
  ASSUME LockInv, NEW i, NEW to, ReorderQueue(i, to)
  PROVE  LockInv'
  <1>0. QueueInv /\ QueueInv' /\ Numbered
    BY ReorderQueueKeeps DEF LockInv
  <1>1. Numbered'
    BY <1>0, ReorderDraws, DrawnIsNumbered DEF ReorderQueue
  <1>2. \A m \in DOMAIN queue : \E k \in DOMAIN queue' : queue'[k] = queue[m]
    BY <1>0, ReorderDraws
  <1>3. UNCHANGED <<hopper, orphaned, held, nextJob, site>>
    BY DEF ReorderQueue, materialVars
  <1>4. ASSUME NEW l \in Lab, NEW j \in Job, held[l][j] # 0 PROVE Holds(queue', l, j, held[l][j])
    <2>1. PICK m \in DOMAIN queue : /\ queue[m].id = j /\ queue[m].host = l /\ queue[m].locks
                                    /\ held[l][j] = TechCost[queue[m].tech]
      BY <1>4 DEF LockInv, PricesHeld, Holds
    <2>2. PICK k \in DOMAIN queue' : queue'[k] = queue[m]
      BY <1>2
    <2> QED
      BY <2>1, <2>2 DEF Holds
  <1> QED
    BY <1>0, <1>1, <1>3, <1>4 DEF LockInv, LockTypes, PricesHeld, LocksFit

-----------------------------------------------------------------------------
(* The tick.                                                               *)

LEMMA SelectedIsLit == Powered # {} => Selected \in Lab /\ site[Selected] = "Lit"
  <1> SUFFICES ASSUME Powered # {} PROVE Selected \in Lab /\ site[Selected] = "Lit"
    OBVIOUS
  <1>1. Powered \in SUBSET Nat
    BY ResearchAssumption, Zenon DEF Powered
  <1>2. Min(Powered) \in Powered
    BY <1>1, LeastIsMember
  <1> QED
    BY <1>2 DEF Selected, Powered

(* What becomes of a hopper as its laboratory stays or goes.               *)
LEMMA KeptIs ==
  ASSUME LockInv, NEW l \in Lab
  PROVE  /\ HeldKept[l] \in [Job -> Nat] /\ Kept(orphaned)[l] \in Nat /\ Kept(hopper)[l] \in Nat
         /\ site[l] # "None" => /\ HeldKept[l] = held[l] /\ Kept(orphaned)[l] = orphaned[l]
                                /\ Kept(hopper)[l] = hopper[l]
         /\ site[l] = "None" => /\ Kept(orphaned)[l] = 0 /\ Kept(hopper)[l] = 0
                                /\ \A j \in Job : HeldKept[l][j] = 0
         /\ Kept(orphaned)[l] + SumOf(HeldKept[l], Job) <= Kept(hopper)[l]
  <1>1. hopper[l] \in Nat /\ orphaned[l] \in Nat /\ held[l] \in [Job -> Nat]
    BY DEF LockInv, LockTypes
  <1>2. CASE site[l] = "None"
    <2>1. /\ Kept(orphaned)[l] = 0 /\ Kept(hopper)[l] = 0
          /\ HeldKept[l] \in [Job -> Nat] /\ \A j \in Job : HeldKept[l][j] = 0
      BY <1>2 DEF Kept, HeldKept
    <2>2. SumOf(HeldKept[l], Job) = 0
      BY <2>1, JobsFinite, SumIsZero
    <2> QED
      BY <1>2, <2>1, <2>2
  <1>3. CASE site[l] # "None"
    <2>1. /\ HeldKept[l] = held[l] /\ Kept(orphaned)[l] = orphaned[l]
          /\ Kept(hopper)[l] = hopper[l]
      BY <1>3 DEF Kept, HeldKept
    <2>2. orphaned[l] + SumOf(held[l], Job) <= hopper[l]
      BY DEF LockInv, LocksFit
    <2> QED
      BY <1>1, <1>3, <2>1, <2>2
  <1> QED
    BY <1>2, <1>3

(* What a job holds is held only where it is hosted and has locks; so that *)
(* giving it up leaves the same amount locked in all.                      *)
LEMMA HeldWhereHosted ==
  ASSUME LockInv, NEW i \in DOMAIN queue, NEW l \in Lab, held[l][queue[i].id] # 0
  PROVE  queue[i].locks /\ queue[i].host = l /\ held[l][queue[i].id] = TechCost[queue[i].tech]
  <1>1. queue[i].id \in Job
    <2>1. queue[i] \in Jobs
      BY DEF LockInv, QueueInv, QueueTypes
    <2> QED
      BY <2>1 DEF Jobs
  <1>2. PICK k \in DOMAIN queue :
          /\ queue[k].id = queue[i].id /\ queue[k].host = l /\ queue[k].locks
          /\ held[l][queue[i].id] = TechCost[queue[k].tech]
    BY <1>1 DEF LockInv, PricesHeld, Holds
  <1>3. k = i
    BY <1>2 DEF LockInv, Numbered
  <1> QED
    BY <1>2, <1>3

LEMMA AbandonedIs ==
  ASSUME LockInv, queue # << >>, NEW l \in Lab
  PROVE  /\ HeldWithout(queue[1])[l] \in [Job -> Nat] /\ Abandoned(queue[1])[l] \in Nat
         /\ Abandoned(queue[1])[l] + SumOf(HeldWithout(queue[1])[l], Job)
              = Kept(orphaned)[l] + SumOf(HeldKept[l], Job)
         /\ \A j \in Job : HeldWithout(queue[1])[l][j] = IF j = queue[1].id THEN 0 ELSE HeldKept[l][j]
         /\ SumOf(HeldWithout(queue[1])[l], Job) = SumOf(HeldKept[l], Job) - HeldKept[l][queue[1].id]
  <1>1. PICK job : job = queue[1]
    OBVIOUS
  <1>2. job \in Jobs /\ job.id \in Job /\ 1 \in DOMAIN queue
    <2>1. queue \in Seq(Jobs)
      BY DEF LockInv, QueueInv, QueueTypes
    <2>2. job \in Jobs /\ 1 \in DOMAIN queue
      BY <1>1, <2>1
    <2> QED
      BY <2>2 DEF Jobs
  <1>3. HeldKept[l] \in [Job -> Nat] /\ Kept(orphaned)[l] \in Nat
    BY KeptIs
  <1>4. With(HeldWithout(job)[l], HeldKept[l], job.id, 0)
    BY DEF With, HeldWithout
  <1>5. /\ HeldWithout(job)[l] \in [Job -> Nat]
        /\ SumOf(HeldWithout(job)[l], Job) = SumOf(HeldKept[l], Job) - HeldKept[l][job.id] + 0
    BY <1>2, <1>3, <1>4, SumWith
  <1>6. Abandoned(job)[l] = Kept(orphaned)[l] + HeldKept[l][job.id]
    <2>1. CASE job.locks /\ job.host = l
      BY <2>1 DEF Abandoned
    <2>2. CASE ~(job.locks /\ job.host = l)
      <3>1. held[l][job.id] = 0
        BY <1>1, <1>2, <2>2, HeldWhereHosted
      <3>2. HeldKept[l][job.id] = 0
        BY <1>2, <3>1, KeptIs
      <3>3. Abandoned(job)[l] = Kept(orphaned)[l] + 0
        BY <2>2 DEF Abandoned
      <3> QED
        BY <3>2, <3>3
    <2> QED
      BY <2>1, <2>2
  <1>7. SumOf(HeldKept[l], Job) \in Nat /\ HeldKept[l][job.id] \in Nat
    BY <1>2, <1>3, JobsFinite, SumIsNat
  <1>8. Abandoned(job)[l] + SumOf(HeldWithout(job)[l], Job) = Kept(orphaned)[l] + SumOf(HeldKept[l], Job)
    BY <1>3, <1>5, <1>6, <1>7
  <1>9. Abandoned(job)[l] \in Nat /\ SumOf(HeldWithout(job)[l], Job) = SumOf(HeldKept[l], Job) - HeldKept[l][job.id]
    BY <1>3, <1>5, <1>6, <1>7
  <1>10. \A j \in Job : HeldWithout(job)[l][j] = IF j = job.id THEN 0 ELSE HeldKept[l][j]
    BY <1>2, <1>3, <1>4 DEF With
  <1> QED
    BY <1>1, <1>5, <1>8, <1>9, <1>10

(* The queue after a tick that finishes no job: the first job is another   *)
(* one of the same number and technology.                                  *)
FirstIs(job) ==
  /\ queue' \in Seq(Jobs) /\ DOMAIN queue' = DOMAIN queue /\ 1 \in DOMAIN queue
  /\ queue'[1] = job /\ \A k \in DOMAIN queue : k # 1 => queue'[k] = queue[k]
  /\ job.id = queue[1].id /\ job.tech = queue[1].tech
  /\ job.locks => job.host \in Lab
  /\ UNCHANGED <<nextJob, site>>

LEMMA FirstIsNumbered ==
  ASSUME LockInv, NEW job, FirstIs(job)
  PROVE  Numbered'
  BY DEF FirstIs, LockInv, Numbered

(* Nothing is locked or given up.                                          *)
LEMMA IdleLocks ==
  ASSUME LockInv, QueueInv', Numbered', DOMAIN queue' = DOMAIN queue, UNCHANGED <<nextJob, site>>,
         \A k \in DOMAIN queue : /\ queue'[k].id = queue[k].id /\ queue'[k].tech = queue[k].tech
                                 /\ queue'[k].host = queue[k].host /\ queue'[k].locks = queue[k].locks,
         held' = HeldKept, orphaned' = Kept(orphaned), hopper' = Kept(hopper)
  PROVE  LockInv'
  <1>1. LockTypes'
    <2>1. held' \in [Lab -> [Job -> Nat]]
      BY KeptIs DEF HeldKept
    <2>2. hopper' \in [Lab -> Nat] /\ orphaned' \in [Lab -> Nat]
      BY KeptIs DEF Kept
    <2> QED
      BY <2>1, <2>2 DEF LockTypes, LockInv
  <1>2. LocksFit'
    BY KeptIs DEF LocksFit
  <1>3. ASSUME NEW l \in Lab, NEW j \in Job, held'[l][j] # 0 PROVE Holds(queue', l, j, held'[l][j])
    <2>1. held'[l][j] = held[l][j]
      BY <1>3, KeptIs
    <2>2. PICK m \in DOMAIN queue : /\ queue[m].id = j /\ queue[m].host = l /\ queue[m].locks
                                    /\ held[l][j] = TechCost[queue[m].tech]
      BY <1>3, <2>1 DEF LockInv, PricesHeld, Holds
    <2> QED
      BY <2>1, <2>2 DEF Holds
  <1> QED
    BY <1>1, <1>2, <1>3 DEF LockInv, PricesHeld

(* The first job starts with what it then holds, or starts over with       *)
(* nothing; what it held before is orphaned.                               *)
LEMMA StartsLocks ==
  ASSUME LockInv, queue # << >>, QueueInv', NEW job, FirstIs(job), NEW l \in Lab,
         NEW cost \in Nat, cost # 0 => job.locks /\ job.host = l /\ cost = TechCost[job.tech],
         hopper[l] - LockedIn(l) >= cost, site[l] = "Lit",
         held' = [HeldWithout(queue[1]) EXCEPT ![l][queue[1].id] = cost],
         orphaned' = Abandoned(queue[1]), hopper' = Kept(hopper)
  PROVE  LockInv'
  <1>0. PICK id : id = queue[1].id
    OBVIOUS
  <1>1. id \in Job
    <2>1. queue[1] \in Jobs
      BY DEF LockInv, QueueInv, QueueTypes
    <2> QED
      BY <1>0, <2>1 DEF Jobs
  <1> DEFINE was == HeldWithout(queue[1])
  <1>2. was = [m \in Lab |-> was[m]]
    BY DEF HeldWithout
  <1>3. \A m \in Lab : was[m] \in [Job -> Nat] /\ was[m][id] = 0
    BY <1>0, <1>1, AbandonedIs
  <1> HIDE DEF was
  <1>4. held' = [was EXCEPT ![l][id] = cost]
    BY <1>0 DEF was
  <1>5. With(held'[l], was[l], id, cost)
    BY <1>2, <1>4, Zenon DEF With
  <1>6. \A m \in Lab : m # l => held'[m] = was[m]
    BY <1>2, <1>4
  <1>7. held'[l] \in [Job -> Nat] /\ SumOf(held'[l], Job) = SumOf(was[l], Job) - 0 + cost
    <2>1. was[l] \in [Job -> Nat] /\ was[l][id] = 0
      BY <1>3
    <2>2. held'[l] \in [Job -> Nat] /\ SumOf(held'[l], Job) = SumOf(was[l], Job) - was[l][id] + cost
      <3>1. PICK f, h : f = was[l] /\ h = held'[l]
        OBVIOUS
      <3>2. f \in [Job -> Nat] /\ With(h, f, id, cost)
        BY <1>5, <2>1, <3>1
      <3>3. h \in [Job -> Nat] /\ SumOf(h, Job) = SumOf(f, Job) - f[id] + cost
        BY <1>1, <3>2, SumWith
      <3> QED
        BY <3>1, <3>3
    <2> QED
      BY <2>1, <2>2
  <1>8. held' \in [Lab -> [Job -> Nat]]
    <2>1. held' = [m \in Lab |-> held'[m]]
      BY <1>2, <1>4
    <2> QED
      BY <1>3, <1>6, <1>7, <2>1, Zenon
  <1>9. LockTypes'
    <2>1. \A m \in Lab : Abandoned(queue[1])[m] \in Nat /\ Kept(hopper)[m] \in Nat
      BY AbandonedIs, KeptIs
    <2>2. hopper' \in [Lab -> Nat] /\ orphaned' \in [Lab -> Nat]
      BY <2>1 DEF Kept, Abandoned
    <2> QED
      BY <1>8, <2>2 DEF LockTypes, LockInv, FirstIs
  <1>10. ASSUME NEW m \in Lab PROVE orphaned'[m] + SumOf(held'[m], Job) <= hopper'[m]
    <2>1. /\ orphaned'[m] + SumOf(was[m], Job) = Kept(orphaned)[m] + SumOf(HeldKept[m], Job)
          /\ orphaned'[m] \in Nat
      BY AbandonedIs DEF was
    <2>2. Kept(orphaned)[m] + SumOf(HeldKept[m], Job) <= hopper'[m] /\ hopper'[m] \in Nat
      BY KeptIs
    <2>3. CASE m # l
      BY <1>6, <2>1, <2>2, <2>3
    <2>4. CASE m = l
      <3>1. /\ hopper'[m] = hopper[l] /\ Kept(orphaned)[m] + SumOf(HeldKept[m], Job) = LockedIn(l)
        BY <2>4, KeptIs, LockedSum
      <3>2. SumOf(was[m], Job) \in Nat
        BY <1>3, JobsFinite, SumIsNat
      <3>3. SumOf(held'[m], Job) = SumOf(was[m], Job) + cost
        BY <1>7, <2>4, <3>2
      <3>4. hopper[l] \in Nat
        BY DEF LockInv, LockTypes
      <3> QED
        BY <2>1, <3>1, <3>2, <3>3, <3>4
    <2> QED
      BY <2>3, <2>4
  <1>11. ASSUME NEW m \in Lab, NEW j \in Job, held'[m][j] # 0 PROVE Holds(queue', m, j, held'[m][j])
    <2>1. CASE j = id
      <3>1. m = l /\ held'[m][j] = cost
        BY <1>1, <1>3, <1>5, <1>6, <1>11, <2>1 DEF With
      <3>2. /\ 1 \in DOMAIN queue' /\ queue'[1] = job /\ job.id = id
        BY <1>0 DEF FirstIs
      <3> QED
        BY <1>11, <2>1, <3>1, <3>2 DEF Holds
    <2>2. CASE j # id
      <3>1. held'[m][j] = was[m][j]
        BY <1>3, <1>5, <1>6, <2>2 DEF With
      <3>2. was[m][j] = HeldKept[m][j]
        BY <1>0, <2>2, AbandonedIs DEF was
      <3>3. held'[m][j] = held[m][j]
        BY <1>11, <3>1, <3>2, KeptIs
      <3>4. PICK k \in DOMAIN queue : /\ queue[k].id = j /\ queue[k].host = m /\ queue[k].locks
                                      /\ held[m][j] = TechCost[queue[k].tech]
        BY <1>11, <3>3 DEF LockInv, PricesHeld, Holds
      <3>5. k # 1 /\ k \in DOMAIN queue' /\ queue'[k] = queue[k]
        BY <1>0, <2>2, <3>4 DEF FirstIs
      <3> QED
        BY <3>3, <3>4, <3>5 DEF Holds
    <2> QED
      BY <2>1, <2>2
  <1>12. Numbered'
    BY FirstIsNumbered
  <1> QED
    BY <1>9, <1>10, <1>11, <1>12 DEF LockInv, LocksFit, PricesHeld

(* The first job is finished: what it holds is consumed.                   *)
LEMMA FinishLocks ==
  ASSUME LockInv, queue # << >>, QueueInv', NEW l \in Lab, site[l] = "Lit",
         ~queue[1].locks \/ queue[1].host = l,
         queue' = Tail(queue), UNCHANGED <<nextJob, site>>,
         held' = HeldWithout(queue[1]), orphaned' = Kept(orphaned),
         hopper' = [Kept(hopper) EXCEPT ![l] = Kept(hopper)[l] - held[l][queue[1].id]]
  PROVE  LockInv'
  <1>0. PICK id : id = queue[1].id
    OBVIOUS
  <1>1. id \in Job /\ 1 \in DOMAIN queue
    <2>1. queue \in Seq(Jobs)
      BY DEF LockInv, QueueInv, QueueTypes
    <2>2. queue[1] \in Jobs /\ 1 \in DOMAIN queue
      BY <2>1
    <2> QED
      BY <1>0, <2>2 DEF Jobs
  <1>2. \A m \in Lab : m # l => HeldKept[m][id] = 0
    <2>1. \A m \in Lab : m # l => held[m][id] = 0
      BY <1>0, <1>1, HeldWhereHosted
    <2> QED
      BY <1>1, <2>1, KeptIs
  <1>3. HeldKept[l][id] = held[l][id] /\ held[l][id] \in Nat
    BY <1>1, KeptIs, Zenon DEF LockInv, LockTypes
  <1>4. ASSUME NEW m \in Lab
        PROVE  /\ SumOf(held'[m], Job) = SumOf(HeldKept[m], Job) - HeldKept[m][id]
               /\ held'[m] \in [Job -> Nat] /\ SumOf(held'[m], Job) \in Nat
               /\ SumOf(HeldKept[m], Job) \in Nat
               /\ hopper'[m] = Kept(hopper)[m] - HeldKept[m][id]
    <2>1. /\ held'[m] \in [Job -> Nat]
          /\ SumOf(held'[m], Job) = SumOf(HeldKept[m], Job) - HeldKept[m][id]
      BY <1>0, AbandonedIs
    <2>2. HeldKept[m] \in [Job -> Nat] /\ Kept(hopper)[m] \in Nat
      BY KeptIs
    <2>3. SumOf(held'[m], Job) \in Nat /\ SumOf(HeldKept[m], Job) \in Nat
      BY <2>1, <2>2, JobsFinite, SumIsNat
    <2>4. hopper'[m] = IF m = l THEN Kept(hopper)[m] - held[l][id] ELSE Kept(hopper)[m]
      BY <1>0 DEF Kept
    <2>5. hopper'[m] = Kept(hopper)[m] - HeldKept[m][id]
      BY <1>2, <1>3, <2>2, <2>4
    <2> QED
      BY <2>1, <2>3, <2>5
  <1>5. ASSUME NEW m \in Lab PROVE hopper'[m] \in Nat /\ orphaned'[m] + SumOf(held'[m], Job) <= hopper'[m]
    <2>1. /\ Kept(orphaned)[m] + SumOf(HeldKept[m], Job) <= Kept(hopper)[m]
          /\ Kept(orphaned)[m] \in Nat /\ Kept(hopper)[m] \in Nat /\ HeldKept[m][id] \in Nat
      BY <1>1, KeptIs
    <2>2. HeldKept[m][id] <= SumOf(HeldKept[m], Job)
      <3>1. HeldKept[m] \in [Job -> Nat]
        BY KeptIs
      <3> QED
        BY <1>1, <3>1, JobsFinite, SumIsNat
    <2> QED
      BY <1>4, <2>1, <2>2
  <1>6. LockTypes'
    <2>1. held' \in [Lab -> [Job -> Nat]]
      <3>1. held' = [m \in Lab |-> held'[m]]
        BY DEF HeldWithout
      <3> QED
        BY <1>4, <3>1
    <2>2. hopper' \in [Lab -> Nat]
      <3>1. hopper' = [m \in Lab |-> hopper'[m]]
        BY Zenon DEF Kept
      <3> QED
        BY <1>5, <3>1, Zenon
    <2>3. orphaned' \in [Lab -> Nat]
      BY KeptIs DEF Kept
    <2> QED
      BY <2>1, <2>2, <2>3 DEF LockTypes, LockInv
  <1>7. /\ Len(queue) \in Nat /\ DOMAIN queue = 1 .. Len(queue) /\ DOMAIN queue' = 1 .. Len(queue) - 1
        /\ \A k \in DOMAIN queue' : queue'[k] = queue[k + 1]
    BY DEF LockInv, QueueInv, QueueTypes
  <1>8. Numbered'
    <2>1. \A k \in DOMAIN queue' : k + 1 \in DOMAIN queue
      BY <1>7
    <2>2. \A k \in DOMAIN queue' : queue'[k].id < nextJob' /\ (queue'[k].locks => queue'[k].host \in Lab)
      BY <1>7, <2>1 DEF LockInv, Numbered
    <2>3. \A k, m \in DOMAIN queue' : queue'[k].id = queue'[m].id => k + 1 = m + 1
      BY <1>7, <2>1 DEF LockInv, Numbered
    <2>4. \A k, m \in DOMAIN queue' : queue'[k].id = queue'[m].id => k = m
      BY <1>7, <2>3
    <2> QED
      BY <2>2, <2>4 DEF Numbered
  <1>9. ASSUME NEW m \in Lab, NEW j \in Job, held'[m][j] # 0 PROVE Holds(queue', m, j, held'[m][j])
    <2>1. j # id /\ held'[m][j] = HeldKept[m][j]
      BY <1>0, <1>9, AbandonedIs
    <2>2. held'[m][j] = held[m][j]
      BY <1>9, <2>1, KeptIs
    <2>3. PICK k \in DOMAIN queue : /\ queue[k].id = j /\ queue[k].host = m /\ queue[k].locks
                                    /\ held[m][j] = TechCost[queue[k].tech]
      BY <1>9, <2>2 DEF LockInv, PricesHeld, Holds
    <2>4. k # 1
      BY <1>0, <2>1, <2>3
    <2>5. k - 1 \in DOMAIN queue' /\ queue'[k - 1] = queue[k]
      BY <1>7, <2>4
    <2> QED
      BY <2>2, <2>3, <2>5 DEF Holds
  <1> QED
    BY <1>5, <1>6, <1>8, <1>9 DEF LockInv, LocksFit, PricesHeld

LEMMA RunsJobLocks ==
  ASSUME LockInv, queue # << >>, RunsJob(queue[1]), UNCHANGED <<tree, nextJob, site>>
  PROVE  LockInv'
  <1> DEFINE job == queue[1]
  <1>0. QueueInv /\ QueueInv'
    BY RunsJobKeeps DEF LockInv
  <1>1. /\ queue \in Seq(Jobs) /\ queue' \in Seq(Jobs) /\ 1 \in DOMAIN queue /\ job \in Jobs
    <2>1. queue \in Seq(Jobs) /\ queue' \in Seq(Jobs)
      BY <1>0 DEF QueueInv, QueueTypes
    <2> QED
      BY <2>1
  <1>2. Numbered
    BY DEF LockInv
  <1>3. ASSUME NEW new \in Jobs, new.id = job.id, new.tech = job.tech, new.locks => new.host \in Lab,
               queue' = [queue EXCEPT ![1] = new]
        PROVE  FirstIs(new)
    <2>1. /\ DOMAIN queue' = DOMAIN queue /\ queue'[1] = new
          /\ \A k \in DOMAIN queue : k # 1 => queue'[k] = queue[k]
      BY <1>1, <1>3
    <2> QED
      BY <1>1, <1>3, <2>1 DEF FirstIs
  <1>4. ASSUME NEW new \in Jobs, new.id = job.id, new.tech = job.tech, new.host = job.host,
               new.locks = job.locks, queue' = [queue EXCEPT ![1] = new],
               held' = HeldKept, orphaned' = Kept(orphaned), hopper' = Kept(hopper)
        PROVE  LockInv'
    <2>1. new.locks => new.host \in Lab
      BY <1>1, <1>2, <1>4, Zenon DEF Numbered
    <2>2. FirstIs(new)
      BY <1>3, <1>4, <2>1, Zenon
    <2>3. Numbered'
      BY <2>2, FirstIsNumbered
    <2>4. \A k \in DOMAIN queue : /\ queue'[k].id = queue[k].id /\ queue'[k].tech = queue[k].tech
                                  /\ queue'[k].host = queue[k].host /\ queue'[k].locks = queue[k].locks
      BY <1>4, <2>2 DEF FirstIs
    <2>5. DOMAIN queue' = DOMAIN queue
      BY <2>2 DEF FirstIs
    <2> QED
      BY <1>0, <1>4, <2>3, <2>4, <2>5, IdleLocks
  <1>5. ASSUME NEW state \in States, Waits(job, state) PROVE LockInv'
    <2> DEFINE new == [job EXCEPT !.state = state]
    <2>1. queue' = [queue EXCEPT ![1] = new]
      BY <1>5 DEF Waits
    <2>2. /\ new \in Jobs /\ new.id = job.id /\ new.tech = job.tech /\ new.host = job.host
          /\ new.locks = job.locks
      BY <1>1, Zenon DEF Jobs
    <2>3. held' = HeldKept /\ orphaned' = Kept(orphaned) /\ hopper' = Kept(hopper)
      BY <1>5 DEF Waits
    <2> HIDE DEF new
    <2> QED
      BY <1>4, <2>1, <2>2, <2>3, Zenon
  <1>6. ASSUME Advances(job) PROVE LockInv'
    <2>0. PICK p \in Nat : p = job.progress + 1
      BY <1>1 DEF Jobs
    <2> DEFINE new == [job EXCEPT !.progress = p]
    <2>1. queue' = [queue EXCEPT ![1] = new]
      BY <1>6, <2>0 DEF Advances
    <2>2. /\ new \in Jobs /\ new.id = job.id /\ new.tech = job.tech /\ new.host = job.host
          /\ new.locks = job.locks
      BY <1>1, Zenon DEF Jobs
    <2>3. held' = HeldKept /\ orphaned' = Kept(orphaned) /\ hopper' = Kept(hopper)
      BY <1>6 DEF Advances
    <2> HIDE DEF new
    <2> QED
      BY <1>4, <2>1, <2>2, <2>3, Zenon
  <1>7. ASSUME Powered # {}, Affordable(job.tech, Selected), Starts(job, Selected) PROVE LockInv'
    <2>0. PICK l : l = Selected
      OBVIOUS
    <2>1. l \in Lab /\ site[l] = "Lit"
      BY <1>7, <2>0, SelectedIsLit
    <2> DEFINE new == [job EXCEPT !.state = "InProgress", !.host = l, !.locks = TRUE,
                                  !.progress = 0, !.total = ResearchTicks(job)]
    <2>2. queue' = [queue EXCEPT ![1] = new]
      BY <1>7, <2>0, Zenon DEF Starts
    <2>3. ResearchTicks(job) \in Durations
      BY <1>0, <1>1 DEF ResearchTicks, Durations, Jobs, QueueInv, QueueTypes
    <2>4. l \in Hosting
      <3>1. Powered \in SUBSET Lab
        BY DEF Powered
      <3> QED
        BY <1>7, <2>0, <3>1 DEF Selected, Hosting
    <2>5. /\ new \in Jobs /\ new.id = job.id /\ new.tech = job.tech /\ new.host = l /\ new.locks
      BY <1>1, <2>3, <2>4, Zenon DEF Jobs, States
    <2> HIDE DEF new
    <2>6. FirstIs(new)
      BY <1>3, <2>1, <2>2, <2>5, Zenon
    <2>7. PICK cost \in Nat : cost = TechCost[job.tech]
      <3>1. job.tech \in Tech
        BY <1>1 DEF Jobs
      <3> QED
        BY <3>1, ResearchAssumption, Zenon
    <2>8. hopper[l] - LockedIn(l) >= cost
      BY <1>7, <2>0, <2>7 DEF Affordable
    <2>9. /\ held' = [HeldWithout(job) EXCEPT ![l][job.id] = cost]
          /\ orphaned' = Abandoned(job) /\ hopper' = Kept(hopper)
      BY <1>7, <2>0, <2>7 DEF Starts
    <2>10. cost # 0 => new.locks /\ new.host = l /\ cost = TechCost[new.tech]
      BY <2>5, <2>7
    <2> QED
      BY <1>0, <2>1, <2>6, <2>8, <2>9, <2>10, StartsLocks
  <1>8. ASSUME Powered # {}, Finishes(job, Selected) PROVE LockInv'
    <2>0. PICK l : l = Selected
      OBVIOUS
    <2>1. l \in Lab /\ site[l] = "Lit"
      BY <1>8, <2>0, SelectedIsLit
    <2>2. CASE ~job.locks \/ job.host = l
      <3>1. /\ queue' = Tail(queue) /\ held' = HeldWithout(job) /\ orphaned' = Kept(orphaned)
            /\ hopper' = [Kept(hopper) EXCEPT ![l] = Kept(hopper)[l] - held[l][job.id]]
        BY <1>8, <2>0, <2>2 DEF Finishes
      <3> QED
        BY <1>0, <2>1, <2>2, <3>1, FinishLocks, Zenon
    <2>3. CASE ~(~job.locks \/ job.host = l)
      <3> DEFINE new == [job EXCEPT !.state = "AwaitingResources", !.locks = FALSE, !.progress = 0]
      <3>1. /\ queue' = [queue EXCEPT ![1] = new]
            /\ held' = HeldWithout(job) /\ orphaned' = Abandoned(job) /\ hopper' = Kept(hopper)
        BY <1>8, <2>0, <2>3, Zenon DEF Finishes
      <3>2. new \in Jobs /\ new.id = job.id /\ new.tech = job.tech /\ ~new.locks
        BY <1>1, Zenon DEF Jobs, States
      <3> HIDE DEF new
      <3>3. FirstIs(new)
        BY <1>3, <3>1, <3>2, Zenon
      <3>4. job.id \in Job
        BY <1>1 DEF Jobs
      <3>5. HeldWithout(job)[l][job.id] = 0
        BY <2>1, <3>4, AbandonedIs
      <3>6. held' = [HeldWithout(job) EXCEPT ![l][job.id] = 0]
        <4>1. HeldWithout(job) = [m \in Lab |-> HeldWithout(job)[m]]
          BY DEF HeldWithout
        <4>2. HeldWithout(job)[l] \in [Job -> Nat]
          BY <2>1, AbandonedIs
        <4>3. [HeldWithout(job)[l] EXCEPT ![job.id] = 0] = HeldWithout(job)[l]
          BY <3>4, <3>5, <4>2
        <4> QED
          BY <2>1, <3>1, <4>1, <4>3
      <3>7. hopper[l] - LockedIn(l) >= 0
        <4>1. /\ LockedIn(l) = orphaned[l] + SumOf(held[l], Job) /\ hopper[l] \in Nat
              /\ orphaned[l] \in Nat /\ SumOf(held[l], Job) \in Nat
              /\ orphaned[l] + SumOf(held[l], Job) <= hopper[l]
          BY <2>1, LockedSum, HeldSum DEF LockInv, LockTypes, LocksFit
        <4> QED
          BY <4>1
      <3> QED
        BY <1>0, <2>1, <3>1, <3>3, <3>6, <3>7, StartsLocks
    <2> QED
      BY <2>2, <2>3
  <1>9. job.state \in States
    BY <1>1 DEF Jobs
  <1> HIDE DEF job
  <1>10. RunsJob(job)
    BY DEF job
  <1> QED
    BY <1>5, <1>6, <1>7, <1>8, <1>9, <1>10, Zenon DEF RunsJob, States

LEMMA LocksInductive == LockInv /\ [ResearchNext]_researchVars => LockInv'
  <1> SUFFICES ASSUME LockInv, [ResearchNext]_researchVars PROVE LockInv'
    OBVIOUS
  <1>0. QueueInv'
    BY ResearchInductive DEF LockInv
  <1>1. CASE UNCHANGED <<queue, held, orphaned, hopper, nextJob, site>>
    BY <1>0, <1>1 DEF LockInv, LockTypes, Numbered, PricesHeld, LocksFit
  <1>2. CASE ResearchCommands
    BY <1>2, QueueResearchLocks, CancelResearchLocks, ReorderQueueLocks DEF ResearchCommands
  <1>3. CASE (\E t \in Tech : GrantTech(t)) \/ UNCHANGED researchVars
    BY <1>1, <1>3 DEF GrantTech, researchVars, materialVars
  <1>4. ASSUME NEW l \in Lab, NEW now, SiteChanges(l, now) PROVE LockInv'
    <2>1. UNCHANGED <<queue, held, orphaned, hopper, nextJob>> /\ site' = [m \in Lab |-> site'[m]]
      BY <1>4, Zenon DEF SiteChanges, LockInv, LockTypes, materialVars
    <2> QED
      BY <1>0, <2>1 DEF LockInv, LockTypes, Numbered, PricesHeld, LocksFit
  <1>5. ASSUME NEW l \in Lab, Deliver(l) PROVE LockInv'
    <2>1. UNCHANGED <<queue, held, orphaned, nextJob, site>>
      BY <1>5 DEF Deliver
    <2>2. \A m \in Lab : hopper'[m] \in Nat /\ hopper'[m] >= hopper[m] /\ hopper[m] \in Nat
      BY <1>5 DEF Deliver, LockInv, LockTypes
    <2>3. hopper' \in [Lab -> Nat]
      BY <1>5 DEF Deliver, LockInv, LockTypes
    <2>4. LocksFit'
      <3>1. \A m \in Lab : /\ orphaned[m] \in Nat /\ SumOf(held[m], Job) \in Nat
                            /\ orphaned[m] + SumOf(held[m], Job) <= hopper[m]
        BY HeldSum DEF LockInv, LockTypes, LocksFit
      <3>2. \A m \in Lab : orphaned[m] + SumOf(held[m], Job) <= hopper'[m]
        BY <2>2, <3>1
      <3> QED
        BY <2>1, <3>2 DEF LocksFit
    <2> QED
      BY <1>0, <2>1, <2>3, <2>4 DEF LockInv, LockTypes, Numbered, PricesHeld
  <1>6. CASE ResearchTick
    <2>1. CASE queue # << >>
      BY <1>6, <2>1, RunsJobLocks DEF ResearchTick
    <2>2. CASE queue = << >>
      <3>1. /\ UNCHANGED <<queue, nextJob, site>>
            /\ held' = HeldKept /\ orphaned' = Kept(orphaned) /\ hopper' = Kept(hopper)
        BY <1>6, <2>2 DEF ResearchTick
      <3>2. Numbered'
        BY <3>1 DEF LockInv, Numbered
      <3> QED
        BY <1>0, <3>1, <3>2, IdleLocks
    <2> QED
      BY <2>1, <2>2
  <1> QED
    BY <1>2, <1>3, <1>4, <1>5, <1>6 DEF ResearchNext

LEMMA LocksInitially == ResearchInit => LockInv
  <1> SUFFICES ASSUME ResearchInit PROVE LockInv
    OBVIOUS
  <1>1. QueueInv /\ LockTypes /\ Numbered
    BY DEF ResearchInit, QueueInv, QueueTypes, PrerequisitesFirst, LockTypes, Numbered
  <1>2. PricesHeld
    BY DEF ResearchInit, PricesHeld
  <1>3. LocksFit
    <2> SUFFICES ASSUME NEW l \in Lab PROVE orphaned[l] + SumOf(held[l], Job) <= hopper[l]
      BY DEF LocksFit
    <2>1. orphaned[l] = 0 /\ hopper[l] = 0 /\ held[l] \in [Job -> Nat] /\ \A j \in Job : held[l][j] = 0
      BY DEF ResearchInit
    <2>2. SumOf(held[l], Job) = 0
      BY <2>1, JobsFinite, SumIsZero
    <2> QED
      BY <2>1, <2>2
  <1> QED
    BY <1>1, <1>2, <1>3 DEF LockInv

LEMMA ResearchLocks == ResearchSpec => []LockInv
  BY LocksInitially, LocksInductive, PTL DEF ResearchSpec

(* Material is locked for a queued job, where it is hosted, and there is   *)
(* enough of it (research.rs:1000-1260).                                   *)
THEOREM ResearchLocksOwned == ResearchSpec => []LocksHaveOwners
  BY ResearchLocks, LocksDoHaveOwners, PTL

-----------------------------------------------------------------------------
(* What a step takes out of the hoppers of laboratories that are there.    *)
OnlySpent(l) ==
  site[l] # "None" /\ Spent(l) > 0 =>
    \E t \in Tech : Finished(t) /\ Spent(l) = TechCost[t]
                    /\ \A m \in Lab : m # l /\ site[m] # "None" => Spent(m) = 0

LEMMA NothingSpent ==
  ASSUME \A l \in Lab : site[l] # "None" => ~(Spent(l) > 0)
  PROVE  \A l \in Lab : OnlySpent(l)
  BY DEF OnlySpent

LEMMA KeptSpendsNothing ==
  ASSUME LockInv, hopper' = Kept(hopper)
  PROVE  \A l \in Lab : OnlySpent(l)
  <1> SUFFICES ASSUME NEW l \in Lab, site[l] # "None" PROVE ~(Spent(l) > 0)
    BY NothingSpent
  <1>1. hopper'[l] = hopper[l] /\ hopper[l] \in Nat
    BY DEF Kept, LockInv, LockTypes
  <1> QED
    BY <1>1 DEF Spent

LEMMA FinishSpends ==
  ASSUME LockInv, queue # << >>, NEW l \in Lab,
         queue' = Tail(queue), completed' = completed \cup {queue[1].tech},
         hopper' = [Kept(hopper) EXCEPT ![l] = Kept(hopper)[l] - held[l][queue[1].id]]
  PROVE  \A m \in Lab : OnlySpent(m)
  <1>1. PICK job : job = queue[1]
    OBVIOUS
  <1>2. job \in Jobs /\ 1 \in DOMAIN queue
    <2>1. queue \in Seq(Jobs)
      BY DEF LockInv, QueueInv, QueueTypes
    <2> QED
      BY <1>1, <2>1
  <1>3. job.id \in Job /\ job.tech \in Tech
    BY <1>2 DEF Jobs
  <1>4. \A m \in Lab : m # l /\ site[m] # "None" => Spent(m) = 0
    <2> SUFFICES ASSUME NEW m \in Lab, m # l, site[m] # "None" PROVE Spent(m) = 0
      OBVIOUS
    <2>1. hopper'[m] = hopper[m] /\ hopper[m] \in Nat
      BY DEF Kept, LockInv, LockTypes
    <2> QED
      BY <2>1 DEF Spent
  <1>5. site[l] # "None" => Spent(l) = held[l][job.id]
    <2> SUFFICES ASSUME site[l] # "None" PROVE Spent(l) = held[l][job.id]
      OBVIOUS
    <2>1. hopper'[l] = hopper[l] - held[l][job.id] /\ hopper[l] \in Nat
      BY <1>1 DEF Kept, LockInv, LockTypes
    <2>2. held[l][job.id] \in Nat
      BY <1>3 DEF LockInv, LockTypes
    <2> QED
      BY <2>1, <2>2 DEF Spent
  <1>6. Finished(job.tech)
    BY <1>1 DEF Finished
  <1>7. ASSUME NEW m \in Lab, site[m] # "None", Spent(m) > 0
        PROVE  Spent(m) = TechCost[job.tech] /\ m = l
    <2>1. m = l
      BY <1>4, <1>7
    <2>2. held[l][job.id] # 0
      BY <1>5, <1>7, <2>1
    <2>3. held[l][job.id] = TechCost[job.tech]
      BY <1>1, <1>2, <2>2, HeldWhereHosted
    <2> QED
      BY <1>5, <1>7, <2>1, <2>3
  <1> QED
    BY <1>3, <1>4, <1>6, <1>7 DEF OnlySpent

LEMMA RunsJobSpends ==
  ASSUME LockInv, queue # << >>, RunsJob(queue[1])
  PROVE  \A l \in Lab : OnlySpent(l)
  <1>1. PICK job : job = queue[1]
    OBVIOUS
  <1>2. job.state \in States
    <2>1. queue \in Seq(Jobs)
      BY DEF LockInv, QueueInv, QueueTypes
    <2>2. job \in Jobs
      BY <1>1, <2>1
    <2> QED
      BY <2>2 DEF Jobs
  <1>3. ASSUME NEW state, Waits(job, state) PROVE \A l \in Lab : OnlySpent(l)
    BY <1>3, KeptSpendsNothing DEF Waits
  <1>4. ASSUME Starts(job, Selected) PROVE \A l \in Lab : OnlySpent(l)
    BY <1>4, KeptSpendsNothing DEF Starts
  <1>5. ASSUME Advances(job) PROVE \A l \in Lab : OnlySpent(l)
    BY <1>5, KeptSpendsNothing DEF Advances
  <1>6. ASSUME Powered # {}, Finishes(job, Selected) PROVE \A l \in Lab : OnlySpent(l)
    <2>0. PICK l : l = Selected
      OBVIOUS
    <2>1. l \in Lab
      BY <1>6, <2>0, SelectedIsLit
    <2>2. CASE ~job.locks \/ job.host = l
      <3>1. /\ queue' = Tail(queue) /\ completed' = completed \cup {job.tech}
            /\ hopper' = [Kept(hopper) EXCEPT ![l] = Kept(hopper)[l] - held[l][job.id]]
        BY <1>6, <2>0, <2>2 DEF Finishes
      <3> QED
        BY <1>1, <2>1, <3>1, FinishSpends, Zenon
    <2>3. CASE ~(~job.locks \/ job.host = l)
      BY <1>6, <2>0, <2>3, KeptSpendsNothing DEF Finishes
    <2> QED
      BY <2>2, <2>3
  <1>7. RunsJob(job)
    BY <1>1
  <1> QED
    BY <1>2, <1>3, <1>4, <1>5, <1>6, <1>7, Zenon DEF RunsJob, States

LEMMA StepSpends ==
  ASSUME LockInv, [ResearchNext]_researchVars
  PROVE  \A l \in Lab : OnlySpent(l)
  <1>1. CASE UNCHANGED hopper
    <2>1. \A l \in Lab : hopper[l] \in Nat
      BY DEF LockInv, LockTypes
    <2> QED
      BY <1>1, <2>1, NothingSpent DEF Spent
  <1>2. CASE ResearchCommands
    BY <1>1, <1>2, Zenon DEF ResearchCommands, QueueResearch, CancelResearch, ReorderQueue, materialVars
  <1>3. CASE (\E t \in Tech : GrantTech(t)) \/ UNCHANGED researchVars
             \/ \E l \in Lab, now \in {"None", "Off", "Dark", "Lit"} : SiteChanges(l, now)
    BY <1>1, <1>3 DEF GrantTech, SiteChanges, researchVars, materialVars
  <1>4. ASSUME NEW l \in Lab, Deliver(l) PROVE \A m \in Lab : OnlySpent(m)
    <2>1. \A m \in Lab : hopper'[m] \in Nat /\ hopper[m] \in Nat /\ hopper'[m] >= hopper[m]
      BY <1>4 DEF Deliver, LockInv, LockTypes
    <2>2. \A m \in Lab : ~(Spent(m) > 0)
      BY <2>1 DEF Spent
    <2> QED
      BY <2>2, NothingSpent
  <1>5. CASE ResearchTick
    <2>1. CASE queue # << >>
      BY <1>5, <2>1, RunsJobSpends DEF ResearchTick
    <2>2. CASE queue = << >>
      BY <1>5, <2>2, KeptSpendsNothing DEF ResearchTick
    <2> QED
      BY <2>1, <2>2
  <1> QED
    BY <1>2, <1>3, <1>4, <1>5 DEF ResearchNext

(* A hopper pays for a technology that is finished in the same step, once, *)
(* and the patch follows at once (research.rs:1143-1290).                  *)
THEOREM ResearchSpendsOnce == ResearchSpec => SpentOnResearch
  <1>1. LockInv /\ [ResearchNext]_researchVars =>
          [/\ \A l \in Lab : site[l] # "None" /\ Spent(l) > 0 =>
                \E t \in Tech : Finished(t) /\ Spent(l) = TechCost[t]
                                /\ \A m \in Lab : m # l /\ site[m] # "None" => Spent(m) = 0
           /\ ResearchTick => published' = completed']_researchVars
    <2> SUFFICES ASSUME LockInv, [ResearchNext]_researchVars
                 PROVE /\ \A l \in Lab : OnlySpent(l)
                       /\ ResearchTick => published' = completed'
      BY DEF OnlySpent
    <2>1. ResearchTick => published' = completed'
      BY DEF ResearchTick, DistributedPatch
    <2> QED
      BY <2>1, StepSpends
  <1> QED
    BY <1>1, ResearchLocks, PTL DEF ResearchSpec, SpentOnResearch
=============================================================================
