------------------------------ MODULE MCField ------------------------------
(* A match as it is played: bodies fight, factions watch each other and the *)
(* provider watches the commands, entities and messages cross regions, and  *)
(* clients send, predict, draw and build; one of the four goes on while the *)
(* others stand still.                                                     *)
EXTENDS MCBattle, MCMatch, Regions, MCClient

(* Three regions, one of which is not on the map at the start.             *)
CONSTANTS r1, r2, r3, p1, MaxRegionTick

VARIABLE work   \* what goes on: "map" or "mail"

MCInitialState == [r \in RegionId |-> IF r = r1 THEN "Hot" ELSE IF r = r2 THEN "Cold" ELSE "None"]

(* Entities come and move while the clock stands; or regions change their  *)
(* state and write to each other, and one entity at most puts a region on  *)
(* the map.                                                                *)
WorkInit == RegionsInit /\ work \in {"map", "mail"}
WorkNext ==
  /\ UNCHANGED work
  /\ \/ work = "map" /\ MapNext /\ UNCHANGED <<mailvars, clockvars>>
     \/ /\ work = "mail"
        /\ \/ entity = << >> /\ CreateEntity(p1, r3) /\ UNCHANGED <<mailvars, clockvars>>
           \/ /\ \E r \in {r2, r3}, state \in {"Hot", "Warm", "Cold"} : SetRegionState(r, state)
              /\ UNCHANGED <<mailvars, clockvars>>
           \/ /\ \E r \in {r2, r3} :
                   Send(r) \/ \E policy \in {"Reject", "DropOldest"} : SetRegionQueuePolicy(r, DefaultCapacity, policy)
              /\ UNCHANGED <<mapvars, clockvars>>
           \/ /\ Cardinality(wakeups) < 2
              /\ \E at \in tick + 1 .. tick + 2 : ScheduleWakeup(at, r2)
              /\ UNCHANGED <<mapvars, mailvars>>
           \/ tick < MaxRegionTick /\ SchedulerTick
WorkSpec == WorkInit /\ [][WorkNext]_<<mapvars, mailvars, clockvars, work>>

VARIABLE part   \* "battle", "match", "regions" or "client"

BattleVars == <<battleVars, scene, left>>
MatchVars == <<worldvars, knowledgevars, settled, providervars, focus>>
WorkVars == <<mapvars, mailvars, clockvars, work>>

FieldInit ==
  /\ part \in {"battle", "match", "regions", "client"}
  /\ SceneInit /\ FocusInit /\ WorkInit /\ ClientInit
  /\ part # "battle" => scene = "roster" /\ left = 2
  /\ part # "match" => focus = "commands" /\ unit[2] = <<0, 0>>
  /\ part # "regions" => work = "map"
  /\ part # "client" => task = "wire" /\ medium = "Udp"
FieldNext ==
  /\ UNCHANGED part
  /\ \/ part = "battle" /\ UNCHANGED <<MatchVars, WorkVars, ClientVars>> /\ SceneNext
     \/ part = "match" /\ UNCHANGED <<BattleVars, WorkVars, ClientVars>> /\ FocusNext
     \/ part = "regions" /\ UNCHANGED <<BattleVars, MatchVars, ClientVars>> /\ WorkNext
     \/ part = "client" /\ UNCHANGED <<BattleVars, MatchVars, WorkVars>> /\ ClientNext
FieldSpec == FieldInit /\ [][FieldNext]_<<BattleVars, MatchVars, WorkVars, ClientVars, part>>
=============================================================================
