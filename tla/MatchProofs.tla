---------------------------- MODULE MatchProofs -----------------------------
(***************************************************************************)
(* Theorems about a match.  Battle, for any robots, players, squads,       *)
(* weapons and turrets: rosters, squads and robots agree, a squad regroups *)
(* whole, and weapons recover.  What a faction remembers agrees with what  *)
(* it sees (Knowledge), and the standing of a session agrees with what was *)
(* found about it and with who is to be removed (AntiCheat).               *)
(***************************************************************************)
EXTENDS Battle, AntiCheat, Induction, TLAPS

-----------------------------------------------------------------------------
(* Robots in a battle.  What a tick does to bodies is below.               *)

RosterTypes ==
  /\ robots \in SUBSET Robot /\ destroyed \in SUBSET Robot /\ robots \cap destroyed = {}
  /\ owner \in [Robot -> Player \cup {NoPlayer}]
  /\ escorts \in [Player -> SUBSET Robot]
  /\ escortCap \in [Player -> Nat]
  /\ order = [r \in Robot |-> order[r]]

SquadShape ==
  /\ squads = [s \in Squad |-> squads[s]]
  /\ \A s \in Squad : squads[s] = [faction |-> squads[s].faction, leader |-> squads[s].leader,
                                   members |-> squads[s].members, rally |-> squads[s].rally]

(* EscortsKept, robot by robot; whoever is not in the registry is free, so *)
(* that it is on no roster when it comes.                                  *)
Rosters ==
  /\ \A p \in Player, r \in Robot : r \in escorts[p] <=> r \in robots /\ owner[r] = p
  /\ \A p \in Player : Cardinality(escorts[p]) <= MaxEscortCap
  /\ \A r \in Robot : owner[r] # NoPlayer => r \in robots /\ FactionOf[r] = PlayerFaction[owner[r]]

RosterInv == RosterTypes /\ SquadShape /\ Rosters

LEMMA RostersKept == RosterInv => EscortsKept
  <1> SUFFICES ASSUME RosterInv PROVE EscortsKept
    OBVIOUS
  <1>1. ASSUME NEW p \in Player
        PROVE  /\ escorts[p] = {r \in robots : owner[r] = p}
               /\ Cardinality(escorts[p]) <= MaxEscortCap
               /\ \A r \in escorts[p] : FactionOf[r] = PlayerFaction[p]
    <2>1. escorts[p] \subseteq Robot /\ robots \subseteq Robot /\ p # NoPlayer
      BY PlayerAssumption DEF RosterInv, RosterTypes
    <2>2. \A r \in Robot : r \in escorts[p] <=> r \in robots /\ owner[r] = p
      BY DEF RosterInv, Rosters
    <2> QED
      BY <2>1, <2>2 DEF RosterInv, Rosters
  <1>2. \A r \in destroyed : owner[r] = NoPlayer
    BY DEF RosterInv, RosterTypes, Rosters
  <1> QED
    BY <1>1, <1>2 DEF EscortsKept

LEMMA RostersInitially == RobotsInit => RosterInv
  <1> SUFFICES ASSUME RobotsInit PROVE RosterInv
    OBVIOUS
  <1> USE DEF RobotsInit
  <1>1. RosterTypes
    BY RobotsAssumption DEF RosterTypes
  <1>2. SquadShape
    BY DEF SquadShape, NotASquad, NewSquad
  <1>3. Rosters
    BY RobotsAssumption, PlayerAssumption, FS_EmptySet DEF Rosters
  <1> QED
    BY <1>1, <1>2, <1>3 DEF RosterInv

-----------------------------------------------------------------------------
(* One lemma per step that changes a roster, then those that change none.  *)

LEMMA AssignEscortKeeps ==
  ASSUME RosterInv, NEW p \in Player, NEW r \in Robot, AssignEscort(p, r)
  PROVE  RosterInv'
  <1>1. /\ RosterTypes /\ SquadShape /\ Rosters
        /\ UNCHANGED <<robots, destroyed, escortCap, squads>>
        /\ r \in robots /\ FactionOf[r] = PlayerFaction[p] /\ owner[r] = NoPlayer
        /\ Cardinality(escorts[p]) < EscortCapFor(p)
        /\ escorts' = [escorts EXCEPT ![p] = @ \cup {r}]
        /\ owner' = [owner EXCEPT ![r] = p]
    BY DEF RosterInv, AssignEscort, squadVars, playerVars
  <1>2. order' = [x \in Robot |-> order'[x]]
    BY <1>1, Zenon DEF AssignEscort, Ordered, RosterTypes
  <1>3. RosterTypes'
    BY <1>1, <1>2, Zenon DEF RosterTypes
  <1>4. SquadShape'
    BY <1>1 DEF SquadShape
  <1>5. Cardinality(escorts[p] \cup {r}) <= MaxEscortCap
    <2>1. IsFiniteSet(escorts[p])
      BY <1>1, RobotsAssumption, FS_Subset DEF RosterTypes
    <2>2. EscortCapFor(p) <= MaxEscortCap /\ EscortCapFor(p) \in Nat
      BY <1>1, RobotsAssumption DEF EscortCapFor, AtMost, RosterTypes
    <2>3. Cardinality(escorts[p]) \in Nat
      BY <2>1, FS_CardinalityType
    <2>4. Cardinality(escorts[p] \cup {r})
            = IF r \in escorts[p] THEN Cardinality(escorts[p]) ELSE Cardinality(escorts[p]) + 1
      BY <2>1, FS_AddElement, Zenon
    <2> QED
      BY <1>1, <2>2, <2>3, <2>4, RobotsAssumption
  <1>6. Rosters'
    <2>1. \A q \in Player : escorts'[q] = IF q = p THEN escorts[p] \cup {r} ELSE escorts[q]
      BY <1>1 DEF RosterTypes
    <2>2. \A x \in Robot : owner'[x] = IF x = r THEN p ELSE owner[x]
      BY <1>1 DEF RosterTypes
    <2>3. \A q \in Player : q # NoPlayer
      BY PlayerAssumption
    <2>4. \A q \in Player, x \in Robot : x \in escorts'[q] <=> x \in robots' /\ owner'[x] = q
      BY <1>1, <2>1, <2>2, <2>3 DEF Rosters
    <2>5. \A q \in Player : Cardinality(escorts'[q]) <= MaxEscortCap
      BY <1>1, <1>5, <2>1 DEF Rosters
    <2>6. \A x \in Robot : owner'[x] # NoPlayer =>
            x \in robots' /\ FactionOf[x] = PlayerFaction[owner'[x]]
      BY <1>1, <2>2 DEF Rosters
    <2> QED
      BY <2>4, <2>5, <2>6 DEF Rosters
  <1> QED
    BY <1>3, <1>4, <1>6 DEF RosterInv

LEMMA ReleaseEscortKeeps ==
  ASSUME RosterInv, NEW p \in Player, NEW r \in Robot, ReleaseEscort(p, r)
  PROVE  RosterInv'
  <1>1. /\ RosterTypes /\ SquadShape /\ Rosters
        /\ UNCHANGED <<robots, destroyed, escortCap, squads>>
        /\ r \in robots /\ owner[r] = p
        /\ escorts' = [escorts EXCEPT ![p] = @ \ {r}]
        /\ owner' = [owner EXCEPT ![r] = NoPlayer]
    BY DEF RosterInv, ReleaseEscort, squadVars, playerVars
  <1>2. order' = [x \in Robot |-> order'[x]]
    BY <1>1, Zenon DEF ReleaseEscort, Ordered, RosterTypes
  <1>3. RosterTypes'
    BY <1>1, <1>2, Zenon DEF RosterTypes
  <1>4. SquadShape'
    BY <1>1 DEF SquadShape
  <1>5. \A q \in Player : escorts'[q] = IF q = p THEN escorts[p] \ {r} ELSE escorts[q]
    BY <1>1 DEF RosterTypes
  <1>6. \A x \in Robot : owner'[x] = IF x = r THEN NoPlayer ELSE owner[x]
    BY <1>1 DEF RosterTypes
  <1>7. \A q \in Player, x \in Robot : x \in escorts'[q] <=> x \in robots' /\ owner'[x] = q
    BY <1>1, <1>5, <1>6, PlayerAssumption DEF Rosters
  <1>8. ASSUME NEW q \in Player PROVE Cardinality(escorts'[q]) <= MaxEscortCap
    <2>1. escorts'[q] \subseteq escorts[q]
      BY <1>5
    <2>2. IsFiniteSet(escorts[q])
      BY <1>1, RobotsAssumption, FS_Subset DEF RosterTypes
    <2>3. /\ Cardinality(escorts'[q]) <= Cardinality(escorts[q])
          /\ Cardinality(escorts'[q]) \in Nat /\ Cardinality(escorts[q]) \in Nat
      BY <2>1, <2>2, FS_Subset, FS_CardinalityType
    <2> QED
      BY <1>1, <2>3, RobotsAssumption DEF Rosters
  <1>9. Rosters'
    BY <1>1, <1>6, <1>7, <1>8 DEF Rosters
  <1> QED
    BY <1>3, <1>4, <1>9 DEF RosterInv

LEMMA CleanedUpKeeps ==
  ASSUME RosterInv, NEW dead \in SUBSET robots, CleanedUp(dead), UNCHANGED <<order, escortCap>>
  PROVE  RosterInv'
  <1>1. /\ RosterTypes /\ SquadShape /\ Rosters
        /\ robots' = robots \ dead /\ destroyed' = destroyed \cup dead
        /\ owner' = [r \in Robot |-> IF r \in dead THEN NoPlayer ELSE owner[r]]
        /\ escorts' = [p \in Player |-> escorts[p] \ dead]
    BY DEF RosterInv, CleanedUp
  <1>2. RosterTypes'
    BY <1>1 DEF RosterTypes
  <1>3. SquadShape'
    <2>1. \A s \in Squad : \E t \in {Without(squads[s], {r \in dead : squadOf[r] = s})} : squads'[s] = t
      BY DEF CleanedUp
    <2>2. squads' = [s \in Squad |-> squads'[s]]
      BY DEF CleanedUp
    <2>3. ASSUME NEW s \in Squad, NEW leaving, squads'[s] = Without(squads[s], leaving)
          PROVE  squads'[s] = [faction |-> squads'[s].faction, leader |-> squads'[s].leader,
                               members |-> squads'[s].members, rally |-> squads'[s].rally]
      <3> DEFINE staying == Ascending({i \in DOMAIN squads[s].members : squads[s].members[i] \notin leaving})
                 left == [i \in DOMAIN staying |-> squads[s].members[staying[i]]]
                 leader == IF squads[s].leader \notin leaving THEN squads[s].leader
                           ELSE IF left = << >> THEN NoEntity ELSE left[1]
      <3>1. squads'[s] = [squads[s] EXCEPT !.members = left, !.leader = leader]
        BY <1>1, <2>3 DEF Without, SquadShape
      <3> HIDE DEF staying, left, leader
      <3> QED
        BY <1>1, <3>1, Zenon DEF SquadShape
    <2> QED
      BY <2>1, <2>2, <2>3, Zenon DEF SquadShape
  <1>4. ASSUME NEW p \in Player PROVE Cardinality(escorts'[p]) <= MaxEscortCap
    <2>1. escorts'[p] \subseteq escorts[p]
      BY <1>1
    <2>2. IsFiniteSet(escorts[p])
      BY <1>1, RobotsAssumption, FS_Subset DEF RosterTypes
    <2>3. /\ Cardinality(escorts'[p]) <= Cardinality(escorts[p])
          /\ Cardinality(escorts'[p]) \in Nat /\ Cardinality(escorts[p]) \in Nat
      BY <2>1, <2>2, FS_Subset, FS_CardinalityType
    <2> QED
      BY <1>1, <2>3, RobotsAssumption DEF Rosters
  <1>5. \A p \in Player, r \in Robot : r \in escorts'[p] <=> r \in robots' /\ owner'[r] = p
    BY <1>1, PlayerAssumption DEF Rosters
  <1>6. Rosters'
    BY <1>1, <1>4, <1>5 DEF Rosters
  <1> QED
    BY <1>2, <1>3, <1>6 DEF RosterInv

(* Steps that touch orders or squads only, or nothing of all this.         *)
LEMMA OthersKeep ==
  ASSUME RosterInv, UNCHANGED <<destroyed, owner, escorts>>,
         robots' \in SUBSET Robot, robots \subseteq robots', robots' \cap destroyed = {},
         escortCap' \in [Player -> Nat], order' = [r \in Robot |-> order'[r]], SquadShape'
  PROVE  RosterInv'
  <1>1. RosterTypes'
    BY DEF RosterInv, RosterTypes
  <1>2. Rosters'
    BY PlayerAssumption DEF RosterInv, RosterTypes, Rosters
  <1> QED
    BY <1>1, <1>2 DEF RosterInv

LEMMA RegroupSquadKeeps ==
  ASSUME RosterInv, NEW p, NEW s \in Squad, NEW rally, RegroupSquad(p, s, rally)
  PROVE  RosterInv' /\ \A t \in Squad : squads'[t].members = squads[t].members
  <1>1. squads' = [squads EXCEPT ![s].rally = rally] /\ SquadShape
    BY DEF RegroupSquad, RosterInv
  <1>2. \A t \in Squad : squads'[t] = IF t = s THEN [squads[s] EXCEPT !.rally = rally] ELSE squads[t]
    BY <1>1 DEF SquadShape
  <1>3. SquadShape' /\ \A t \in Squad : squads'[t].members = squads[t].members
    BY <1>1, <1>2 DEF SquadShape
  <1>4. order' = [r \in Robot |-> order'[r]] /\ UNCHANGED <<destroyed, owner, escorts, robots, escortCap>>
    BY DEF RegroupSquad, rosterVars, playerVars
  <1> QED
    BY <1>3, <1>4, OthersKeep DEF RosterInv, RosterTypes

LEMMA CommandKeeps == RosterInv /\ Command => RosterInv'
  <1> SUFFICES ASSUME RosterInv, Command PROVE RosterInv'
    OBVIOUS
  <1>1. RosterTypes /\ SquadShape
    BY DEF RosterInv
  <1>2. ASSUME UNCHANGED squads PROVE SquadShape'
    BY <1>1, <1>2 DEF SquadShape
  <1>3. ASSUME UNCHANGED order PROVE order' = [r \in Robot |-> order'[r]]
    BY <1>1, <1>3 DEF RosterTypes
  <1>4. ASSUME NEW r, NEW o, Ordered(r, o) PROVE order' = [x \in Robot |-> order'[x]]
    BY <1>1, <1>4, Zenon DEF Ordered, RosterTypes
  <1>5. ASSUME NEW p \in Player, NEW r \in Robot, AssignEscort(p, r) \/ ReleaseEscort(p, r)
        PROVE  RosterInv'
    BY <1>5, AssignEscortKeeps, ReleaseEscortKeeps
  <1>6. ASSUME NEW p, NEW r, NEW o, IssueOrder(p, r, o) PROVE RosterInv'
    BY <1>1, <1>2, <1>4, <1>6, OthersKeep DEF IssueOrder, rosterVars, squadVars, playerVars, RosterTypes
  <1>7. ASSUME NEW p, NEW s \in Squad, NEW r, AssignSquadMember(p, s, r) PROVE RosterInv'
    <2>1. squads' = [squads EXCEPT ![s].members = Append(@, r),
                                   ![s].leader = IF @ = NoEntity THEN r ELSE @]
      BY <1>7 DEF AssignSquadMember
    <2>2. SquadShape'
      BY <1>1, <2>1, Zenon DEF SquadShape
    <2> QED
      BY <1>1, <1>3, <1>7, <2>2, OthersKeep DEF AssignSquadMember, rosterVars, playerVars, RosterTypes
  <1>8. ASSUME NEW p, NEW s \in Squad, NEW r \in Robot, RemoveSquadMember(p, s, r) PROVE RosterInv'
    <2> DEFINE staying == Ascending({i \in DOMAIN squads[s].members : squads[s].members[i] \notin {r}})
               left == [i \in DOMAIN staying |-> squads[s].members[staying[i]]]
               leader == IF squads[s].leader \notin {r} THEN squads[s].leader
                         ELSE IF left = << >> THEN NoEntity ELSE left[1]
    <2>1. squads' = [squads EXCEPT ![s] = [squads[s] EXCEPT !.members = left, !.leader = leader]]
      BY <1>1, <1>8 DEF RemoveSquadMember, Without, SquadShape
    <2> HIDE DEF staying, left, leader
    <2>2. SquadShape'
      BY <1>1, <2>1, Zenon DEF SquadShape
    <2>3. order' = [x \in Robot |-> order'[x]]
      BY <1>1, <1>8 DEF RemoveSquadMember, RosterTypes
    <2> QED
      BY <1>1, <1>8, <2>2, <2>3, OthersKeep DEF RemoveSquadMember, rosterVars, playerVars, RosterTypes
  <1>9. ASSUME NEW p, NEW s \in Squad, NEW to, RegroupSquad(p, s, to) PROVE RosterInv'
    BY <1>9, RegroupSquadKeeps
  <1>10. ASSUME NEW r \in Robot, SpawnRobot(r) PROVE RosterInv'
    BY <1>1, <1>2, <1>3, <1>10, OthersKeep
       DEF SpawnRobot, rosterVars, squadVars, playerVars, RosterTypes
  <1>11. ASSUME NEW p, RegisterPlayer(p) PROVE RosterInv'
    BY <1>1, <1>2, <1>3, <1>11, OthersKeep DEF RegisterPlayer, rosterVars, squadVars, RosterTypes
  <1>12. ASSUME NEW p, NEW to, PlayerMoves(p, to) PROVE RosterInv'
    BY <1>1, <1>2, <1>3, <1>12, OthersKeep DEF PlayerMoves, rosterVars, squadVars, RosterTypes
  <1>13. ASSUME NEW p \in Player, NEW cap \in 0 .. MaxEscortCap + 1, GrantEscortCap(p, cap)
         PROVE  RosterInv'
    <2>1. escortCap' \in [Player -> Nat]
      BY <1>1, <1>13, RobotsAssumption DEF GrantEscortCap, AtMost, RosterTypes
    <2> QED
      BY <1>1, <1>2, <1>3, <1>13, <2>1, OthersKeep DEF GrantEscortCap, rosterVars, squadVars, RosterTypes
  <1>14. ASSUME NEW f, CreateSquad(f) PROVE RosterInv'
    <2>1. SquadShape'
      BY <1>1, <1>14 DEF CreateSquad, NewSquad, SquadShape
    <2> QED
      BY <1>1, <1>3, <1>14, <2>1, OthersKeep DEF CreateSquad, rosterVars, playerVars, RosterTypes
  <1> QED
    BY <1>5, <1>6, <1>7, <1>8, <1>9, <1>10, <1>11, <1>12, <1>13, <1>14 DEF Command, RobotCommands

LEMMA RostersInductive == RosterInv /\ [BattleNext]_battleVars => RosterInv'
  <1> SUFFICES ASSUME RosterInv, [BattleNext]_battleVars PROVE RosterInv'
    OBVIOUS
  <1>1. CASE Command
    BY <1>1, CommandKeeps
  <1>2. CASE UNCHANGED robotsVars
    BY <1>2 DEF RosterInv, RosterTypes, SquadShape, Rosters, robotsVars, rosterVars, squadVars, playerVars
  <1>3. CASE WorldTick
    <2>1. PICK after : CleanedUp(robots \ after.alive) /\ UNCHANGED <<order, escortCap>>
      BY <1>3, Zenon DEF WorldTick
    <2> QED
      BY <2>1, CleanedUpKeeps
  <1> QED
    BY <1>1, <1>2, <1>3 DEF BattleNext, PowerChanges, battleVars

LEMMA RostersInvariant == BattleSpec => []RosterInv
  <1>1. BattleInit => RosterInv
    BY RostersInitially DEF BattleInit
  <1> QED
    BY <1>1, RostersInductive, PTL DEF BattleSpec

(* Rosters and robots agree through every assignment, release and death.   *)
(* (robot.rs:540-630, 755-800).                                            *)
THEOREM EscortsStayKept == BattleSpec => []EscortsKept
  <1> QED
    BY RostersInvariant, RostersKept, PTL

-----------------------------------------------------------------------------
(* No order but that of a squad calls a robot to a rally point.            *)
LEMMA OnlyRegroupRegroups ==
  ASSUME RosterInv, [BattleNext]_battleVars, NEW s \in Squad, NEW r \in robots,
         order[r] # order'[r], order'[r] = [kind |-> "Regroup", squad |-> s]
  PROVE  \E p \in Player, t \in Squad, rally \in Ground : RegroupSquad(p, t, rally)
  <1>1. r \in Robot /\ order = [x \in Robot |-> order[x]]
    BY DEF RosterInv, RosterTypes
  <1>2. \A o : Ordered(r, o) => order'[r] = o
    BY <1>1 DEF Ordered
  <1>3. \A x, o : Ordered(x, o) /\ x # r => order'[r] = order[r]
    BY <1>1 DEF Ordered
  <1>4. order'[r].kind = "Regroup" /\ order' # order
    OBVIOUS
  <1>5. Command
    BY <1>4 DEF BattleNext, battleVars, robotsVars, PowerChanges, WorldTick
  <1>6. \A p, x : ~AssignEscort(p, x)
    <2> SUFFICES ASSUME NEW p, NEW x, AssignEscort(p, x) PROVE FALSE
      OBVIOUS
    <2>1. Ordered(x, [kind |-> "Follow", target |-> Avatar[p]])
      BY DEF AssignEscort
    <2> QED
      BY <1>2, <1>3, <1>4, <2>1
  <1>7. \A p, x : ~ReleaseEscort(p, x)
    <2> SUFFICES ASSUME NEW p, NEW x, ReleaseEscort(p, x) PROVE FALSE
      OBVIOUS
    <2>1. Ordered(x, GuardAt(body[x].at))
      BY DEF ReleaseEscort
    <2> QED
      BY <1>2, <1>3, <1>4, <2>1 DEF GuardAt
  <1>8. \A p, x, o : o \in Orders => ~IssueOrder(p, x, o)
    <2> SUFFICES ASSUME NEW p, NEW x, NEW o \in Orders, IssueOrder(p, x, o) PROVE FALSE
      OBVIOUS
    <2>1. Ordered(x, o) /\ o.kind # "Regroup"
      BY RobotsAssumption DEF IssueOrder
    <2> QED
      BY <1>2, <1>3, <1>4, <2>1
  <1>9. \A p, t, x : ~RemoveSquadMember(p, t, x)
    <2> SUFFICES ASSUME NEW p, NEW t, NEW x, RemoveSquadMember(p, t, x) PROVE FALSE
      OBVIOUS
    <2>1. order' = [order EXCEPT ![x] = GuardAt(body[x].at)] \/ order' = order
      BY DEF RemoveSquadMember
    <2>2. order'[r] = GuardAt(body[x].at) \/ order'[r] = order[r]
      BY <1>1, <2>1
    <2> QED
      BY <1>4, <2>2 DEF GuardAt
  <1> QED
    BY <1>4, <1>5, <1>6, <1>7, <1>8, <1>9, Zenon
       DEF Command, RobotCommands, AssignSquadMember, SpawnRobot, RegisterPlayer, PlayerMoves,
           GrantEscortCap, CreateSquad

LEMMA RegroupsWhole ==
  ASSUME RosterInv, [BattleNext]_battleVars, NEW s \in Squad, NEW r \in robots,
         order[r] # order'[r], order'[r] = [kind |-> "Regroup", squad |-> s]
  PROVE  \A m \in ToSet(squads'[s].members) :
           m \in robots /\ order'[m] = [kind |-> "Regroup", squad |-> s]
  <1>1. PICK p \in Player, t \in Squad, rally \in Ground : RegroupSquad(p, t, rally)
    BY OnlyRegroupRegroups
  <1>2. r \in Robot /\ robots \subseteq Robot /\ order = [x \in Robot |-> order[x]]
    BY DEF RosterInv, RosterTypes
  <1>3. \A x \in Robot :
          order'[x] = IF x \in Members(t) THEN [kind |-> "Regroup", squad |-> t] ELSE order[x]
    BY <1>1 DEF RegroupSquad
  <1>4. r \in Members(t) /\ order'[r] = [kind |-> "Regroup", squad |-> t]
    BY <1>2, <1>3
  <1>5. t = s
    <2>1. order'[r].squad = t /\ order'[r].squad = s
      BY <1>4
    <2> QED
      BY <2>1
  <1>6. squads'[s].members = squads[s].members
    BY <1>1, RegroupSquadKeeps
  <1>7. \A m \in Members(t) : m \in robots
    BY <1>1 DEF RegroupSquad, Authorized
  <1> QED
    BY <1>2, <1>3, <1>5, <1>6, <1>7 DEF Members

(* A squad is called to its rally point whole: nothing else calls anybody, *)
(* and who may not order every member orders none (robot.rs:832-875).      *)
THEOREM SquadsRegroupWhole == BattleSpec => RegroupIsWhole
  <1>1. RosterInv /\ [BattleNext]_battleVars =>
          [\A s \in Squad :
             (\E r \in robots : order[r] # order'[r] /\ order'[r] = [kind |-> "Regroup", squad |-> s])
               => \A m \in ToSet(squads'[s].members) :
                    m \in robots /\ order'[m] = [kind |-> "Regroup", squad |-> s]]_robotsVars
    BY RegroupsWhole
  <1> QED
    BY <1>1, RostersInvariant, PTL DEF BattleSpec, RegroupIsWhole

-----------------------------------------------------------------------------
(* Lists in the order of their numbers.                                    *)

(* Ascending lists a set of numbers: each once, and nothing else.          *)
Lists(f, S) ==
  \E n \in Nat : /\ f \in [1 .. n -> S]
                 /\ \A i, j \in 1 .. n : f[i] = f[j] => i = j
                 /\ \A x \in S : \E i \in 1 .. n : f[i] = x

LEMMA AscendingLists ==
  ASSUME NEW S \in SUBSET Nat, IsFiniteSet(S)
  PROVE  Lists(Ascending(S), S)
  <1> DEFINE Below(s, x) == {y \in s : y < x}
             F == {s \in SUBSET S : \A i \in 1 .. Cardinality(s) :
                     \E x \in s : Cardinality(Below(s, x)) = i - 1}
  <1>1. \A s \in SUBSET S : IsFiniteSet(s) /\ Cardinality(s) \in Nat
    BY FS_Subset, FS_CardinalityType, Zenon
  <1>2. {} \in F
    <2>1. Cardinality({}) = 0
      BY FS_EmptySet
    <2> QED
      BY <2>1
  <1>3. ASSUME NEW s \in SUBSET S, s # {}, \A x \in s : s \ {x} \in F PROVE s \in F
    <2>1. PICK m \in s : \A x \in s : m >= x
      <3>1. s \in SUBSET Nat /\ IsFiniteSet(s) /\ s # {}
        BY <1>1, <1>3
      <3> QED
        BY <3>1, GreatestOfFinite
    <2>2. /\ Cardinality(s \ {m}) = Cardinality(s) - 1
          /\ Cardinality(s) \in Nat /\ s \ {m} \in SUBSET S
      BY <1>1, FS_RemoveElement
    <2>3. Below(s, m) = s \ {m}
      <3>1. \A x \in s : x < m <=> x # m
        <4>1. s \subseteq Nat
          OBVIOUS
        <4> QED
          BY <2>1, <4>1
      <3> QED
        BY <3>1, Zenon
    <2>4. \A x \in s \ {m} : Below(s, x) = Below(s \ {m}, x)
      BY <2>1
    <2>5. ASSUME NEW i \in 1 .. Cardinality(s)
          PROVE  \E x \in s : Cardinality(Below(s, x)) = i - 1
      <3>1. CASE i = Cardinality(s)
        BY <2>2, <2>3, <3>1, Zenon
      <3>2. CASE i # Cardinality(s)
        <4>1. i \in 1 .. Cardinality(s \ {m})
          BY <2>2, <3>2
        <4>2. PICK x \in s \ {m} : Cardinality(Below(s \ {m}, x)) = i - 1
          BY <1>3, <4>1, Zenon
        <4>3. Cardinality(Below(s, x)) = i - 1
          BY <2>4, <4>2
        <4> HIDE DEF Below
        <4> QED
          BY <4>3
      <3> QED
        BY <3>1, <3>2
    <2> HIDE DEF Below
    <2> QED
      BY <2>5
  <1> HIDE DEF F
  <1>4. S \in F
    <2>1. \A s \in SUBSET S : s \in F
      BY <1>2, <1>3, FiniteInduction, Zenon
    <2> QED
      BY <2>1
  <1> DEFINE n == Cardinality(S)
             f == Ascending(S)
  <1>5. n \in Nat
    BY <1>1
  <1>a. f = [i \in 1 .. n |-> CHOOSE x \in S : Cardinality(Below(S, x)) = i - 1]
    BY DEF Ascending
  <1>8. \A i \in 1 .. n : \E x \in S : Cardinality(Below(S, x)) = i - 1
    BY <1>4 DEF F
  <1>9. \A x \in S : Below(S, x) \in SUBSET S /\ Cardinality(Below(S, x)) \in Nat
    BY <1>1
  <1> HIDE DEF f
  <1>6. \A i \in 1 .. n : f[i] = CHOOSE x \in S : Cardinality(Below(S, x)) = i - 1
    <2> HIDE DEF n, Below
    <2> QED
      BY <1>a
  <1>7. f = [i \in 1 .. n |-> f[i]]
    <2> HIDE DEF n, Below
    <2> QED
      BY <1>a
  <1>10. ASSUME NEW i \in 1 .. n PROVE f[i] \in S /\ Cardinality(Below(S, f[i])) = i - 1
    <2> DEFINE At(x) == Cardinality(Below(S, x)) = i - 1
    <2>1. f[i] = CHOOSE x \in S : At(x)
      BY <1>6, Zenon
    <2>2. \E x \in S : At(x)
      BY <1>8
    <2> HIDE DEF At
    <2>3. f[i] \in S /\ At(f[i])
      BY <2>1, <2>2
    <2> QED
      BY <2>3 DEF At
  <1>11. ASSUME NEW x \in S, NEW y \in S, x < y
         PROVE  Cardinality(Below(S, x)) < Cardinality(Below(S, y))
    <2>1. Below(S, x) \cup {x} \in SUBSET Below(S, y) /\ x \notin Below(S, x)
      <3>1. \A z \in S : z < x => z < y
        BY <1>11
      <3>2. ~(x < x)
        OBVIOUS
      <3> QED
        BY <1>11, <3>1, <3>2, Zenon
    <2>2. Cardinality(Below(S, x) \cup {x}) = Cardinality(Below(S, x)) + 1
      BY <1>1, <2>1, FS_AddElement, Zenon
    <2>3. Cardinality(Below(S, x) \cup {x}) <= Cardinality(Below(S, y))
      BY <1>1, <2>1, FS_Subset
    <2> QED
      BY <1>9, <2>2, <2>3
  <1>12. ASSUME NEW x \in S, NEW y \in S, Cardinality(Below(S, x)) = Cardinality(Below(S, y))
         PROVE  x = y
    <2>1. ~(x < y) /\ ~(y < x)
      <3>1. \A k \in Nat : ~(k < k)
        OBVIOUS
      <3> QED
        BY <1>9, <1>11, <1>12, <3>1
    <2> QED
      BY <2>1
  <1>13. ASSUME NEW x \in S PROVE \E i \in 1 .. n : f[i] = x
    <2> DEFINE i == Cardinality(Below(S, x)) + 1
    <2>1. Below(S, x) \in SUBSET (S \ {x}) /\ IsFiniteSet(S \ {x}) /\ Cardinality(S \ {x}) = n - 1
      BY <1>1, FS_RemoveElement
    <2>2. Cardinality(Below(S, x)) <= n - 1
      BY <2>1, FS_Subset
    <2>3. i \in 1 .. n /\ i - 1 = Cardinality(Below(S, x))
      BY <1>5, <1>9, <2>2
    <2>4. f[i] = x
      BY <1>10, <1>12, <2>3, Zenon
    <2> HIDE DEF i
    <2> QED
      BY <2>3, <2>4
  <1>14. \A i, j \in 1 .. n : f[i] = f[j] => i = j
    <2> SUFFICES ASSUME NEW i \in 1 .. n, NEW j \in 1 .. n, f[i] = f[j] PROVE i = j
      OBVIOUS
    <2>1. i - 1 = j - 1
      BY <1>10, Zenon
    <2> QED
      BY <1>5, <2>1
  <1>15. f \in [1 .. n -> S]
    BY <1>7, <1>10, Zenon
  <1> HIDE DEF n
  <1>16. Lists(f, S)
    BY <1>5, <1>13, <1>14, <1>15 DEF Lists
  <1> QED
    BY <1>16 DEF f

(* What is left of a list without some of its places.                      *)
LEMMA PlacesKept ==
  ASSUME NEW B, NEW list \in Seq(B), NEW places \in SUBSET (DOMAIN list), NEW left,
         left = [i \in DOMAIN Ascending(places) |-> list[Ascending(places)[i]]],
         \A i, j \in DOMAIN list : list[i] = list[j] => i = j
  PROVE  /\ left \in Seq(B)
         /\ \A i, j \in DOMAIN left : left[i] = left[j] => i = j
         /\ ToSet(left) = {list[i] : i \in places}
  <1> DEFINE f == Ascending(places)
  <1>1. PICK m \in Nat : DOMAIN list = 1 .. m
    <2>1. Len(list) \in Nat /\ DOMAIN list = 1 .. Len(list)
      OBVIOUS
    <2> QED
      BY <2>1, Zenon
  <1>2. places \in SUBSET Nat /\ IsFiniteSet(places)
    <2>1. IsFiniteSet(1 .. m)
      BY FS_Interval
    <2>2. places \in SUBSET (1 .. m)
      BY <1>1
    <2> QED
      BY <2>1, <2>2, FS_Subset
  <1>3. Lists(f, places)
    BY <1>2, AscendingLists
  <1> HIDE DEF f
  <1>4. PICK n \in Nat : /\ f \in [1 .. n -> places]
                         /\ \A i, j \in 1 .. n : f[i] = f[j] => i = j
                         /\ \A x \in places : \E i \in 1 .. n : f[i] = x
    BY <1>3, Zenon DEF Lists
  <1>5. left = [i \in 1 .. n |-> list[f[i]]]
    BY <1>4 DEF f
  <1>6. \A i \in 1 .. n : f[i] \in DOMAIN list /\ list[f[i]] \in B
    <2>1. \A i \in DOMAIN list : list[i] \in B
      OBVIOUS
    <2> QED
      BY <1>4, <2>1
  <1>7. left \in [1 .. n -> B] /\ DOMAIN left = 1 .. n
    BY <1>5, <1>6
  <1>8. left \in Seq(B)
    BY <1>7
  <1>9. \A i, j \in DOMAIN left : left[i] = left[j] => i = j
    BY <1>4, <1>5, <1>6
  <1>10. ToSet(left) = {list[i] : i \in places}
    <2>1. ASSUME NEW x \in places PROVE \E i \in DOMAIN left : left[i] = list[x]
      BY <1>4, <1>5, SMTT(30)
    <2>2. ASSUME NEW i \in DOMAIN left PROVE \E x \in places : left[i] = list[x]
      BY <1>4, <1>5
    <2> QED
      BY <2>1, <2>2 DEF ToSet
  <1> QED
    BY <1>8, <1>9, <1>10

-----------------------------------------------------------------------------
(* Squads.                                                                 *)

(* A roster of a squad: nobody is on it twice, and it is led from within.  *)
WellLed(squad) ==
  /\ squad.members \in Seq(Robot)
  /\ \A i, j \in DOMAIN squad.members : squad.members[i] = squad.members[j] => i = j
  /\ IF squad.members = << >> THEN squad.leader = NoEntity
     ELSE squad.leader \in ToSet(squad.members)

(* A squad that is formed later has no number that a robot remembers.      *)
SquadInv ==
  /\ nextSquad \in Nat \ {0}
  /\ squadOf \in [Robot -> Nat] /\ \A r \in Robot : squadOf[r] < nextSquad
  /\ \A s \in Squad : WellLed(squads[s])
  /\ \A r \in Robot, s \in Squad : squadOf[r] = s => r \in robots /\ r \in ToSet(squads[s].members)

LEMMA SquadsAreLed == RosterInv /\ SquadInv => SquadsLed
  <1> SUFFICES ASSUME RosterInv, SquadInv, NEW s \in Squad
               PROVE  /\ IF squads[s].members = << >> THEN squads[s].leader = NoEntity
                         ELSE squads[s].leader \in Members(s)
                      /\ Len(squads[s].members) = Cardinality(Members(s))
                      /\ \A r \in robots : squadOf[r] = s => r \in Members(s)
    BY DEF SquadsLed
  <1> DEFINE list == squads[s].members
  <1>1. WellLed(squads[s]) /\ Members(s) = ToSet(list)
    BY DEF SquadInv, Members
  <1>2. /\ list \in Seq(Robot) /\ Len(list) \in Nat /\ DOMAIN list = 1 .. Len(list)
        /\ \A i, j \in DOMAIN list : list[i] = list[j] => i = j
    BY <1>1 DEF WellLed
  <1> HIDE DEF list
  <1>3. list \in [1 .. Len(list) -> ToSet(list)]
    BY <1>2 DEF ToSet
  <1>4. \A x \in ToSet(list) : \E i \in 1 .. Len(list) : list[i] = x
    BY <1>2 DEF ToSet
  <1>5. list \in Bijection(1 .. Len(list), ToSet(list))
    BY <1>2, <1>3, <1>4 DEF Bijection, Injection, Surjection, IsInjective
  <1>6. Cardinality(ToSet(list)) = Len(list)
    BY <1>2, <1>5, FS_CountingElements DEF ExistsBijection
  <1> QED
    BY <1>1, <1>6 DEF SquadInv, WellLed, RosterInv, RosterTypes, list

LEMMA SquadsInitially == RobotsInit => SquadInv
  <1> SUFFICES ASSUME RobotsInit PROVE SquadInv
    OBVIOUS
  <1>1. \A s \in Squad : squads[s].members = << >> /\ squads[s].leader = NoEntity
    BY DEF RobotsInit, NotASquad, NewSquad
  <1> QED
    <2>0. ASSUME NEW squad, squad.members = << >>, squad.leader = NoEntity PROVE WellLed(squad)
      <3>1. << >> \in Seq(Robot) /\ DOMAIN << >> = {}
        OBVIOUS
      <3> QED
        BY <2>0, <3>1 DEF WellLed
    <2>1. \A s \in Squad : WellLed(squads[s])
      BY <1>1, <2>0
    <2>2. /\ nextSquad = 1 /\ squadOf = [r \in Robot |-> 0]
          /\ \A s \in Squad : s # 0
      BY SquadAssumption DEF RobotsInit, NoSquad
    <2> QED
      BY <2>1, <2>2 DEF SquadInv

LEMMA WithoutKeeps ==
  ASSUME NEW squad, NEW leaving, NEW rest, WellLed(squad),
         squad = [faction |-> squad.faction, leader |-> squad.leader,
                  members |-> squad.members, rally |-> squad.rally],
         rest = Without(squad, leaving)
  PROVE  WellLed(rest) /\ ToSet(rest.members) = ToSet(squad.members) \ leaving
  <1> DEFINE list == squad.members
             places == {i \in DOMAIN list : list[i] \notin leaving}
             left == [i \in DOMAIN Ascending(places) |-> list[Ascending(places)[i]]]
  <1>1. /\ rest.members = left
        /\ rest.leader = IF squad.leader \notin leaving THEN squad.leader
                         ELSE IF left = << >> THEN NoEntity ELSE left[1]
    <2> DEFINE leader == IF squad.leader \notin leaving THEN squad.leader
                         ELSE IF left = << >> THEN NoEntity ELSE left[1]
    <2>1. rest = [squad EXCEPT !.members = left, !.leader = leader]
      BY DEF Without
    <2> HIDE DEF left, leader
    <2>2. rest.members = left /\ rest.leader = leader
      BY <2>1
    <2> QED
      BY <2>2 DEF leader
  <1>2. list \in Seq(Robot) /\ \A i, j \in DOMAIN list : list[i] = list[j] => i = j
    BY DEF WellLed
  <1>3. PICK kept : kept = left
    BY Zenon
  <1>4. /\ kept \in Seq(Robot)
        /\ \A i, j \in DOMAIN kept : kept[i] = kept[j] => i = j
        /\ ToSet(kept) = {list[i] : i \in places}
    <2>1. places \in SUBSET (DOMAIN list) /\ kept = [i \in DOMAIN Ascending(places) |-> list[Ascending(places)[i]]]
      BY <1>3
    <2> HIDE DEF places, list
    <2> QED
      BY <1>2, <2>1, PlacesKept
  <1>5. ToSet(kept) = ToSet(list) \ leaving
    <2>1. {list[i] : i \in places} = {list[i] : i \in DOMAIN list} \ leaving
      OBVIOUS
    <2> QED
      BY <1>4, <2>1 DEF ToSet
  <1>6. rest.members = kept /\ rest.leader = IF squad.leader \notin leaving THEN squad.leader
                                             ELSE IF kept = << >> THEN NoEntity ELSE kept[1]
    BY <1>1, <1>3
  <1> HIDE DEF left, places
  <1>7. kept # << >> => kept[1] \in ToSet(kept)
    BY <1>4 DEF ToSet
  <1>8. ToSet(<< >>) = {}
    BY DEF ToSet
  <1>9. IF kept = << >> THEN rest.leader = NoEntity ELSE rest.leader \in ToSet(kept)
    BY <1>5, <1>6, <1>7, <1>8 DEF WellLed
  <1> QED
    BY <1>4, <1>5, <1>6, <1>9 DEF WellLed


LEMMA CleanUpKeepsSquads ==
  ASSUME RosterInv, SquadInv, NEW dead \in SUBSET robots, CleanedUp(dead)
  PROVE  SquadInv'
  <1>1. /\ robots' = robots \ dead /\ nextSquad' = nextSquad
        /\ squadOf' = [r \in Robot |-> IF r \in dead THEN NoSquad ELSE squadOf[r]]
    BY DEF CleanedUp
  <1>2. ASSUME NEW s \in Squad
        PROVE  WellLed(squads'[s])
               /\ ToSet(squads'[s].members) = ToSet(squads[s].members) \ {r \in dead : squadOf[r] = s}
    <2>1. squads'[s] = Without(squads[s], {r \in dead : squadOf[r] = s})
      BY DEF CleanedUp
    <2>2. WellLed(squads[s])
          /\ squads[s] = [faction |-> squads[s].faction, leader |-> squads[s].leader,
                          members |-> squads[s].members, rally |-> squads[s].rally]
      BY DEF SquadInv, RosterInv, SquadShape
    <2>3. PICK rest, leaving, squad : /\ rest = squads'[s] /\ squad = squads[s]
                                      /\ leaving = {r \in dead : squadOf[r] = s}
      BY Zenon
    <2> QED
      BY <2>1, <2>2, <2>3, WithoutKeeps
  <1>3. squadOf' \in [Robot -> Nat] /\ \A r \in Robot : squadOf'[r] < nextSquad'
    BY <1>1 DEF SquadInv, NoSquad
  <1>4. ASSUME NEW r \in Robot, NEW s \in Squad, squadOf'[r] = s
        PROVE  r \in robots' /\ r \in ToSet(squads'[s].members)
    <2>1. r \notin dead /\ squadOf[r] = s
      BY <1>1, <1>4, SquadAssumption DEF NoSquad
    <2> QED
      BY <1>1, <1>2, <2>1 DEF SquadInv
  <1> QED
    BY <1>1, <1>2, <1>3, <1>4 DEF SquadInv

LEMMA JoiningKeepsSquads ==
  ASSUME RosterInv, SquadInv, NEW p, NEW s \in Squad, NEW r \in Robot, AssignSquadMember(p, s, r)
  PROVE  SquadInv'
  <1>1. /\ robots' = robots /\ nextSquad' = nextSquad /\ s < nextSquad /\ r \in robots
        /\ squadOf' = [squadOf EXCEPT ![r] = s] /\ r \notin ToSet(squads[s].members)
    BY DEF AssignSquadMember, Authorized, Members
  <1>2. /\ squads'[s].members = Append(squads[s].members, r)
        /\ squads'[s].leader = IF squads[s].leader = NoEntity THEN r ELSE squads[s].leader
        /\ \A t \in Squad : t # s => squads'[t] = squads[t]
    <2>1. squads' = [squads EXCEPT ![s] =
                       [squads[s] EXCEPT !.members = Append(squads[s].members, r),
                                         !.leader = IF squads[s].leader = NoEntity THEN r
                                                    ELSE squads[s].leader]]
          /\ squads = [t \in Squad |-> squads[t]]
      BY Zenon DEF AssignSquadMember, RosterInv, SquadShape
    <2>2. squads[s] = [faction |-> squads[s].faction, leader |-> squads[s].leader,
                       members |-> squads[s].members, rally |-> squads[s].rally]
      BY DEF RosterInv, SquadShape
    <2> QED
      BY <2>1, <2>2, Zenon
  <1> DEFINE list == squads[s].members
             more == squads'[s].members
  <1>3. /\ list \in Seq(Robot) /\ \A i, j \in DOMAIN list : list[i] = list[j] => i = j
        /\ IF list = << >> THEN squads[s].leader = NoEntity ELSE squads[s].leader \in ToSet(list)
    BY DEF SquadInv, WellLed
  <1>4. more = Append(list, r) /\ r \notin ToSet(list)
    BY <1>1, <1>2
  <1> HIDE DEF list, more
  <1>5. more \in Seq(Robot) /\ more # << >>
    BY <1>3, <1>4
  <1>6. PICK n \in Nat : DOMAIN list = 1 .. n /\ Len(list) = n
    BY <1>3
  <1>7. DOMAIN more = 1 .. n + 1 /\ more[n + 1] = r /\ \A i \in 1 .. n : more[i] = list[i]
    BY <1>3, <1>4, <1>6
  <1>8. ToSet(more) = ToSet(list) \cup {r}
    <2>1. 1 .. n + 1 = (1 .. n) \cup {n + 1}
      BY <1>6
    <2> QED
      BY <1>6, <1>7, <2>1 DEF ToSet
  <1>9. ASSUME NEW i \in DOMAIN more, NEW j \in DOMAIN more, more[i] = more[j] PROVE i = j
    <2>1. \A k \in 1 .. n : list[k] # r
      BY <1>4, <1>6 DEF ToSet
    <2>2. \A k \in 1 .. n + 1 : k \in 1 .. n \/ k = n + 1
      BY <1>6
    <2> QED
      BY <1>3, <1>6, <1>7, <1>9, <2>1, <2>2
  <1>10. squads'[s].leader \in ToSet(more)
    <2>1. \A x \in ToSet(list) : x # NoEntity
      <3>1. \A i \in DOMAIN list : list[i] \in Robot
        BY <1>3
      <3> QED
        BY <3>1, RobotsAssumption, Zenon DEF ToSet
    <2> QED
      BY <1>2, <1>3, <1>8, <2>1
  <1>11. WellLed(squads'[s])
    BY <1>5, <1>9, <1>10 DEF WellLed, more
  <1>12. \A t \in Squad : WellLed(squads'[t])
    BY <1>2, <1>11 DEF SquadInv
  <1>13. \A x \in Robot : squadOf'[x] = IF x = r THEN s ELSE squadOf[x]
    BY <1>1 DEF SquadInv
  <1>14. ToSet(squads'[s].members) = ToSet(squads[s].members) \cup {r}
    BY <1>8 DEF list, more
  <1>15. \A t \in Squad : \A x \in Robot : squadOf'[x] = t =>
            x \in robots' /\ x \in ToSet(squads'[t].members)
    BY <1>1, <1>2, <1>13, <1>14, Zenon DEF SquadInv
  <1>16. s \in Nat
    BY SquadAssumption
  <1>17. squadOf' \in [Robot -> Nat] /\ \A x \in Robot : squadOf'[x] < nextSquad'
    BY <1>1, <1>13, <1>16 DEF SquadInv
  <1> QED
    BY <1>1, <1>12, <1>15, <1>17 DEF SquadInv

LEMMA LeavingKeepsSquads ==
  ASSUME RosterInv, SquadInv, NEW p, NEW s \in Squad, NEW r \in Robot, RemoveSquadMember(p, s, r)
  PROVE  SquadInv'
  <1>1. /\ robots' = robots /\ nextSquad' = nextSquad
        /\ squadOf' = [squadOf EXCEPT ![r] = IF squadOf[r] = s THEN NoSquad ELSE squadOf[r]]
    BY DEF RemoveSquadMember
  <1>2. squads' = [squads EXCEPT ![s] = Without(squads[s], {r})] /\ squads = [t \in Squad |-> squads[t]]
    BY DEF RemoveSquadMember, RosterInv, SquadShape
  <1>3. WellLed(squads'[s]) /\ ToSet(squads'[s].members) = ToSet(squads[s].members) \ {r}
    <2>1. squads'[s] = Without(squads[s], {r})
      BY <1>2
    <2>2. WellLed(squads[s])
          /\ squads[s] = [faction |-> squads[s].faction, leader |-> squads[s].leader,
                          members |-> squads[s].members, rally |-> squads[s].rally]
      BY DEF SquadInv, RosterInv, SquadShape
    <2>3. PICK rest, squad : rest = squads'[s] /\ squad = squads[s]
      OBVIOUS
    <2> QED
      BY <2>1, <2>2, <2>3, WithoutKeeps
  <1>4. \A t \in Squad : t # s => squads'[t] = squads[t]
    BY <1>2
  <1>5. \A x \in Robot : squadOf'[x] = IF x = r /\ squadOf[r] = s THEN NoSquad ELSE squadOf[x]
    BY <1>1 DEF SquadInv
  <1>6. squadOf' \in [Robot -> Nat] /\ \A x \in Robot : squadOf'[x] < nextSquad'
    BY <1>1, <1>5 DEF SquadInv, NoSquad
  <1>7. ASSUME NEW x \in Robot, NEW t \in Squad, squadOf'[x] = t
        PROVE  x \in robots' /\ x \in ToSet(squads'[t].members)
    <2>1. squadOf[x] = t /\ ~(x = r /\ t = s)
      BY <1>5, <1>7, SquadAssumption DEF NoSquad
    <2>2. x \in robots /\ x \in ToSet(squads[t].members)
      BY <2>1 DEF SquadInv
    <2> QED
      BY <1>1, <1>3, <1>4, <2>1, <2>2
  <1>8. \A t \in Squad : WellLed(squads'[t])
    BY <1>3, <1>4 DEF SquadInv
  <1> QED
    BY <1>1, <1>6, <1>7, <1>8 DEF SquadInv

LEMMA CommandKeepsSquads ==
  ASSUME RosterInv, SquadInv, Command
  PROVE  SquadInv'
  <1>1. ASSUME UNCHANGED <<squadOf, nextSquad>>, robots \subseteq robots',
               \A s \in Squad : /\ squads'[s].members = squads[s].members
                               /\ squads'[s].leader = squads[s].leader
        PROVE  SquadInv'
    <2>1. \A s \in Squad : WellLed(squads'[s])
      BY <1>1 DEF SquadInv, WellLed
    <2> QED
      BY <1>1, <2>1 DEF SquadInv
  <1>2. ASSUME NEW p, NEW s \in Squad, NEW rally, RegroupSquad(p, s, rally) PROVE SquadInv'
    <2>1. squads' = [squads EXCEPT ![s].rally = rally] /\ SquadShape
      BY <1>2 DEF RegroupSquad, RosterInv
    <2>2. \A t \in Squad : squads'[t].members = squads[t].members /\ squads'[t].leader = squads[t].leader
      BY <2>1 DEF SquadShape
    <2> QED
      BY <1>1, <1>2, <2>2 DEF RegroupSquad
  <1>3. ASSUME NEW f, CreateSquad(f) PROVE SquadInv'
    <2>1. /\ nextSquad \in Squad /\ nextSquad' = nextSquad + 1 /\ UNCHANGED <<robots, squadOf>>
          /\ squads' = [squads EXCEPT ![nextSquad] = NewSquad(f)] /\ squads = [s \in Squad |-> squads[s]]
      BY <1>3 DEF CreateSquad, RosterInv, SquadShape
    <2>2. \A s \in Squad : squads'[s] = IF s = nextSquad THEN NewSquad(f) ELSE squads[s]
      BY <2>1
    <2>3. WellLed(NewSquad(f))
      BY DEF WellLed, NewSquad
    <2>4. \A s \in Squad : WellLed(squads'[s])
      BY <2>2, <2>3 DEF SquadInv
    <2>5. \A r \in Robot : squadOf[r] # nextSquad /\ squadOf'[r] < nextSquad'
      BY <2>1 DEF SquadInv
    <2> QED
      BY <2>1, <2>2, <2>4, <2>5 DEF SquadInv
  <1>4. ASSUME UNCHANGED squads PROVE
          \A s \in Squad : squads'[s].members = squads[s].members /\ squads'[s].leader = squads[s].leader
    BY <1>4
  <1>5. ASSUME NEW p \in Player, NEW r \in Robot, AssignEscort(p, r) \/ ReleaseEscort(p, r)
        PROVE  SquadInv'
    BY <1>1, <1>4, <1>5 DEF AssignEscort, ReleaseEscort, squadVars
  <1>6. ASSUME NEW p, NEW r, NEW o, IssueOrder(p, r, o) PROVE SquadInv'
    BY <1>1, <1>4, <1>6 DEF IssueOrder, squadVars
  <1>7. ASSUME NEW p, RegisterPlayer(p) PROVE SquadInv'
    BY <1>1, <1>4, <1>7 DEF RegisterPlayer, squadVars
  <1>8. ASSUME NEW p, NEW to, PlayerMoves(p, to) PROVE SquadInv'
    BY <1>1, <1>4, <1>8 DEF PlayerMoves, squadVars
  <1>9. ASSUME NEW p, NEW cap, GrantEscortCap(p, cap) PROVE SquadInv'
    BY <1>1, <1>4, <1>9 DEF GrantEscortCap, squadVars
  <1>10. ASSUME NEW r, SpawnRobot(r) PROVE SquadInv'
    BY <1>1, <1>4, <1>10 DEF SpawnRobot, squadVars
  <1> QED
    BY <1>2, <1>3, <1>5, <1>6, <1>7, <1>8, <1>9, <1>10, JoiningKeepsSquads, LeavingKeepsSquads
       DEF Command, RobotCommands

-----------------------------------------------------------------------------
(* Weapons and bodies.                                                     *)

(* A weapon that cannot fire and can be reloaded is being reloaded.        *)
Ready(w) ==
  /\ w = [def |-> w.def, cooldown |-> w.cooldown, loaded |-> w.loaded, reload |-> w.reload]
  /\ w.def \in DOMAIN WeaponDef /\ w.loaded \in Nat /\ w.reload \in Nat
  /\ w.loaded <= WeaponDef[w.def].magazine
  /\ w.loaded < WeaponDef[w.def].perShot /\ WeaponDef[w.def].reloadTicks > 0 => w.reload > 0

LEMMA NewIsReady ==
  ASSUME NEW name \in DOMAIN WeaponDef
  PROVE  Ready(WeaponState(name))
  <1>1. PICK def : def = WeaponDef[name]
    OBVIOUS
  <1>2. def.perShot \in Nat /\ def.magazine \in Nat /\ def.perShot <= def.magazine
    BY <1>1, WeaponsAssumption
  <1> QED
    BY <1>1, <1>2 DEF Ready, WeaponState

LEMMA AfterIsReady ==
  ASSUME NEW w, Ready(w)
  PROVE  Ready(WeaponAfter(w))
  <1>1. PICK def, t : def = WeaponDef[w.def] /\ t = WeaponAfter(w)
    OBVIOUS
  <1>2. def.perShot \in Nat /\ def.magazine \in Nat /\ def.perShot <= def.magazine
    BY <1>1, WeaponsAssumption DEF Ready
  <1>3. /\ t.def = w.def /\ t.cooldown = AtLeast(w.cooldown - 1, 0)
        /\ t.reload = AtLeast(w.reload - 1, 0)
        /\ t.loaded = IF w.reload = 1 THEN def.magazine ELSE w.loaded
        /\ t = [def |-> t.def, cooldown |-> t.cooldown, loaded |-> t.loaded, reload |-> t.reload]
    BY <1>1, Zenon DEF Ready, WeaponAfter, Def
  <1>4. t.reload \in Nat /\ (w.reload > 1 => t.reload > 0) /\ t.loaded \in Nat
    BY <1>2, <1>3 DEF Ready, AtLeast
  <1>5. t.loaded <= def.magazine
    BY <1>1, <1>2, <1>3 DEF Ready
  <1>6. ASSUME t.loaded < def.perShot, def.reloadTicks > 0 PROVE t.reload > 0
    <2>1. w.reload # 1
      BY <1>2, <1>3, <1>6
    <2>2. w.reload > 0 /\ w.reload \in Nat
      BY <1>1, <1>3, <1>6, <2>1 DEF Ready
    <2> QED
      BY <1>4, <2>1, <2>2
  <1>7. Ready(t)
    BY <1>1, <1>3, <1>4, <1>5, <1>6 DEF Ready
  <1> QED
    BY <1>1, <1>7

LEMMA DischargedIsReady ==
  ASSUME NEW w, Ready(w), CanFire(w), NEW rate
  PROVE  Ready(Discharged(w, rate))
  <1>1. PICK def, t, cooldown : /\ def = WeaponDef[w.def] /\ t = Discharged(w, rate)
                                /\ cooldown = AtLeast((Def(w).cycle * 1000) \div rate, 1)
    OBVIOUS
  <1>2. /\ def.perShot \in Nat /\ def.magazine \in Nat /\ def.reloadTicks \in Nat
        /\ w.loaded \in Nat /\ w.loaded >= def.perShot /\ w.loaded <= def.magazine
    BY <1>1, WeaponsAssumption DEF Ready, CanFire, Def
  <1> DEFINE left == w.loaded - def.perShot
             reload == IF left < def.perShot /\ def.reloadTicks > 0 THEN def.reloadTicks ELSE w.reload
  <1>3. t = [w EXCEPT !.loaded = left, !.cooldown = cooldown, !.reload = reload]
    BY <1>1 DEF Discharged, Def
  <1>4. left \in Nat /\ left <= def.magazine /\ reload \in Nat
        /\ (left < def.perShot /\ def.reloadTicks > 0 => reload > 0)
    BY <1>2 DEF Ready
  <1> HIDE DEF left, reload
  <1>5. t = [def |-> w.def, cooldown |-> cooldown, loaded |-> left, reload |-> reload]
    BY <1>3, Zenon DEF Ready
  <1>6. Ready(t)
    BY <1>1, <1>4, <1>5 DEF Ready
  <1> QED
    BY <1>1, <1>6

(* A body carries one weapon at most.                                      *)
Armed(b) ==
  /\ b = [at |-> b.at, velocity |-> b.velocity, hp |-> b.hp, atGoal |-> b.atGoal,
          weapon |-> b.weapon, status |-> b.status]
  /\ \A w \in b.weapon : b.weapon = {w} /\ Ready(w)

LEMMA NewIsArmed ==
  ASSUME NEW r \in Robot
  PROVE  Armed(NewBody(r)) /\ NewBody(r).hp > 0
  <1>1. PICK b, c : b = NewBody(r) /\ c = Chassis[ChassisOf[r]]
    OBVIOUS
  <1>2. /\ b = [at |-> b.at, velocity |-> b.velocity, hp |-> b.hp, atGoal |-> b.atGoal,
                weapon |-> b.weapon, status |-> b.status]
        /\ b.hp = c.health /\ b.weapon = {WeaponState(w) : w \in c.weapon}
    BY <1>1 DEF NewBody, ChassisOfRobot
  <1>3. c.health > 0 /\ \A w \in c.weapon : w \in DOMAIN WeaponDef /\ c.weapon = {w}
    BY <1>1, ChassisAssumption
  <1>4. ASSUME NEW v \in b.weapon PROVE b.weapon = {v} /\ Ready(v)
    <2>1. PICK w \in c.weapon : v = WeaponState(w)
      BY <1>2
    <2>2. c.weapon = {w} /\ w \in DOMAIN WeaponDef
      BY <1>3
    <2>3. b.weapon = {v}
      BY <1>2, <2>1, <2>2
    <2> QED
      BY <2>1, <2>2, <2>3, NewIsReady
  <1> QED
    BY <1>1, <1>2, <1>3, <1>4 DEF Armed

LEMMA AdvancedIsArmed ==
  ASSUME NEW bodies, NEW r, Armed(bodies[r])
  PROVE  Armed(Advanced(bodies, r))
  <1>1. PICK b : b = Advanced(bodies, r)
    OBVIOUS
  <1>2. /\ b = [at |-> b.at, velocity |-> b.velocity, hp |-> b.hp, atGoal |-> b.atGoal,
                weapon |-> b.weapon, status |-> b.status]
        /\ b.weapon = {WeaponAfter(w) : w \in bodies[r].weapon}
    BY <1>1 DEF Advanced
  <1>3. ASSUME NEW v \in b.weapon PROVE b.weapon = {v} /\ Ready(v)
    <2>1. PICK w \in bodies[r].weapon : v = WeaponAfter(w)
      BY <1>2
    <2>2. bodies[r].weapon = {w} /\ Ready(w)
      BY DEF Armed
    <2>3. b.weapon = {v}
      BY <1>2, <2>1, <2>2
    <2> QED
      BY <2>1, <2>2, <2>3, AfterIsReady
  <1> QED
    BY <1>1, <1>2, <1>3 DEF Armed

LEMMA StruckIsArmed ==
  ASSUME NEW r, NEW b, NEW blow, Armed(b)
  PROVE  Armed(Struck(r, b, blow))
  <1>1. \E hp, status : Struck(r, b, blow) = [b EXCEPT !.hp = hp, !.status = status]
    BY Zenon DEF Struck
  <1>2. PICK hp, status : Struck(r, b, blow) = [b EXCEPT !.hp = hp, !.status = status]
    BY <1>1, Zenon
  <1>3. Struck(r, b, blow) = [at |-> b.at, velocity |-> b.velocity, hp |-> hp, atGoal |-> b.atGoal,
                              weapon |-> b.weapon, status |-> status]
    BY <1>2, Zenon DEF Armed
  <1> QED
    BY <1>3 DEF Armed

(* Bodies of which only those in the registry may differ from now.         *)
Good(bodies) ==
  /\ bodies = [r \in Robot |-> bodies[r]]
  /\ \A r \in Robot : Armed(bodies[r])
  /\ \A r \in Robot \ robots : bodies[r] = body[r]

LEMMA WalkedIsGood ==
  ASSUME NEW bodies, Good(bodies), NEW r \in robots, robots \in SUBSET Robot
  PROVE  Good(Walked(bodies, r))
  <1>1. PICK b : b = Advanced(bodies, r)
    OBVIOUS
  <1>2. Armed(b)
    BY <1>1, AdvancedIsArmed DEF Good
  <1>3. Walked(bodies, r) = [bodies EXCEPT ![r] = b]
    BY <1>1 DEF Walked
  <1> QED
    BY <1>2, <1>3 DEF Good

LEMMA FiredIsGood ==
  ASSUME NEW bodies, Good(bodies), robots \in SUBSET Robot
  PROVE  Good(Fired(bodies))
  <1> DEFINE Off(r) == [bodies[r] EXCEPT !.weapon = {Discharged(w, 1000) : w \in bodies[r].weapon}]
  <1>1. Fired(bodies) = [r \in Robot |-> IF r \in Firing(bodies) THEN Off(r) ELSE bodies[r]]
    BY DEF Fired
  <1>2. ASSUME NEW r \in Firing(bodies) PROVE r \in robots /\ Armed(Off(r))
    <2>1. r \in robots /\ \E w \in bodies[r].weapon : CanFire(w)
      BY DEF Firing, Attackers
    <2>2. PICK w \in bodies[r].weapon : CanFire(w)
      BY <2>1
    <2>3. bodies[r].weapon = {w} /\ Ready(w)
      BY <2>1, <2>2 DEF Good, Armed
    <2>4. PICK v : v = Discharged(w, 1000)
      OBVIOUS
    <2>5. Ready(v)
      BY <2>2, <2>3, <2>4, DischargedIsReady
    <2>6. PICK b : b = bodies[r]
      OBVIOUS
    <2>7. Armed(b)
      BY <2>1, <2>6 DEF Good
    <2>8. {Discharged(x, 1000) : x \in b.weapon} = {v}
      BY <2>3, <2>4, <2>6
    <2>9. Off(r) = [b EXCEPT !.weapon = {v}]
      BY <2>6, <2>8
    <2>10. Off(r) = [at |-> b.at, velocity |-> b.velocity, hp |-> b.hp, atGoal |-> b.atGoal,
                     weapon |-> {v}, status |-> b.status]
      BY <2>7, <2>9 DEF Armed
    <2>11. Armed(Off(r))
      <3> HIDE DEF Off
      <3> QED
        BY <2>5, <2>10 DEF Armed
    <2> QED
      BY <2>1, <2>11
  <1> HIDE DEF Off
  <1>3. \A r \in Robot : Armed(Fired(bodies)[r])
    BY <1>1, <1>2 DEF Good
  <1>4. \A r \in Robot \ robots : Fired(bodies)[r] = body[r]
    BY <1>1, <1>2 DEF Good
  <1>5. Fired(bodies) = [r \in Robot |-> Fired(bodies)[r]]
    BY <1>1
  <1> QED
    BY <1>3, <1>4, <1>5 DEF Good

LEMMA StrikeIsGood ==
  ASSUME NEW bodies, NEW was, NEW t, NEW blows, Good(was), robots \in SUBSET Robot
  PROVE  Good(Strike(bodies, was, t, blows))
  <1>1. CASE Strike(bodies, was, t, blows) = was
    BY <1>1
  <1>2. CASE t \in robots /\ \E blow : Strike(bodies, was, t, blows) = [was EXCEPT ![t] = Struck(t, was[t], blow)]
    <2>1. PICK blow : Strike(bodies, was, t, blows) = [was EXCEPT ![t] = Struck(t, was[t], blow)]
      BY <1>2, Zenon
    <2>2. PICK b : b = Struck(t, was[t], blow)
      OBVIOUS
    <2>3. Armed(b)
      BY <1>2, <2>2, StruckIsArmed DEF Good
    <2> QED
      BY <1>2, <2>1, <2>2, <2>3 DEF Good
  <1> QED
    BY <1>1, <1>2, Zenon DEF Strike

LEMMA AttackedIsGood ==
  ASSUME NEW bodies, NEW was, NEW r, Good(was), robots \in SUBSET Robot
  PROVE  Good(Attacked(bodies, was, r))
  <1>1. PICK t, ram, bite : t = order[r].target /\ ram = Ram(bodies, r) /\ bite = Bite(bodies, r)
    OBVIOUS
  <1>2. PICK then : then = Strike(bodies, was, t, ram)
    OBVIOUS
  <1>3. Good(then)
    BY <1>2, StrikeIsGood
  <1>4. Good(Strike(bodies, then, t, bite))
    BY <1>3, StrikeIsGood
  <1>5. Attacked(bodies, was, r) = Strike(bodies, then, t, bite)
    BY <1>1, <1>2 DEF Attacked
  <1> QED
    BY <1>4, <1>5

-----------------------------------------------------------------------------
(* What comes of walking a list: the three walks of a tick.                *)

WalkOf(g, n, list) ==
  g = [i \in 0 .. n |-> IF i = 0 THEN body ELSE Walked(g[i - 1], list[i])]

LEMMA WalkExists ==
  ASSUME NEW list
  PROVE  \A n \in Nat : \E g : WalkOf(g, n, list)
  <1> DEFINE N == {n \in Nat : \E g : WalkOf(g, n, list)}
  <1>1. 0 \in N
    <2> DEFINE g == [i \in 0 .. 0 |-> body]
    <2>1. \A i \in 0 .. 0 : i = 0
      OBVIOUS
    <2>2. WalkOf(g, 0, list)
      BY <2>1 DEF WalkOf
    <2> HIDE DEF g
    <2> QED
      BY <2>2
  <1>2. ASSUME NEW n \in Nat, n \in N PROVE n + 1 \in N
    <2>1. PICK g : WalkOf(g, n, list)
      BY <1>2
    <2> DEFINE h == [i \in 0 .. n + 1 |-> IF i = n + 1 THEN Walked(g[n], list[n + 1]) ELSE g[i]]
    <2>2. \A i \in 0 .. n : h[i] = g[i]
      OBVIOUS
    <2>3. \A i \in 0 .. n + 1 : h[i] = IF i = 0 THEN body ELSE Walked(h[i - 1], list[i])
      <3> SUFFICES ASSUME NEW i \in 0 .. n + 1
                   PROVE  h[i] = IF i = 0 THEN body ELSE Walked(h[i - 1], list[i])
        OBVIOUS
      <3>1. CASE i = n + 1
        <4>1. h[i] = Walked(g[n], list[n + 1]) /\ h[n] = g[n] /\ i # 0 /\ i - 1 = n
          BY <2>2, <3>1
        <4> HIDE DEF h
        <4> QED
          BY <3>1, <4>1
      <3>2. CASE i # n + 1
        <4>1. i \in 0 .. n /\ h[i] = g[i] /\ (i # 0 => i - 1 \in 0 .. n)
          BY <2>2, <3>2
        <4>2. g[i] = IF i = 0 THEN body ELSE Walked(g[i - 1], list[i])
          BY <2>1, <4>1 DEF WalkOf
        <4>3. i # 0 => h[i - 1] = g[i - 1]
          BY <2>2, <4>1
        <4> HIDE DEF h
        <4> QED
          BY <4>1, <4>2, <4>3
      <3> QED
        BY <3>1, <3>2
    <2>4. h = [i \in 0 .. n + 1 |-> h[i]]
      OBVIOUS
    <2> HIDE DEF h
    <2>5. WalkOf(h, n + 1, list)
      BY <2>3, <2>4, Zenon DEF WalkOf
    <2> QED
      BY <2>5
  <1> HIDE DEF N
  <1>3. Nat \subseteq N
    BY <1>1, <1>2, NaturalInduction
  <1> QED
    BY <1>3 DEF N

LEMMA ListOf ==
  ASSUME NEW S \in SUBSET Nat, IsFiniteSet(S)
  PROVE  /\ Len(Ascending(S)) \in Nat
         /\ \A i \in 1 .. Len(Ascending(S)) : Ascending(S)[i] \in S
  <1>1. Lists(Ascending(S), S)
    BY AscendingLists
  <1>2. PICK n \in Nat : Ascending(S) \in [1 .. n -> S]
    BY <1>1 DEF Lists
  <1>3. Len(Ascending(S)) = n
    BY <1>2
  <1> QED
    BY <1>2, <1>3

LEMMA MovedIsGood ==
  ASSUME Good(body), robots \in SUBSET Robot
  PROVE  Good(Moved)
  <1> DEFINE list == Ascending(robots)
             n == Len(list)
             after == CHOOSE g : WalkOf(g, n, list)
  <1>1. n \in Nat /\ \A i \in 1 .. n : list[i] \in robots
    <2>1. robots \in SUBSET Nat /\ IsFiniteSet(robots)
      BY RobotsAssumption, FS_Subset, Zenon
    <2> QED
      BY <2>1, ListOf
  <1>2. Moved = after[n]
    BY DEF Moved, WalkOf
  <1> HIDE DEF list, n
  <1>3. WalkOf(after, n, list)
    BY <1>1, WalkExists
  <1> HIDE DEF after
  <1> DEFINE N == {i \in Nat : i <= n => Good(after[i])}
  <1>4. 0 \in N
    BY <1>1, <1>3 DEF WalkOf
  <1>5. ASSUME NEW i \in Nat, i \in N PROVE i + 1 \in N
    <2> SUFFICES ASSUME i + 1 <= n PROVE Good(after[i + 1])
      OBVIOUS
    <2>1. Good(after[i]) /\ i + 1 \in 0 .. n /\ i + 1 \in 1 .. n /\ i + 1 # 0 /\ (i + 1) - 1 = i
      BY <1>1, <1>5
    <2>2. after[i + 1] = Walked(after[i], list[i + 1])
      BY <1>3, <2>1, Zenon DEF WalkOf
    <2>3. PICK was, r : was = after[i] /\ r = list[i + 1]
      OBVIOUS
    <2> QED
      BY <1>1, <2>1, <2>2, <2>3, WalkedIsGood
  <1> HIDE DEF N
  <1>6. Nat \subseteq N
    BY <1>4, <1>5, NaturalInduction
  <1> QED
    BY <1>1, <1>2, <1>6 DEF N


AttacksOf(g, n, list, bodies) ==
  g = [i \in 0 .. n |-> IF i = 0 THEN Fired(bodies) ELSE Attacked(bodies, g[i - 1], list[i])]

LEMMA AttacksExist ==
  ASSUME NEW list, NEW bodies
  PROVE  \A n \in Nat : \E g : AttacksOf(g, n, list, bodies)
  <1> DEFINE N == {n \in Nat : \E g : AttacksOf(g, n, list, bodies)}
  <1>1. 0 \in N
    <2> DEFINE g == [i \in 0 .. 0 |-> Fired(bodies)]
    <2>1. \A i \in 0 .. 0 : i = 0
      OBVIOUS
    <2>2. AttacksOf(g, 0, list, bodies)
      BY <2>1 DEF AttacksOf
    <2> HIDE DEF g
    <2> QED
      BY <2>2
  <1>2. ASSUME NEW n \in Nat, n \in N PROVE n + 1 \in N
    <2>1. PICK g : AttacksOf(g, n, list, bodies)
      BY <1>2
    <2> DEFINE h == [i \in 0 .. n + 1 |-> IF i = n + 1 THEN Attacked(bodies, g[n], list[n + 1]) ELSE g[i]]
    <2>2. \A i \in 0 .. n : h[i] = g[i]
      OBVIOUS
    <2>3. \A i \in 0 .. n + 1 : h[i] = IF i = 0 THEN Fired(bodies) ELSE Attacked(bodies, h[i - 1], list[i])
      <3> SUFFICES ASSUME NEW i \in 0 .. n + 1
                   PROVE  h[i] = IF i = 0 THEN Fired(bodies) ELSE Attacked(bodies, h[i - 1], list[i])
        OBVIOUS
      <3>1. CASE i = n + 1
        <4>1. h[i] = Attacked(bodies, g[n], list[n + 1]) /\ h[n] = g[n] /\ i # 0 /\ i - 1 = n
          BY <2>2, <3>1
        <4> HIDE DEF h
        <4> QED
          BY <3>1, <4>1
      <3>2. CASE i # n + 1
        <4>1. i \in 0 .. n /\ h[i] = g[i] /\ (i # 0 => i - 1 \in 0 .. n)
          BY <2>2, <3>2
        <4>2. g[i] = IF i = 0 THEN Fired(bodies) ELSE Attacked(bodies, g[i - 1], list[i])
          BY <2>1, <4>1 DEF AttacksOf
        <4>3. i # 0 => h[i - 1] = g[i - 1]
          BY <2>2, <4>1
        <4> HIDE DEF h
        <4> QED
          BY <4>1, <4>2, <4>3
      <3> QED
        BY <3>1, <3>2
    <2>4. h = [i \in 0 .. n + 1 |-> h[i]]
      OBVIOUS
    <2> HIDE DEF h
    <2>5. AttacksOf(h, n + 1, list, bodies)
      BY <2>3, <2>4, Zenon DEF AttacksOf
    <2> QED
      BY <2>5
  <1> HIDE DEF N
  <1>3. Nat \subseteq N
    BY <1>1, <1>2, NaturalInduction
  <1> QED
    BY <1>3 DEF N

LEMMA MeleeIsGood ==
  ASSUME NEW bodies, Good(bodies), robots \in SUBSET Robot
  PROVE  Good(Melee(bodies))
  <1> DEFINE list == Ascending(Attackers(bodies))
             n == Len(list)
             after == CHOOSE g : AttacksOf(g, n, list, bodies)
  <1>1. n \in Nat
    <2>1. Attackers(bodies) \in SUBSET robots
      BY DEF Attackers
    <2>2. Attackers(bodies) \in SUBSET Nat /\ IsFiniteSet(Attackers(bodies))
      BY <2>1, RobotsAssumption, FS_Subset, Zenon
    <2> QED
      BY <2>2, ListOf
  <1>2. Melee(bodies) = after[n]
    BY DEF Melee, AttacksOf
  <1> HIDE DEF list, n
  <1>3. AttacksOf(after, n, list, bodies)
    BY <1>1, AttacksExist
  <1> HIDE DEF after
  <1> DEFINE N == {i \in Nat : i <= n => Good(after[i])}
  <1>4. 0 \in N
    <2>1. after[0] = Fired(bodies)
      BY <1>1, <1>3 DEF AttacksOf
    <2>2. Good(Fired(bodies))
      BY FiredIsGood
    <2> QED
      BY <2>1, <2>2
  <1>5. ASSUME NEW i \in Nat, i \in N PROVE i + 1 \in N
    <2> SUFFICES ASSUME i + 1 <= n PROVE Good(after[i + 1])
      OBVIOUS
    <2>1. Good(after[i]) /\ i + 1 \in 0 .. n /\ i + 1 # 0 /\ (i + 1) - 1 = i
      BY <1>1, <1>5
    <2>2. after[i + 1] = Attacked(bodies, after[i], list[i + 1])
      BY <1>3, <2>1, Zenon DEF AttacksOf
    <2>3. PICK was, r : was = after[i] /\ r = list[i + 1]
      OBVIOUS
    <2> QED
      BY <2>1, <2>2, <2>3, AttackedIsGood
  <1> HIDE DEF N
  <1>6. Nat \subseteq N
    BY <1>4, <1>5, NaturalInduction
  <1> QED
    BY <1>1, <1>2, <1>6 DEF N

LEMMA SteppedIsGood ==
  ASSUME Good(body), robots \in SUBSET Robot
  PROVE  Good(Stepped)
  <1>1. PICK bodies : bodies = Moved
    OBVIOUS
  <1>2. Good(bodies)
    BY <1>1, MovedIsGood
  <1>3. Stepped = Melee(bodies)
    BY <1>1 DEF Stepped
  <1> QED
    BY <1>2, <1>3, MeleeIsGood

-----------------------------------------------------------------------------
(* Structures that shoot, and what is shot.                                *)

Mounted(x) ==
  /\ x = [hp |-> x.hp, state |-> x.state, powered |-> x.powered, weapon |-> x.weapon]
  /\ \A w \in x.weapon : Ready(w)

LEMMA TurretIsMounted ==
  ASSUME NEW s, NEW alive, NEW bodies, Mounted(site[s])
  PROVE  Mounted(TurretTick(s, alive, bodies).site)
  <1>1. PICK x, t : x = site[s] /\ t = TurretTick(s, alive, bodies).site
    OBVIOUS
  <1>2. ASSUME NEW v, Ready(v) PROVE Mounted([x EXCEPT !.weapon = {v}])
    <2>1. [x EXCEPT !.weapon = {v}] = [hp |-> x.hp, state |-> x.state, powered |-> x.powered, weapon |-> {v}]
      BY <1>1 DEF Mounted
    <2> QED
      BY <1>2, <2>1 DEF Mounted
  <1>3. CASE x.weapon = {} \/ ~CanShoot(s)
    BY <1>1, <1>3 DEF TurretTick
  <1>4. CASE x.weapon # {} /\ CanShoot(s)
    <2>1. PICK w, ready, rate : /\ w = CHOOSE v \in x.weapon : TRUE
                                /\ ready = WeaponAfter(w) /\ rate = FireRate[SiteFaction[s]]
      OBVIOUS
    <2>2. Ready(ready)
      <3>1. w \in x.weapon
        BY <1>4, <2>1
      <3>2. Ready(w)
        BY <1>1, <3>1 DEF Mounted
      <3> QED
        BY <2>1, <3>2, AfterIsReady
    <2>3. \/ t = [x EXCEPT !.weapon = {ready}]
          \/ CanFire(ready) /\ t = [x EXCEPT !.weapon = {Discharged(ready, rate)}]
      BY <1>1, <1>4, <2>1 DEF TurretTick
    <2>4. PICK v : v = Discharged(ready, rate)
      OBVIOUS
    <2>5. CanFire(ready) => Ready(v)
      BY <2>2, <2>4, DischargedIsReady
    <2>6. Mounted(t)
      BY <1>2, <2>2, <2>3, <2>4, <2>5
    <2> QED
      BY <1>1, <2>6
  <1> QED
    BY <1>3, <1>4

LEMMA StruckIsMounted ==
  ASSUME NEW was, NEW blow, Mounted(was)
  PROVE  Mounted(SiteStruck(was, blow))
  <1>1. PICK hp, state, powered :
          /\ hp = AfterDamage(was.hp, EffectiveDamage([flat |-> 0, percent |-> 0], blow))
          /\ state = IF hp = 0 THEN "Destroyed" ELSE was.state
          /\ powered = (was.powered /\ hp > 0)
    OBVIOUS
  <1>2. was = [hp |-> was.hp, state |-> was.state, powered |-> was.powered, weapon |-> was.weapon]
        /\ \A w \in was.weapon : Ready(w)
    BY DEF Mounted
  <1>3. CASE was.state = "Destroyed"
    BY <1>3 DEF SiteStruck
  <1>4. CASE was.state # "Destroyed"
    <2>1. SiteStruck(was, blow) = [was EXCEPT !.hp = hp, !.state = state, !.powered = powered]
      BY <1>1, <1>4, Zenon DEF SiteStruck
    <2>2. SiteStruck(was, blow) = [hp |-> hp, state |-> state, powered |-> powered, weapon |-> was.weapon]
      BY <1>2, <2>1, Zenon
    <2> QED
      BY <1>2, <2>2 DEF Mounted
  <1> QED
    BY <1>3, <1>4

(* What is left while impacts are dealt out.                               *)
GoodLeft(w) ==
  /\ w = [alive |-> w.alive, bodies |-> w.bodies, site |-> w.site]
  /\ w.alive \in SUBSET robots /\ Good(w.bodies)
  /\ \A r \in w.alive : w.bodies[r].hp > 0
  /\ w.site = [s \in Site |-> w.site[s]] /\ \A s \in Site : Mounted(w.site[s])

ImpactsOf(g, n, list, first, bodies) ==
  g = [i \in 0 .. n |-> IF i = 0 THEN first ELSE AfterShot(g[i - 1], list[i], HitsOf(list[i], bodies))]

LEMMA ImpactsExist ==
  ASSUME NEW list, NEW first, NEW bodies
  PROVE  \A n \in Nat : \E g : ImpactsOf(g, n, list, first, bodies)
  <1> DEFINE N == {n \in Nat : \E g : ImpactsOf(g, n, list, first, bodies)}
  <1>1. 0 \in N
    <2> DEFINE g == [i \in 0 .. 0 |-> first]
    <2>1. \A i \in 0 .. 0 : i = 0
      OBVIOUS
    <2>2. ImpactsOf(g, 0, list, first, bodies)
      BY <2>1 DEF ImpactsOf
    <2> HIDE DEF g
    <2> QED
      BY <2>2
  <1>2. ASSUME NEW n \in Nat, n \in N PROVE n + 1 \in N
    <2>1. PICK g : ImpactsOf(g, n, list, first, bodies)
      BY <1>2
    <2> DEFINE h == [i \in 0 .. n + 1 |-> IF i = n + 1 THEN AfterShot(g[n], list[n + 1], HitsOf(list[n + 1], bodies)) ELSE g[i]]
    <2>2. \A i \in 0 .. n : h[i] = g[i]
      OBVIOUS
    <2>3. \A i \in 0 .. n + 1 : h[i] = IF i = 0 THEN first ELSE AfterShot(h[i - 1], list[i], HitsOf(list[i], bodies))
      <3> SUFFICES ASSUME NEW i \in 0 .. n + 1
                   PROVE  h[i] = IF i = 0 THEN first ELSE AfterShot(h[i - 1], list[i], HitsOf(list[i], bodies))
        OBVIOUS
      <3>1. CASE i = n + 1
        <4>1. h[i] = AfterShot(g[n], list[n + 1], HitsOf(list[n + 1], bodies)) /\ h[n] = g[n] /\ i # 0 /\ i - 1 = n
          BY <2>2, <3>1
        <4> HIDE DEF h
        <4> QED
          BY <3>1, <4>1
      <3>2. CASE i # n + 1
        <4>1. i \in 0 .. n /\ h[i] = g[i] /\ (i # 0 => i - 1 \in 0 .. n)
          BY <2>2, <3>2
        <4>2. g[i] = IF i = 0 THEN first ELSE AfterShot(g[i - 1], list[i], HitsOf(list[i], bodies))
          BY <2>1, <4>1 DEF ImpactsOf
        <4>3. i # 0 => h[i - 1] = g[i - 1]
          BY <2>2, <4>1
        <4> HIDE DEF h
        <4> QED
          BY <4>1, <4>2, <4>3
      <3> QED
        BY <3>1, <3>2
    <2>4. h = [i \in 0 .. n + 1 |-> h[i]]
      OBVIOUS
    <2> HIDE DEF h
    <2>5. ImpactsOf(h, n + 1, list, first, bodies)
      BY <2>3, <2>4, Zenon DEF ImpactsOf
    <2> QED
      BY <2>5
  <1> HIDE DEF N
  <1>3. Nat \subseteq N
    BY <1>1, <1>2, NaturalInduction
  <1> QED
    BY <1>3 DEF N



LEMMA ImpactIsGood ==
  ASSUME NEW w, NEW impact, GoodLeft(w), robots \in SUBSET Robot
  PROVE  GoodLeft(AfterImpact(w, impact))
  <1> DEFINE t == impact.target
             Near(at) == Magnitude(impact.at - at) <= impact.splash /\ impact.splash > 0
             Blow(at) == Falloff(impact.damage, Magnitude(impact.at - at), impact.splash)
             hit == IF t \in w.alive
                          THEN [w.bodies EXCEPT ![t] = Struck(t, w.bodies[t], impact.damage)] ELSE w.bodies
             hitSite == IF t \notin w.alive /\ t \in Site
                        THEN [w.site EXCEPT ![t] = SiteStruck(w.site[t], impact.damage)] ELSE w.site
             bodies == [r \in Robot |->
                          IF r \in w.alive \ {t} /\ FactionOf[r] # impact.faction /\ Near(hit[r].at)
                          THEN Struck(r, hit[r], Blow(hit[r].at)) ELSE hit[r]]
             sites == [s \in Site |->
                          IF s # t /\ SiteFaction[s] # impact.faction /\ Near(SiteAt[s])
                          THEN SiteStruck(hitSite[s], Blow(SiteAt[s])) ELSE hitSite[s]]
             alive == {r \in w.alive : bodies[r].hp > 0}
  <1>1. AfterImpact(w, impact) = [alive |-> alive, bodies |-> bodies, site |-> sites]
    BY DEF AfterImpact
  <1> HIDE DEF Near, Blow
  <1>2. Good(w.bodies) /\ w.alive \in SUBSET robots /\ w.site = [s \in Site |-> w.site[s]]
        /\ \A s \in Site : Mounted(w.site[s])
    BY DEF GoodLeft
  <1>3. Good(hit)
    <2>1. CASE t \in w.alive
      <3>1. PICK b : b = Struck(t, w.bodies[t], impact.damage)
        OBVIOUS
      <3>2. t \in robots /\ t \in Robot /\ Armed(w.bodies[t])
        BY <1>2, <2>1 DEF Good
      <3>3. Armed(b)
        BY <3>1, <3>2, StruckIsArmed
      <3>4. hit = [w.bodies EXCEPT ![t] = b]
        BY <2>1, <3>1
      <3> HIDE DEF hit
      <3> QED
        BY <1>2, <3>2, <3>3, <3>4 DEF Good
    <2>2. CASE t \notin w.alive
      BY <1>2, <2>2
    <2> QED
      BY <2>1, <2>2
  <1>4. hitSite = [s \in Site |-> hitSite[s]] /\ \A s \in Site : Mounted(hitSite[s])
    <2>1. CASE t \notin w.alive /\ t \in Site
      <3>1. PICK x : x = SiteStruck(w.site[t], impact.damage)
        OBVIOUS
      <3>2. Mounted(x)
        BY <1>2, <2>1, <3>1, StruckIsMounted
      <3>3. hitSite = [w.site EXCEPT ![t] = x]
        BY <2>1, <3>1
      <3> HIDE DEF hitSite
      <3> QED
        BY <1>2, <2>1, <3>2, <3>3
    <2>2. CASE ~(t \notin w.alive /\ t \in Site)
      BY <1>2, <2>2
    <2> QED
      BY <2>1, <2>2
  <1>5. ASSUME NEW r \in Robot PROVE Armed(bodies[r]) /\ (r \notin robots => bodies[r] = body[r])
    <2>1. PICK b, blow : b = Struck(r, hit[r], blow) /\ blow = Blow(hit[r].at)
      OBVIOUS
    <2>2. Armed(hit[r]) /\ (r \notin robots => hit[r] = body[r])
      <3> HIDE DEF hit
      <3> QED
        BY <1>3 DEF Good
    <2>3. Armed(b)
      <3>1. PICK x : x = hit[r]
        OBVIOUS
      <3> HIDE DEF hit
      <3> QED
        BY <2>1, <2>2, <3>1, StruckIsArmed
    <2>4. bodies[r] = hit[r] \/ (r \in w.alive /\ bodies[r] = b)
      <3> HIDE DEF hit
      <3> QED
        BY <2>1
    <2> QED
      BY <1>2, <2>2, <2>3, <2>4
  <1>6. ASSUME NEW s \in Site PROVE Mounted(sites[s])
    <2>1. PICK x, y, blow : x = SiteStruck(y, blow) /\ y = hitSite[s] /\ blow = Blow(SiteAt[s])
      OBVIOUS
    <2> HIDE DEF hitSite
    <2>2. Mounted(y)
      BY <1>4, <2>1
    <2>3. Mounted(x)
      BY <2>1, <2>2, StruckIsMounted
    <2> QED
      BY <2>1, <2>2, <2>3
  <1>7. bodies = [r \in Robot |-> bodies[r]] /\ sites = [s \in Site |-> sites[s]]
    <2> HIDE DEF hit, hitSite
    <2> QED
      OBVIOUS
  <1>8. alive \in SUBSET robots /\ \A r \in alive : bodies[r].hp > 0
    <2> HIDE DEF bodies
    <2> QED
      BY <1>2
  <1> HIDE DEF bodies, sites, alive
  <1>9. Good(bodies)
    BY <1>5, <1>7 DEF Good
  <1> QED
    BY <1>1, <1>6, <1>7, <1>8, <1>9 DEF GoodLeft

LEMMA ShotIsGood ==
  ASSUME NEW w, NEW p, NEW hits, GoodLeft(w), robots \in SUBSET Robot
  PROVE  GoodLeft(AfterShot(w, p, hits))
  <1>1. PICK impact : impact = ImpactOf(p, CHOOSE hit \in hits : TRUE)
    BY Zenon
  <1>2. GoodLeft(AfterImpact(w, impact))
    BY ImpactIsGood
  <1> QED
    BY <1>1, <1>2 DEF AfterShot

LEMMA ImpactsAreGood ==
  ASSUME NEW shots, NEW bodies, NEW turret, Len(shots) \in Nat, Good(bodies),
         robots \in SUBSET Robot, \A s \in Site : Mounted(turret[s].site)
  PROVE  GoodLeft(AfterImpacts(shots, bodies, turret))
  <1> DEFINE n == Len(shots)
             first == [alive |-> AliveIn(bodies), bodies |-> bodies,
                       site |-> [s \in Site |-> turret[s].site]]
             after == CHOOSE g : ImpactsOf(g, n, shots, first, bodies)
  <1>1. AfterImpacts(shots, bodies, turret) = after[n]
    BY DEF AfterImpacts, ImpactsOf
  <1>2. GoodLeft(first)
    BY DEF GoodLeft, AliveIn
  <1> HIDE DEF n, first
  <1>3. ImpactsOf(after, n, shots, first, bodies)
    BY ImpactsExist DEF n
  <1> HIDE DEF after
  <1> DEFINE N == {i \in Nat : i <= n => GoodLeft(after[i])}
  <1>4. n \in Nat
    BY DEF n
  <1>5. 0 \in N
    <2>1. after[0] = first
      BY <1>3, <1>4 DEF ImpactsOf
    <2> QED
      BY <1>2, <2>1
  <1>6. ASSUME NEW i \in Nat, i \in N PROVE i + 1 \in N
    <2> SUFFICES ASSUME i + 1 <= n PROVE GoodLeft(after[i + 1])
      OBVIOUS
    <2>1. GoodLeft(after[i]) /\ i + 1 \in 0 .. n /\ i + 1 # 0 /\ (i + 1) - 1 = i
      BY <1>4, <1>6
    <2>2. after[i + 1] = AfterShot(after[i], shots[i + 1], HitsOf(shots[i + 1], bodies))
      BY <1>3, <2>1, Zenon DEF ImpactsOf
    <2>3. PICK w, p, hits : w = after[i] /\ p = shots[i + 1] /\ hits = HitsOf(shots[i + 1], bodies)
      OBVIOUS
    <2> QED
      BY <2>1, <2>2, <2>3, ShotIsGood
  <1> HIDE DEF N
  <1>7. Nat \subseteq N
    BY <1>5, <1>6, NaturalInduction
  <1> QED
    BY <1>1, <1>4, <1>7 DEF N

(* Projectiles are numbered without gaps.                                  *)
Numbered(x) == \E n \in Nat : x = [i \in 1 .. n |-> x[i]]

LEMMA NumberedLength ==
  ASSUME NEW x, Numbered(x)
  PROVE  Len(x) \in Nat /\ \E B : x \in Seq(B)
  <1>1. PICK n \in Nat : x = [i \in 1 .. n |-> x[i]]
    BY DEF Numbered
  <1> DEFINE B == {x[i] : i \in 1 .. n}
  <1>2. \A i \in 1 .. n : x[i] \in B
    OBVIOUS
  <1> HIDE DEF B
  <1>3. x \in Seq(B)
    BY <1>1, <1>2
  <1> QED
    BY <1>3

LEMMA NumberedTogether ==
  ASSUME NEW x, NEW y, Numbered(x), Numbered(y)
  PROVE  Numbered(x \o y)
  <1>1. PICK B : x \in Seq(B)
    BY NumberedLength
  <1>2. PICK C : y \in Seq(C)
    BY NumberedLength
  <1>3. x \in Seq(B \cup C) /\ y \in Seq(B \cup C)
    BY <1>1, <1>2
  <1>4. x \o y \in Seq(B \cup C)
    BY <1>3
  <1>5. PICK z, n : z = x \o y /\ n = Len(z)
    BY Zenon
  <1>6. n \in Nat /\ z = [i \in 1 .. n |-> z[i]]
    <2> DEFINE D == B \cup C
    <2>1. z \in Seq(D)
      BY <1>4, <1>5
    <2> HIDE DEF D
    <2>2. Len(z) \in Nat /\ z \in [1 .. Len(z) -> D]
      BY <2>1
    <2>3. n \in Nat /\ z \in [1 .. n -> D]
      BY <1>5, <2>2
    <2> QED
      BY <2>3
  <1>7. Numbered(z)
    BY <1>6 DEF Numbered
  <1> QED
    BY <1>5, <1>7

LEMMA AscendingIsNumbered ==
  ASSUME NEW S \in SUBSET Nat, IsFiniteSet(S), NEW x, x = [i \in DOMAIN Ascending(S) |-> x[i]]
  PROVE  Numbered(x)
  <1>1. Lists(Ascending(S), S)
    BY AscendingLists
  <1>2. PICK n \in Nat : Ascending(S) \in [1 .. n -> S]
    BY <1>1 DEF Lists
  <1>3. DOMAIN Ascending(S) = 1 .. n
    BY <1>2
  <1>4. x = [i \in 1 .. n |-> x[i]]
    BY <1>3
  <1> QED
    BY <1>4 DEF Numbered


-----------------------------------------------------------------------------
(* The invariants.                                                         *)

BodyInv == Good(body) /\ \A r \in Robot \ destroyed : body[r].hp # 0
ArmsInv ==
  /\ site = [s \in Site |-> site[s]] /\ \A s \in Site : Mounted(site[s])
  /\ Numbered(flying)

RegistryInv == RosterInv /\ SquadInv /\ BodyInv

LEMMA RegistryAgrees == RegistryInv => RostersAgree
  <1>1. RegistryInv => \A r \in robots : body[r].hp # 0
    BY DEF RegistryInv, RosterInv, RosterTypes, BodyInv
  <1> QED
    BY <1>1, RostersKept, SquadsAreLed DEF RegistryInv, RostersAgree, EscortsAgree

LEMMA RegistryInitially == RobotsInit => RegistryInv
  <1> SUFFICES ASSUME RobotsInit PROVE RegistryInv
    OBVIOUS
  <1>1. body = [r \in Robot |-> NewBody(r)]
    BY DEF RobotsInit
  <1>2. \A r \in Robot : body[r] = NewBody(r)
    BY <1>1
  <1>3. body = [r \in Robot |-> body[r]]
    BY <1>1
  <1>4. ASSUME NEW r \in Robot PROVE Armed(body[r]) /\ body[r].hp # 0
    <2>1. PICK b : b = NewBody(r)
      OBVIOUS
    <2>2. Armed(b) /\ b.hp > 0
      BY <2>1, NewIsArmed
    <2>3. b.hp # 0
      BY <2>2
    <2> QED
      BY <1>2, <2>1, <2>2, <2>3
  <1>5. BodyInv
    BY <1>3, <1>4 DEF BodyInv, Good
  <1> QED
    BY <1>5, RostersInitially, SquadsInitially DEF RegistryInv

(* Commands only forget that a robot is where it was to be.                *)
LEMMA CommandKeepsBodies ==
  ASSUME RegistryInv, Command
  PROVE  BodyInv'
  <1>1. /\ body = [r \in Robot |-> body[r]] /\ \A r \in Robot : Armed(body[r])
        /\ \A r \in Robot \ destroyed : body[r].hp # 0
    BY DEF RegistryInv, BodyInv, Good
  <1>2. ASSUME NEW b, Armed(b)
        PROVE  Armed([b EXCEPT !.atGoal = FALSE]) /\ [b EXCEPT !.atGoal = FALSE].hp = b.hp
    <2>1. PICK no, c : no = FALSE /\ c = [b EXCEPT !.atGoal = no]
      BY Zenon
    <2>2. b = [at |-> b.at, velocity |-> b.velocity, hp |-> b.hp, atGoal |-> b.atGoal,
               weapon |-> b.weapon, status |-> b.status]
      BY <1>2 DEF Armed
    <2>3. c = [at |-> b.at, velocity |-> b.velocity, hp |-> b.hp, atGoal |-> no,
               weapon |-> b.weapon, status |-> b.status]
      BY <2>1, <2>2
    <2>4. Armed(c) /\ c.hp = b.hp
      BY <1>2, <2>3 DEF Armed
    <2> QED
      BY <2>1, <2>4, Zenon
  <1>3. ASSUME body' = [r \in Robot |-> body'[r]], destroyed' = destroyed,
               \A r \in Robot : body'[r] \in {body[r], [body[r] EXCEPT !.atGoal = FALSE]}
        PROVE  BodyInv'
    <2>1. ASSUME NEW r \in Robot PROVE Armed(body'[r]) /\ body'[r].hp = body[r].hp
      <3>1. PICK b : b = body[r]
        OBVIOUS
      <3>2. Armed(b)
        BY <1>1, <3>1
      <3>3. body'[r] = b \/ body'[r] = [b EXCEPT !.atGoal = FALSE]
        BY <1>3, <3>1
      <3> QED
        BY <1>2, <3>1, <3>2, <3>3, Zenon
    <2> QED
      BY <1>1, <1>3, <2>1 DEF BodyInv, Good
  <1>4. ASSUME UNCHANGED <<body, destroyed>> PROVE BodyInv'
    BY <1>1, <1>3, <1>4
  <1>5. ASSUME NEW r, NEW o, Ordered(r, o), destroyed' = destroyed PROVE BodyInv'
    <2>1. body' = [body EXCEPT ![r] = [body[r] EXCEPT !.atGoal = FALSE]]
      BY <1>1, <1>5 DEF Ordered
    <2>2. body' = [x \in Robot |-> body'[x]]
      BY <1>1, <2>1, Zenon
    <2>3. \A x \in Robot : body'[x] \in {body[x], [body[x] EXCEPT !.atGoal = FALSE]}
      BY <1>1, <2>1, Zenon
    <2> QED
      BY <1>3, <1>5, <2>2, <2>3
  <1>6. ASSUME NEW p, NEW s, NEW rally, RegroupSquad(p, s, rally) PROVE BodyInv'
    <2>1. /\ body' = [r \in Robot |-> IF r \in Members(s) THEN [body[r] EXCEPT !.atGoal = FALSE] ELSE body[r]]
          /\ destroyed' = destroyed
      BY <1>6 DEF RegroupSquad
    <2>2. body' = [x \in Robot |-> body'[x]]
      BY <2>1
    <2>3. \A x \in Robot : body'[x] \in {body[x], [body[x] EXCEPT !.atGoal = FALSE]}
      BY <2>1
    <2> QED
      BY <1>3, <2>1, <2>2, <2>3
  <1>7. ASSUME NEW p, NEW r, AssignEscort(p, r) \/ ReleaseEscort(p, r) PROVE BodyInv'
    <2>1. \E o : Ordered(r, o)
      BY <1>7 DEF AssignEscort, ReleaseEscort
    <2> QED
      BY <1>5, <1>7, <2>1 DEF AssignEscort, ReleaseEscort
  <1>8. ASSUME NEW p, NEW r, NEW o, IssueOrder(p, r, o) PROVE BodyInv'
    BY <1>5, <1>8 DEF IssueOrder
  <1>9. ASSUME NEW p, NEW s, NEW r, AssignSquadMember(p, s, r) \/ RemoveSquadMember(p, s, r) PROVE BodyInv'
    BY <1>4, <1>9 DEF AssignSquadMember, RemoveSquadMember
  <1>10. ASSUME NEW r, SpawnRobot(r) PROVE BodyInv'
    BY <1>4, <1>10 DEF SpawnRobot
  <1>11. ASSUME NEW p, RegisterPlayer(p) PROVE BodyInv'
    BY <1>4, <1>11 DEF RegisterPlayer
  <1>12. ASSUME NEW p, NEW to, PlayerMoves(p, to) PROVE BodyInv'
    BY <1>4, <1>12 DEF PlayerMoves
  <1>13. ASSUME NEW p, NEW cap, GrantEscortCap(p, cap) PROVE BodyInv'
    BY <1>4, <1>13 DEF GrantEscortCap
  <1>14. ASSUME NEW f, CreateSquad(f) PROVE BodyInv'
    BY <1>4, <1>14 DEF CreateSquad
  <1> QED
    BY <1>6, <1>7, <1>8, <1>9, <1>10, <1>11, <1>12, <1>13, <1>14 DEF Command, RobotCommands

(* What damages robots and cleans up after it.                             *)
LEMMA BattleKeepsRegistry ==
  ASSUME RegistryInv, NEW bodies, NEW dead \in SUBSET robots, Good(bodies),
         \A r \in robots \ dead : bodies[r].hp # 0,
         body' = bodies, CleanedUp(dead), UNCHANGED <<order, escortCap>>
  PROVE  RegistryInv'
  <1>1. RosterInv' /\ SquadInv'
    BY CleanedUpKeeps, CleanUpKeepsSquads DEF RegistryInv
  <1>2. destroyed' = destroyed \cup dead
    BY DEF CleanedUp
  <1>3. body' = [r \in Robot |-> body'[r]] /\ \A r \in Robot : Armed(body'[r])
    BY DEF Good
  <1>4. ASSUME NEW r \in Robot \ destroyed' PROVE body'[r].hp # 0
    <2>1. r \notin destroyed /\ r \notin dead
      BY <1>2
    <2>2. CASE r \in robots
      BY <2>1, <2>2
    <2>3. CASE r \notin robots
      BY <2>1, <2>3 DEF Good, RegistryInv, BodyInv
    <2> QED
      BY <2>2, <2>3
  <1> QED
    BY <1>1, <1>3, <1>4 DEF RegistryInv, BodyInv, Good

LEMMA CommandKeepsRegistry == RegistryInv /\ Command => RegistryInv'
  BY CommandKeeps, CommandKeepsSquads, CommandKeepsBodies DEF RegistryInv

LEMMA StillKeepsRegistry == RegistryInv /\ UNCHANGED robotsVars => RegistryInv'
  BY DEF RegistryInv, RosterInv, RosterTypes, SquadShape, Rosters, SquadInv, BodyInv, Good, Members,
         robotsVars, rosterVars, squadVars, playerVars

LEMMA WorldTickKeeps ==
  ASSUME RegistryInv, ArmsInv, WorldTick
  PROVE  RegistryInv' /\ ArmsInv'
  <1>1. PICK stepped \in {Stepped} : \E turret \in {TurretsTick(stepped)} :
          \E shots \in {flying \o Shots(Moved) \o TurretShots(turret)} :
          \E after \in {AfterImpacts(shots, stepped, turret)} :
            /\ body' = after.bodies /\ site' = after.site
            /\ flying' = StillFlying(shots, AliveIn(stepped), stepped)
            /\ CleanedUp(robots \ after.alive)
    BY Zenon DEF WorldTick
  <1>2. PICK turret \in {TurretsTick(stepped)} :
          \E shots \in {flying \o Shots(Moved) \o TurretShots(turret)} :
          \E after \in {AfterImpacts(shots, stepped, turret)} :
            /\ body' = after.bodies /\ site' = after.site
            /\ flying' = StillFlying(shots, AliveIn(stepped), stepped)
            /\ CleanedUp(robots \ after.alive)
    BY <1>1, Zenon
  <1>3. PICK shots \in {flying \o Shots(Moved) \o TurretShots(turret)} :
          \E after \in {AfterImpacts(shots, stepped, turret)} :
            /\ body' = after.bodies /\ site' = after.site
            /\ flying' = StillFlying(shots, AliveIn(stepped), stepped)
            /\ CleanedUp(robots \ after.alive)
    BY <1>2, Zenon
  <1>4. PICK after \in {AfterImpacts(shots, stepped, turret)} :
            /\ body' = after.bodies /\ site' = after.site
            /\ flying' = StillFlying(shots, AliveIn(stepped), stepped)
            /\ CleanedUp(robots \ after.alive)
    BY <1>3
  <1>5. robots \in SUBSET Robot /\ Good(body)
    BY DEF RegistryInv, RosterInv, RosterTypes, BodyInv
  <1>6. Good(stepped)
    BY <1>5, SteppedIsGood
  <1>7. \A s \in Site : Mounted(turret[s].site)
    <2> SUFFICES ASSUME NEW s \in Site PROVE Mounted(turret[s].site)
      OBVIOUS
    <2>1. PICK alive : turret = [x \in Site |-> TurretTick(x, alive, stepped)]
      BY <1>2, Zenon DEF TurretsTick
    <2>2. PICK t : t = TurretTick(s, alive, stepped).site
      OBVIOUS
    <2>3. Mounted(t)
      BY <2>2, TurretIsMounted, Zenon DEF ArmsInv
    <2> QED
      BY <2>1, <2>2, <2>3
  <1>8. Numbered(shots)
    <2>1. PICK x, y : x = Shots(Moved) /\ y = TurretShots(turret)
      OBVIOUS
    <2>2. Numbered(x)
      <3> DEFINE S == {r \in Firing(Moved) : WeaponDefOf(r).motion \in {"Linear", "Ballistic"}}
      <3>1. S \in SUBSET robots
        BY DEF Firing, Attackers
      <3>2. x = [i \in DOMAIN Ascending(S) |-> x[i]]
        BY <2>1 DEF Shots
      <3> HIDE DEF S
      <3>3. S \in SUBSET Nat /\ IsFiniteSet(S)
        BY <1>5, <3>1, RobotsAssumption, FS_Subset, Zenon
      <3> QED
        BY <3>2, <3>3, AscendingIsNumbered
    <2>3. Numbered(y)
      <3> DEFINE S == {s \in Site : turret[s].shots # <<>>}
      <3>1. y = [i \in DOMAIN Ascending(S) |-> y[i]]
        BY <2>1, Zenon DEF TurretShots
      <3>2. S \in SUBSET Site
        OBVIOUS
      <3> HIDE DEF S
      <3>3. S \in SUBSET Nat /\ IsFiniteSet(S)
        BY <3>2, BattleAssumption, FS_Subset
      <3> QED
        BY <3>1, <3>3, AscendingIsNumbered
    <2>4. Numbered(flying)
      BY DEF ArmsInv
    <2>5. PICK z : z = flying \o x
      BY Zenon
    <2>6. Numbered(z)
      BY <2>2, <2>4, <2>5, NumberedTogether
    <2>7. Numbered(z \o y)
      BY <2>3, <2>6, NumberedTogether
    <2> QED
      BY <1>3, <2>1, <2>5, <2>7, Zenon
  <1>9. Len(shots) \in Nat
    BY <1>8, NumberedLength
  <1>10. GoodLeft(after)
    BY <1>4, <1>5, <1>6, <1>7, <1>9, ImpactsAreGood, Zenon
  <1>11. RegistryInv'
    <2>1. PICK bodies, dead : bodies = after.bodies /\ dead = robots \ after.alive
      BY Zenon
    <2>2. Good(bodies) /\ dead \in SUBSET robots
      BY <1>10, <2>1 DEF GoodLeft
    <2>3. ASSUME NEW r \in robots \ dead PROVE bodies[r].hp # 0
      <3>1. bodies[r].hp > 0
        BY <1>10, <2>1 DEF GoodLeft
      <3> QED
        BY <3>1
    <2>4. UNCHANGED <<order, escortCap>>
      BY DEF WorldTick
    <2> QED
      BY <1>4, <2>1, <2>2, <2>3, <2>4, BattleKeepsRegistry
  <1>12. site' = [s \in Site |-> site'[s]] /\ \A s \in Site : Mounted(site'[s])
    BY <1>4, <1>10 DEF GoodLeft
  <1>13. Numbered(flying')
    <2> DEFINE S == {i \in DOMAIN shots : /\ InFlight(shots[i]) /\ HitOf(shots[i], AliveIn(stepped), stepped) = {}
                                          /\ Flown(shots[i]).active}
    <2>1. PICK x : x = flying'
      OBVIOUS
    <2>2. x = [i \in DOMAIN Ascending(S) |-> x[i]]
      BY <1>4, <2>1 DEF StillFlying
    <2>3. S \in SUBSET (DOMAIN shots)
      OBVIOUS
    <2> HIDE DEF S
    <2>4. PICK n \in Nat : DOMAIN shots = 1 .. n
      <3>1. PICK n \in Nat : shots = [i \in 1 .. n |-> shots[i]]
        BY <1>8 DEF Numbered
      <3> QED
        BY <3>1
    <2>5. IsFiniteSet(1 .. n)
      BY FS_Interval
    <2>6. S \in SUBSET Nat /\ IsFiniteSet(S)
      BY <2>3, <2>4, <2>5, FS_Subset
    <2>7. Numbered(x)
      BY <2>2, <2>6, AscendingIsNumbered
    <2> QED
      BY <2>1, <2>7
  <1>14. ArmsInv'
    BY <1>12, <1>13 DEF ArmsInv, Numbered
  <1> QED
    BY <1>11, <1>14

LEMMA BattleInvariant == BattleSpec => [](RegistryInv /\ ArmsInv)
  <1>1. BattleInit => RegistryInv /\ ArmsInv
    <2> SUFFICES ASSUME BattleInit PROVE RegistryInv /\ ArmsInv
      OBVIOUS
    <2>1. RegistryInv
      BY RegistryInitially DEF BattleInit
    <2>2. site = [s \in Site |-> [hp |-> SiteHealth[s], state |-> "Constructed", powered |-> TRUE,
                                 weapon |-> {WeaponState(w) : w \in Turret[s]}]]
      BY DEF BattleInit
    <2>3. ASSUME NEW s \in Site PROVE Mounted(site[s])
      <3>1. PICK x : x = site[s]
        OBVIOUS
      <3>2. x = [hp |-> SiteHealth[s], state |-> "Constructed", powered |-> TRUE,
                 weapon |-> {WeaponState(w) : w \in Turret[s]}]
        BY <2>2, <3>1
      <3>3. \A w \in Turret[s] : Ready(WeaponState(w))
        BY BattleAssumption, NewIsReady
      <3>4. \A v \in x.weapon : Ready(v)
        BY <3>2, <3>3
      <3> QED
        BY <3>1, <3>2, <3>4 DEF Mounted
    <2>4. Numbered(flying)
      <3>1. flying = << >> /\ << >> = [i \in 1 .. 0 |-> << >>[i]]
        BY DEF BattleInit
      <3> QED
        BY <3>1 DEF Numbered
    <2> QED
      BY <2>1, <2>2, <2>3, <2>4 DEF ArmsInv
  <1>2. RegistryInv /\ ArmsInv /\ [BattleNext]_battleVars => (RegistryInv /\ ArmsInv)'
    <2> SUFFICES ASSUME RegistryInv, ArmsInv, [BattleNext]_battleVars PROVE RegistryInv' /\ ArmsInv'
      OBVIOUS
    <2>1. ASSUME UNCHANGED <<site, flying>> PROVE ArmsInv'
      BY <2>1 DEF ArmsInv, Numbered
    <2>2. CASE Command /\ UNCHANGED <<site, flying, clock>>
      BY <2>1, <2>2, CommandKeepsRegistry
    <2>3. ASSUME NEW s \in Site, PowerChanges(s) PROVE RegistryInv' /\ ArmsInv'
      <3>1. RegistryInv' /\ flying' = flying
        BY <2>3, StillKeepsRegistry DEF PowerChanges
      <3>2. PICK x, power : x = site[s] /\ power = ~x.powered
        OBVIOUS
      <3>3. site' = [site EXCEPT ![s] = [x EXCEPT !.powered = power]]
        BY <2>3, <3>2 DEF PowerChanges, ArmsInv
      <3>4. Mounted(x)
        BY <3>2 DEF ArmsInv
      <3>5. [x EXCEPT !.powered = power] = [hp |-> x.hp, state |-> x.state, powered |-> power, weapon |-> x.weapon]
        BY <3>4 DEF Mounted
      <3>6. PICK y : y = [x EXCEPT !.powered = power]
        BY Zenon
      <3>7. Mounted(y)
        BY <3>4, <3>5, <3>6 DEF Mounted
      <3>8. site' = [t \in Site |-> site'[t]] /\ \A t \in Site : Mounted(site'[t])
        BY <3>3, <3>6, <3>7 DEF ArmsInv
      <3> QED
        BY <3>1, <3>8 DEF ArmsInv, Numbered
    <2>4. CASE WorldTick
      BY <2>4, WorldTickKeeps
    <2>5. CASE UNCHANGED battleVars
      BY <2>1, <2>5, StillKeepsRegistry DEF battleVars
    <2> QED
      BY <2>2, <2>3, <2>4, <2>5 DEF BattleNext
  <1> QED
    BY <1>1, <1>2, PTL DEF BattleSpec

(* Nobody is on a roster, in a squad or in the registry who is destroyed,  *)
(* and every squad is led from within and holds each robot once, through   *)
(* whatever commands, blows, fires, shots and splashes, however many fall  *)
(* in one tick (robot.rs:540-900, world.rs:1028-1124).                     *)
THEOREM RostersStayInAgreement == BattleSpec => []RostersAgree
  <1> QED
    BY BattleInvariant, RegistryAgrees, PTL

(* The same of the registry alone, where a single blow may destroy.        *)
THEOREM RegistryStaysInAgreement == RobotsSpec => []RostersAgree
  <1>1. RegistryInv /\ [RobotsNext]_robotsVars => RegistryInv'
    <2> SUFFICES ASSUME RegistryInv, [RobotsNext]_robotsVars PROVE RegistryInv'
      OBVIOUS
    <2>1. robots \in SUBSET Robot /\ Good(body)
      BY DEF RegistryInv, RosterInv, RosterTypes, BodyInv
    <2>2. ASSUME NEW r \in Robot, NEW blow \in Blows, ApplyDamage(r, blow) PROVE RegistryInv'
      <3>1. PICK b : b = Struck(r, body[r], blow)
        OBVIOUS
      <3>2. r \in robots /\ body' = [body EXCEPT ![r] = b] /\ UNCHANGED <<order, escortCap>>
        BY <2>2, <3>1 DEF ApplyDamage, playerVars
      <3>3. PICK bodies, dead : bodies = body' /\ dead = {x \in {r} : body'[x].hp = 0}
        BY Zenon
      <3>4. CleanedUp(dead)
        BY <2>2, <3>3 DEF ApplyDamage
      <3>5. Armed(b)
        <4>1. Armed(body[r])
          BY <2>1 DEF Good
        <4>2. PICK old : old = body[r]
          OBVIOUS
        <4> QED
          BY <3>1, <4>1, <4>2, StruckIsArmed
      <3>6. Good(bodies)
        BY <2>1, <3>2, <3>3, <3>5 DEF Good
      <3>7. \A x \in robots \ dead : bodies[x].hp # 0
        <4>1. \A x \in Robot : x # r => body'[x] = body[x]
          BY <2>1, <3>2 DEF Good
        <4>2. \A x \in robots : body[x].hp # 0
          BY DEF RegistryInv, RosterInv, RosterTypes, BodyInv
        <4> QED
          BY <2>1, <3>3, <4>1, <4>2
      <3>8. dead \in SUBSET robots
        BY <3>2, <3>3
      <3> QED
        BY <3>2, <3>3, <3>4, <3>6, <3>7, <3>8, BattleKeepsRegistry, Zenon
    <2>3. CASE RobotsStep
      <3>1. PICK stepped \in {Stepped} :
              body' = stepped /\ CleanedUp({r \in robots : stepped[r].hp = 0})
        BY <2>3 DEF RobotsStep
      <3>2. Good(stepped)
        BY <2>1, <3>1, SteppedIsGood
      <3>3. PICK dead : dead = {r \in robots : stepped[r].hp = 0}
        BY Zenon
      <3>4. dead \in SUBSET robots /\ \A r \in robots \ dead : stepped[r].hp # 0
        BY <3>3
      <3>5. UNCHANGED <<order, escortCap>>
        BY <2>3 DEF RobotsStep
      <3> QED
        BY <3>1, <3>2, <3>3, <3>4, <3>5, BattleKeepsRegistry
    <2> QED
      BY <2>2, <2>3, CommandKeepsRegistry, StillKeepsRegistry DEF RobotsNext
  <1> QED
    BY <1>1, RegistryInitially, RegistryAgrees, PTL DEF RobotsSpec

(* No weapon runs dry for good, of a robot or a turret, whatever fires,    *)
(* dies, loses power and gets it back (combat.rs:626-680).                 *)
THEOREM WeaponsAlwaysRecover == BattleSpec => []WeaponsRecover
  <1>1. RegistryInv /\ ArmsInv => WeaponsRecover
    <2> SUFFICES ASSUME RegistryInv, ArmsInv,
                        NEW w \in UNION ({body[r].weapon : r \in robots} \cup {site[s].weapon : s \in Site})
                 PROVE  /\ w.loaded < Def(w).perShot /\ Def(w).reloadTicks > 0 => w.reload > 0
                        /\ w.loaded <= Def(w).magazine
      BY DEF WeaponsRecover
    <2>1. (\E r \in robots : w \in body[r].weapon) \/ (\E s \in Site : w \in site[s].weapon)
      OBVIOUS
    <2>2. \A r \in robots : Armed(body[r])
      BY DEF RegistryInv, RosterInv, RosterTypes, BodyInv, Good
    <2>3. Ready(w)
      BY <2>1, <2>2, Zenon DEF ArmsInv, Mounted, Armed
    <2> QED
      BY <2>3 DEF Ready, Def
  <1> QED
    BY <1>1, BattleInvariant, PTL

-----------------------------------------------------------------------------
(* What factions see and remember; a match only adds packets and verdicts. *)

sightvars == <<worldvars, knowledgevars, settled>>

FogTypes ==
  /\ fog \in [Faction -> [Cell -> {"Unexplored", "Explored", "Visible"}]]
  /\ now \in Nat

(* A ghost is of a structure of others and from a step that was.           *)
GhostsPast ==
  /\ ghost = [f \in Faction |-> [s \in Structure |-> ghost[f][s]]]
  /\ \A f \in Faction, s \in Structure :
       /\ ghost[f][s].tick \in Int /\ ghost[f][s].tick <= now
       /\ Owner[s] = f => ghost[f][s] = NoGhost

KnowledgeInv == FogTypes /\ GhostsPast /\ GhostsMatchSight

LEMMA KnowledgeInitially == KnowledgeInit => KnowledgeInv
  <1> SUFFICES ASSUME KnowledgeInit PROVE KnowledgeInv
    OBVIOUS
  <1>1. FogTypes
    BY DEF KnowledgeInit, FogTypes
  <1>2. GhostsPast
    BY DEF KnowledgeInit, GhostsPast, NoGhost
  <1>3. GhostsMatchSight
    BY DEF KnowledgeInit, GhostsMatchSight
  <1> QED
    BY <1>1, <1>2, <1>3 DEF KnowledgeInv

(* What a step makes of one faction's fog and of one of its ghosts.        *)
LEMMA StepSees ==
  ASSUME KnowledgeStep
  PROVE  /\ fog' = [f \in Faction |-> StampSensors(BeginTick(fog[f]), Sensors(f))]
         /\ ghost' = [f \in Faction |-> GhostsAfter(f, Sensors(f), fog'[f],
                                                     SeenStructures(f, Sensors(f), fog'[f]))]
         /\ now' = now + 1 /\ settled' = TRUE /\ UNCHANGED worldvars
  BY DEF KnowledgeStep

LEMMA GhostIs ==
  ASSUME KnowledgeStep, NEW f \in Faction, NEW s \in Structure
  PROVE  ghost'[f][s] =
           IF s \in Standing /\ Owner[s] # f /\ InSight(Sensors(f), fog'[f], StandsAt[s])
           THEN [hp |-> standing[s], tick |-> now + 1]
           ELSE IF s \notin Standing /\ InSight(Sensors(f), fog'[f], StandsAt[s]) THEN NoGhost
           ELSE ghost[f][s]
  <1> DEFINE seen == SeenStructures(f, Sensors(f), fog'[f])
  <1>1. ghost'[f] = GhostsAfter(f, Sensors(f), fog'[f], seen)
    BY StepSees
  <1>2. s \in seen <=> s \in Standing /\ Owner[s] # f /\ InSight(Sensors(f), fog'[f], StandsAt[s])
    BY DEF SeenStructures, Others
  <1> HIDE DEF seen
  <1>3. ghost'[f][s] = IF s \in seen THEN LastSeen(s)
                       ELSE IF s \notin Standing /\ InSight(Sensors(f), fog'[f], StandsAt[s]) THEN NoGhost
                       ELSE ghost[f][s]
    BY <1>1 DEF GhostsAfter
  <1> QED
    BY <1>2, <1>3 DEF LastSeen

LEMMA StepKeeps == KnowledgeInv /\ KnowledgeStep => KnowledgeInv'
  <1> SUFFICES ASSUME KnowledgeInv, KnowledgeStep PROVE KnowledgeInv'
    OBVIOUS
  <1>1. FogTypes /\ GhostsPast /\ now' = now + 1 /\ now \in Nat /\ UNCHANGED worldvars
    BY StepSees DEF KnowledgeInv, FogTypes
  <1>2. FogTypes'
    BY <1>1, StepSees DEF FogTypes, StampSensors, BeginTick
  <1>3. ghost' = [f \in Faction |-> [s \in Structure |-> ghost'[f][s]]]
    BY StepSees DEF GhostsAfter
  <1>4. ASSUME NEW f \in Faction, NEW s \in Structure
        PROVE  /\ ghost'[f][s].tick \in Int /\ ghost'[f][s].tick <= now'
               /\ Owner[s] = f => ghost'[f][s] = NoGhost
    <2>1. /\ ghost[f][s].tick \in Int /\ ghost[f][s].tick <= now
          /\ Owner[s] = f => ghost[f][s] = NoGhost
      BY <1>1 DEF GhostsPast
    <2>2. CASE ghost'[f][s] = [hp |-> standing[s], tick |-> now + 1] /\ Owner[s] # f
      BY <1>1, <2>2
    <2>3. CASE ghost'[f][s] = NoGhost
      BY <1>1, <2>3 DEF NoGhost
    <2>4. CASE ghost'[f][s] = ghost[f][s]
      BY <1>1, <2>1, <2>4
    <2> QED
      BY <2>2, <2>3, <2>4, GhostIs
  <1>5. \A f \in Faction : Sensors(f)' = Sensors(f)
    BY <1>1 DEF worldvars, Sensors, Present, EmitsSensorCoverage
  <1>6. Standing' = Standing /\ standing' = standing
    BY <1>1 DEF worldvars, Standing
  <1>7. ASSUME NEW f \in Faction, NEW s \in Structure
        PROVE  IF InSight(Sensors(f), fog'[f], StandsAt[s]) /\ s \in Standing /\ Owner[s] # f
               THEN ghost'[f][s] = [hp |-> standing[s], tick |-> now']
               ELSE /\ ghost'[f][s].tick < now'
                    /\ InSight(Sensors(f), fog'[f], StandsAt[s]) \/ Owner[s] = f => ghost'[f][s] = NoGhost
    BY <1>1, <1>7, GhostIs DEF GhostsPast, NoGhost
  <1>8. GhostsMatchSight'
    BY <1>5, <1>6, <1>7 DEF GhostsMatchSight, InSight, InSensor, PositionState
  <1> QED
    BY <1>2, <1>3, <1>4, <1>8 DEF KnowledgeInv, GhostsPast

LEMMA KnowledgeInductive == KnowledgeInv /\ [KnowledgeNext]_sightvars => KnowledgeInv'
  <1> SUFFICES ASSUME KnowledgeInv, [KnowledgeNext]_sightvars PROVE KnowledgeInv'
    OBVIOUS
  <1>1. CASE KnowledgeStep
    BY <1>1, StepKeeps
  <1>2. CASE WorldMoves
    BY <1>2 DEF WorldMoves, knowledgevars, KnowledgeInv, FogTypes, GhostsPast, GhostsMatchSight
  <1>3. CASE UNCHANGED sightvars
    <2>1. FogTypes' /\ GhostsPast'
      BY <1>3 DEF sightvars, knowledgevars, KnowledgeInv, FogTypes, GhostsPast
    <2>2. GhostsMatchSight'
      BY <1>3 DEF sightvars, worldvars, knowledgevars, KnowledgeInv, GhostsMatchSight, Sensors, Present,
                  EmitsSensorCoverage, Standing, InSight, InSensor, PositionState
    <2> QED
      BY <2>1, <2>2 DEF KnowledgeInv
  <1> QED
    BY <1>1, <1>2, <1>3 DEF KnowledgeNext

LEMMA KnowledgeInvariant == KnowledgeSpec => []KnowledgeInv
  <1> QED
    BY KnowledgeInitially, KnowledgeInductive, PTL DEF KnowledgeSpec, sightvars

LEMMA StepForgetsNothing ==
  ASSUME KnowledgeInv, [KnowledgeNext]_sightvars, NEW f \in Faction
  PROVE  /\ \A c \in Cell : fog[f][c] # "Unexplored" => fog'[f][c] # "Unexplored"
         /\ \A s \in Structure :
              ghost[f][s] # NoGhost /\ ghost'[f][s] = NoGhost =>
                s \notin Standing /\ InSight(Sensors(f), fog'[f], StandsAt[s])
  <1>1. CASE UNCHANGED knowledgevars
    BY <1>1 DEF knowledgevars
  <1>2. CASE KnowledgeStep
    <2>1. \A c \in Cell : fog[f][c] # "Unexplored" => fog'[f][c] # "Unexplored"
      BY <1>2, StepSees DEF StampSensors, BeginTick
    <2>2. ASSUME NEW s \in Structure, ghost[f][s] # NoGhost, ghost'[f][s] = NoGhost
          PROVE  s \notin Standing /\ InSight(Sensors(f), fog'[f], StandsAt[s])
      <3>1. now \in Nat
        BY DEF KnowledgeInv, FogTypes
      <3>2. [hp |-> standing[s], tick |-> now + 1] # NoGhost
        <4>1. now + 1 # -1
          BY <3>1
        <4> QED
          BY <4>1 DEF NoGhost
      <3> QED
        BY <1>2, <2>2, <3>2, GhostIs, Zenon
    <2> QED
      BY <2>1, <2>2
  <1> QED
    BY <1>1, <1>2 DEF KnowledgeNext, WorldMoves, sightvars

-----------------------------------------------------------------------------
(* A match is a world whose factions see: packets and verdicts move        *)
(* nothing in it.                                                          *)
LEMMA MatchImplementsKnowledge == MatchSpec => KnowledgeSpec
  <1> DEFINE matchvars == <<worldvars, knowledgevars, settled, providervars>>
  <1>1. MatchInit => KnowledgeInit
    BY DEF MatchInit
  <1>2. [MatchNext]_matchvars => [KnowledgeNext]_sightvars
    BY DEF MatchNext, ServerTick, KnowledgeNext, sightvars
  <1> QED
    BY <1>1, <1>2, PTL DEF MatchSpec, KnowledgeSpec, sightvars

(* Right after a step, ghosts and sight agree (knowledge.rs:491-553).      *)
THEOREM GhostsAgree == MatchSpec => []GhostsMatchSight
  <1>1. KnowledgeInv => GhostsMatchSight
    BY DEF KnowledgeInv
  <1> QED
    BY <1>1, MatchImplementsKnowledge, KnowledgeInvariant, PTL

(* Fog lifts for good, and a ghost goes only when its site is seen empty   *)
(* (knowledge.rs:138-144, 532-553).                                        *)
THEOREM FactionsForgetNothing == MatchSpec => NothingForgotten
  <1>1. KnowledgeInv /\ [KnowledgeNext]_sightvars =>
          [\A f \in Faction :
             /\ \A c \in Cell : fog[f][c] # "Unexplored" => fog'[f][c] # "Unexplored"
             /\ \A s \in Structure :
                  ghost[f][s] # NoGhost /\ ghost'[f][s] = NoGhost =>
                    s \notin Standing /\ InSight(Sensors(f), fog'[f], StandsAt[s])]_knowledgevars
    BY StepForgetsNothing
  <1> QED
    BY <1>1, MatchImplementsKnowledge, KnowledgeInvariant, PTL
       DEF KnowledgeSpec, NothingForgotten, sightvars

-----------------------------------------------------------------------------
(* The standing of sessions.                                               *)

Levels == TrustLevel \cup {"None"}
Statuses == {"Unknown", "Clean", "UnderReview", "Banned"}
TrustStates == [level : Levels, score : Nat, clean : Nat, status : Statuses]

(* What evidence alone makes of a session.                                 *)
Earned(t) ==
  /\ t.level = "Flagged" => t.score >= FlagThreshold
  /\ t.level \notin {"Flagged", "Banned"} => t.score < FlagThreshold
  /\ t.level = "Trusted" => t.clean >= TrustedAfter

(* What holds of a session whoever set its level.                          *)
Known == {t \in TrustStates : t.level # "None" /\ t.status = FromTrust(t.level)}
Judged == {t \in Known : Earned(t)}

ProviderTypes ==
  /\ session = [s \in SessionId |-> session[s]] /\ kicks \subseteq SessionId
  /\ trust = [s \in SessionId |-> trust[s]]

StandingInv ==
  /\ ProviderTypes
  /\ \A s \in SessionId :
       \/ trust[s] = NoTrust
       \/ /\ trust[s] \in Known /\ session[s] = "Live"
          /\ trust[s].level = "Banned" => s \in kicks
          /\ s \notin forced => Earned(trust[s])

LEMMA StandingsAreConsistent == StandingInv => StandingConsistent
  <1> SUFFICES ASSUME StandingInv, NEW s \in SessionId, trust[s].level # "None"
               PROVE  /\ session[s] = "Live"
                      /\ trust[s].status = FromTrust(trust[s].level)
                      /\ trust[s].level = "Banned" => s \in kicks
                      /\ s \notin forced =>
                           /\ trust[s].level = "Flagged" => trust[s].score >= FlagThreshold
                           /\ trust[s].level \notin {"Flagged", "Banned"} => trust[s].score < FlagThreshold
                           /\ trust[s].level = "Trusted" => trust[s].clean >= TrustedAfter
    BY DEF StandingConsistent, Registered
  <1>1. trust[s] # NoTrust
    BY DEF NoTrust
  <1>2. /\ trust[s] \in Known /\ session[s] = "Live"
        /\ trust[s].level = "Banned" => s \in kicks
        /\ s \notin forced => Earned(trust[s])
    BY <1>1 DEF StandingInv
  <1> QED
    BY <1>2 DEF Known, Earned

(* Levels.                                                                 *)
LEMMA AtLevelIs ==
  ASSUME NEW t \in TrustStates, NEW level \in TrustLevel
  PROVE  /\ AtLevel(t, level) \in TrustStates
         /\ AtLevel(t, level).level = level /\ AtLevel(t, level).score = t.score
         /\ AtLevel(t, level).clean = t.clean
         /\ AtLevel(t, level).status = IF level = t.level THEN t.status ELSE FromTrust(level)
  <1>1. FromTrust(level) \in Statuses
    BY DEF FromTrust, Statuses
  <1>2. CASE level = t.level
    BY <1>2 DEF AtLevel
  <1>3. CASE level # t.level
    <2>1. AtLevel(t, level) = [t EXCEPT !.level = level, !.status = FromTrust(level)]
      BY <1>3 DEF AtLevel
    <2>2. level \in Levels
      BY DEF Levels

    <2> QED
      BY <1>1, <1>3, <2>1, <2>2, Zenon DEF TrustStates
  <1> QED
    BY <1>2, <1>3

LEMMA AtLevelIsKnown ==
  ASSUME NEW t \in TrustStates, t.level # "None" => t.status = FromTrust(t.level), NEW level \in TrustLevel
  PROVE  AtLevel(t, level) \in Known
  <1>1. /\ AtLevel(t, level) \in TrustStates /\ AtLevel(t, level).level = level
        /\ AtLevel(t, level).status = IF level = t.level THEN t.status ELSE FromTrust(level)
    BY AtLevelIs
  <1>2. level # "None"
    BY DEF TrustLevel
  <1> QED
    BY <1>1, <1>2 DEF Known

LEMMA ViolationKeeps ==
  ASSUME NEW t \in Known, NEW severity \in Severity
  PROVE  /\ RecordViolation(t, severity) \in Known
         /\ Earned(t) => Earned(RecordViolation(t, severity))
  <1>1. t \in TrustStates /\ t.level # "None" /\ t.status = FromTrust(t.level)
    BY DEF Known
  <1>2. PICK w \in Nat : w = SuspicionWeight[severity]
    BY AntiCheatAssumption
  <1> DEFINE after == [t EXCEPT !.clean = 0, !.score = t.score + w]
  <1>3. /\ after \in TrustStates /\ after.level = t.level /\ after.status = t.status
        /\ after.clean = 0 /\ after.score = t.score + w
    <2>1. PICK total \in Nat : total = t.score + w
      BY <1>1 DEF TrustStates
    <2> QED
      BY <1>1, <2>1, Zenon DEF TrustStates
  <1> DEFINE level == IF Conclusive(severity) \/ after.score >= BanThreshold THEN "Banned"
                      ELSE IF after.score >= FlagThreshold THEN "Flagged"
                      ELSE IF t.level = "Trusted" THEN "Probationary" ELSE t.level
  <1>4. RecordViolation(t, severity) = IF t.level = "Banned" THEN t ELSE AtLevel(after, level)
    BY <1>2 DEF RecordViolation
  <1>5. level \in TrustLevel
    BY <1>1 DEF TrustStates, Levels, TrustLevel
  <1> HIDE DEF after
  <1>6. \/ level = "Banned"
        \/ level = "Flagged" /\ after.score >= FlagThreshold
        \/ level = "Probationary" /\ ~(after.score >= FlagThreshold)
        \/ level = t.level /\ t.level # "Trusted" /\ ~(after.score >= FlagThreshold)
    OBVIOUS
  <1> HIDE DEF level
  <1>7. AtLevel(after, level) \in Known
    BY <1>1, <1>3, <1>5, AtLevelIsKnown
  <1>8. /\ AtLevel(after, level).level = level
        /\ AtLevel(after, level).score = after.score
    BY <1>3, <1>5, AtLevelIs
  <1>9. Earned(t) => Earned(AtLevel(after, level))
    <2> SUFFICES ASSUME Earned(t) PROVE Earned(AtLevel(after, level))
      OBVIOUS
    <2>1. t.score \in Nat /\ FlagThreshold \in Nat /\ after.score \in Nat
      BY <1>1, <1>3, AntiCheatAssumption DEF TrustStates
    <2>2. t.level = "Flagged" => after.score >= FlagThreshold
      BY <1>2, <1>3, <2>1 DEF Earned
    <2>3. ~(after.score >= FlagThreshold) => after.score < FlagThreshold
      BY <2>1
    <2> QED
      BY <1>6, <1>8, <2>2, <2>3 DEF Earned
  <1> QED
    BY <1>4, <1>7, <1>9

LEMMA CleanCommandKeeps ==
  ASSUME NEW t \in Known
  PROVE  /\ RecordCleanCommand(t) \in Known
         /\ t.level # "Banned" => RecordCleanCommand(t).level # "Banned"
         /\ Earned(t) => Earned(RecordCleanCommand(t))
  <1>1. t \in TrustStates /\ t.level # "None" /\ t.status = FromTrust(t.level)
    BY DEF Known
  <1>2. t.score \in Nat /\ t.clean \in Nat
    BY <1>1 DEF TrustStates
  <1>3. TrustedAfter \in Nat /\ ProbationAfter \in Nat /\ Decay \in Nat /\ FlagThreshold \in Nat \ {0}
    BY AntiCheatAssumption, Zenon
  <1>4. PICK clean \in Nat : clean = IF t.clean < TrustedAfter THEN t.clean + 1 ELSE t.clean
    BY <1>2, <1>3
  <1>5. PICK score \in Nat : score = IF t.score > Decay THEN t.score - Decay ELSE 0
    BY <1>2, <1>3
  <1>6. score <= t.score /\ clean >= t.clean
    BY <1>2, <1>3, <1>4, <1>5
  <1> DEFINE after == [t EXCEPT !.clean = clean, !.score = score]
  <1>7. /\ after \in TrustStates /\ after.level = t.level /\ after.status = t.status
        /\ after.clean = clean /\ after.score = score
    BY <1>1, Zenon DEF TrustStates
  <1>8. RecordCleanCommand(t) =
          CASE t.level = "Banned" -> t
            [] t.level = "Flagged" /\ score < FlagThreshold -> AtLevel(after, "Probationary")
            [] t.level = "Untrusted" /\ clean >= ProbationAfter -> AtLevel(after, "Probationary")
            [] t.level = "Probationary" /\ clean >= TrustedAfter -> AtLevel(after, "Trusted")
            [] OTHER -> after
    BY <1>4, <1>5 DEF RecordCleanCommand
  <1> HIDE DEF after
  <1>9. ASSUME NEW level \in {"Probationary", "Trusted"}
        PROVE  /\ AtLevel(after, level) \in Known /\ AtLevel(after, level).level = level
               /\ AtLevel(after, level).score = score /\ AtLevel(after, level).clean = clean
    <2>1. level \in TrustLevel
      BY DEF TrustLevel
    <2> QED
      BY <1>1, <1>7, <2>1, AtLevelIs, AtLevelIsKnown
  <1>10. after \in Known
    BY <1>1, <1>7 DEF Known
  <1>11. CASE t.level = "Banned"
    BY <1>8, <1>11
  <1>12. CASE \/ t.level = "Flagged" /\ score < FlagThreshold
              \/ t.level = "Untrusted" /\ clean >= ProbationAfter
    <2>1. RecordCleanCommand(t) = AtLevel(after, "Probationary")
      BY <1>8, <1>12
    <2>2. Earned(t) => score < FlagThreshold
      BY <1>2, <1>3, <1>6, <1>12 DEF Earned
    <2> QED
      BY <1>9, <2>1, <2>2 DEF Earned
  <1>13. CASE t.level = "Probationary" /\ clean >= TrustedAfter
    <2>1. RecordCleanCommand(t) = AtLevel(after, "Trusted")
      BY <1>8, <1>13
    <2>2. Earned(t) => score < FlagThreshold
      BY <1>2, <1>3, <1>6, <1>13 DEF Earned
    <2> QED
      BY <1>9, <1>13, <2>1, <2>2 DEF Earned
  <1>14. CASE /\ t.level # "Banned" /\ ~(t.level = "Flagged" /\ score < FlagThreshold)
              /\ ~(t.level = "Untrusted" /\ clean >= ProbationAfter)
              /\ ~(t.level = "Probationary" /\ clean >= TrustedAfter)
    <2>1. RecordCleanCommand(t) = after
      BY <1>8, <1>14
    <2>2. Earned(t) => Earned(after)
      <3>1. t.level = "Flagged" => score >= FlagThreshold
        BY <1>3, <1>14
      <3>2. Earned(t) /\ t.level \notin {"Flagged", "Banned"} => score < FlagThreshold
        BY <1>2, <1>3, <1>6 DEF Earned
      <3>3. Earned(t) /\ t.level = "Trusted" => clean >= TrustedAfter
        BY <1>2, <1>3, <1>6 DEF Earned
      <3> QED
        BY <1>7, <3>1, <3>2, <3>3 DEF Earned
    <2> QED
      BY <1>7, <1>10, <1>14, <2>1, <2>2
  <1> QED
    BY <1>11, <1>12, <1>13, <1>14

(* A list of anomalies is one violation after another.                     *)
LEMMA GreatestIsMember ==
  ASSUME NEW S \in SUBSET Nat, IsFiniteSet(S), S # {}
  PROVE  Max(S) \in S
  BY GreatestOfFinite, Zenon DEF Max

ViolationsOf(t, kinds, iter) ==
  iter = [s \in SUBSET DOMAIN kinds |->
            IF s = {} THEN t ELSE RecordViolation(iter[s \ {Max(s)}], SeverityOf(kinds[Max(s)]))]

LEMMA SeverityIs == \A kind : SeverityOf(kind) \in Severity
  BY DEF SeverityOf, Severity

LEMMA ViolationsExist ==
  ASSUME NEW t \in Known, NEW B, NEW kinds \in Seq(B)
  PROVE  \E iter : ViolationsOf(t, kinds, iter)
  <1> DEFINE D == DOMAIN kinds
             pick == [s \in SUBSET D |-> Max(s)]
             step == [q \in (SUBSET D) \X Known |-> RecordViolation(q[2], SeverityOf(kinds[Max(q[1])]))]
  <1>1. D \in SUBSET Nat /\ IsFiniteSet(D)
    BY FS_Interval
  <1> HIDE DEF D
  <1>2. ASSUME NEW s \in SUBSET D, s # {} PROVE pick[s] = Max(s) /\ pick[s] \in s
    <2>1. s \in SUBSET Nat /\ IsFiniteSet(s)
      BY <1>1, FS_Subset, Zenon
    <2> QED
      BY <1>2, <2>1, GreatestIsMember
  <1>3. step \in [(SUBSET D) \X Known -> Known]
    BY SeverityIs, ViolationKeeps
  <1>4. ASSUME NEW s \in SUBSET D, NEW v \in Known
        PROVE  step[<<s, v>>] = RecordViolation(v, SeverityOf(kinds[Max(s)]))
    OBVIOUS
  <1> HIDE DEF step, pick
  <1>5. PICK g : FoldOf(g, D, Known, t, step, pick)
    BY <1>1, <1>2, <1>3, FoldExists, Zenon
  <1>6. ASSUME NEW s \in SUBSET D, s # {}
        PROVE  g[s] = RecordViolation(g[s \ {Max(s)}], SeverityOf(kinds[Max(s)]))
    <2>1. s \ {pick[s]} \in SUBSET D /\ pick[s] = Max(s)
      BY <1>2, <1>6
    <2>2. g[s] = step[<<s, g[s \ {Max(s)}]>>] /\ g[s \ {Max(s)}] \in Known
      BY <1>5, <1>6, <2>1, Zenon DEF FoldOf
    <2> QED
      BY <1>4, <2>2
  <1>7. g \in [SUBSET D -> Known] /\ g[{}] = t
    BY <1>5, Zenon DEF FoldOf
  <1> DEFINE h == [s \in SUBSET D |-> IF s = {} THEN t
                                      ELSE RecordViolation(g[s \ {Max(s)}], SeverityOf(kinds[Max(s)]))]
  <1>8. \A s \in SUBSET D : g[s] = h[s]
    BY <1>6, <1>7, Zenon
  <1>9. g = h
    BY <1>7, <1>8, Zenon
  <1> QED
    BY <1>9, Zenon DEF ViolationsOf, D

LEMMA ViolatedKeeps ==
  ASSUME NEW t \in Known, NEW B, NEW kinds \in Seq(B)
  PROVE  Violated(t, kinds) \in Known /\ (Earned(t) => Earned(Violated(t, kinds)))
  <1> DEFINE iter == CHOOSE g : ViolationsOf(t, kinds, g)
  <1>1. ViolationsOf(t, kinds, iter)
    BY ViolationsExist
  <1>2. Violated(t, kinds) = iter[DOMAIN kinds]
    BY DEF Violated, FoldLeft, MapThenFoldSet, ViolationsOf
  <1> HIDE DEF iter
  <1> DEFINE D == DOMAIN kinds
             F == {s \in SUBSET D : iter[s] \in Known /\ (Earned(t) => Earned(iter[s]))}
  <1>3. D \in SUBSET Nat /\ IsFiniteSet(D)
    BY FS_Interval
  <1>4. /\ iter[{}] = t
        /\ \A s \in SUBSET D : s # {} =>
              iter[s] = RecordViolation(iter[s \ {Max(s)}], SeverityOf(kinds[Max(s)]))
    BY <1>1, Zenon DEF ViolationsOf
  <1> HIDE DEF D
  <1>5. {} \in F
    BY <1>4
  <1>6. ASSUME NEW s \in SUBSET D, s # {}, \A x \in s : s \ {x} \in F PROVE s \in F
    <2>1. s \in SUBSET Nat /\ IsFiniteSet(s)
      BY <1>3, FS_Subset, Zenon
    <2>2. Max(s) \in s
      BY <1>6, <2>1, GreatestIsMember
    <2>3. iter[s \ {Max(s)}] \in Known /\ (Earned(t) => Earned(iter[s \ {Max(s)}]))
      BY <1>6, <2>2
    <2>4. iter[s] = RecordViolation(iter[s \ {Max(s)}], SeverityOf(kinds[Max(s)]))
      BY <1>4, <1>6, Zenon
    <2> QED
      BY <2>3, <2>4, SeverityIs, ViolationKeeps
  <1> HIDE DEF F
  <1>7. \A s \in SUBSET D : s \in F
    BY <1>3, <1>5, <1>6, FiniteInduction, Zenon
  <1> QED
    BY <1>2, <1>7 DEF F, D

(* What the detectors report is a list of names.                           *)
LEMMA ReportsAreLists ==
  ASSUME NEW s, NEW i, NEW lead, NEW m
  PROVE  \E B : Inspected(s, i, lead, m) \in Seq(B)
  <1> DEFINE Reports == {"FutureDatedCommand", "CommandFloodDetected", "NonFinitePosition",
                     "PositionOutOfBounds", "ImpossibleMovement", "TeleportAttempt",
                     "FireRateViolation", "AmmoInconsistency", "InvalidPlacement",
                     "ImpossibleEconomyDelta", "UnauthorizedOrder", "UnauthorizedStructureOrder",
                     "HiddenTargetAttempt"}
  <1>2. ASSUME NEW u \in Seq(Reports), NEW v \in Seq(Reports) PROVE u \o v \in Seq(Reports)
    OBVIOUS
  <1>3. << >> \in Seq(Reports)
    OBVIOUS
  <1>4. \A k \in Reports : <<k>> \in Seq(Reports)
    OBVIOUS
  <1>5. /\ "FutureDatedCommand" \in Reports /\ "CommandFloodDetected" \in Reports /\ "NonFinitePosition" \in Reports
        /\ "PositionOutOfBounds" \in Reports /\ "ImpossibleMovement" \in Reports /\ "TeleportAttempt" \in Reports
        /\ "FireRateViolation" \in Reports /\ "AmmoInconsistency" \in Reports /\ "InvalidPlacement" \in Reports
        /\ "ImpossibleEconomyDelta" \in Reports /\ "UnauthorizedOrder" \in Reports
        /\ "UnauthorizedStructureOrder" \in Reports /\ "HiddenTargetAttempt" \in Reports
    OBVIOUS
  <1> HIDE DEF Reports
  <1>1. ASSUME NEW suspect, NEW kind \in Reports PROVE If(suspect, kind) \in Seq(Reports)
    <2>1. If(suspect, kind) = <<kind>> \/ If(suspect, kind) = << >>
      BY DEF If
    <2> QED
      BY <1>3, <1>4, <2>1, Zenon
  <1>6. FutureDated(lead) \in Seq(Reports) /\ Flood(m) \in Seq(Reports)
    BY <1>1, <1>5 DEF FutureDated, Flood
  <1>7. \A p : BadPosition(p) \in Seq(Reports)
    BY <1>1, <1>4, <1>5 DEF BadPosition
  <1>8. \A to, speed : ImpossibleMovement(m, to, speed) \in Seq(Reports)
    BY <1>1, <1>2, <1>3, <1>4, <1>5 DEF ImpossibleMovement
  <1>9. \A at, rotation : InvalidPlacement(m, at, rotation) \in Seq(Reports)
    BY <1>1, <1>2, <1>4, <1>5 DEF InvalidPlacement
  <1>10. /\ \A a : FireRateViolation(m, a) \in Seq(Reports) /\ AmmoInconsistency(a) \in Seq(Reports)
         /\ \A e : UnauthorizedOrder(s, e) \in Seq(Reports) /\ HiddenTarget(s, e) \in Seq(Reports)
         /\ \A b : UnauthorizedStructureOrder(s, b) \in Seq(Reports)
         /\ \A e, n : ImpossibleEconomyDelta(e, n) \in Seq(Reports)
    BY <1>1, <1>5 DEF FireRateViolation, AmmoInconsistency, UnauthorizedOrder, HiddenTarget,
                      UnauthorizedStructureOrder, ImpossibleEconomyDelta
  <1>11. Specific(s, i, m) \in Seq(Reports)
    BY <1>2, <1>3, <1>7, <1>8, <1>9, <1>10 DEF Specific
  <1> QED
    BY <1>2, <1>6, <1>11 DEF Inspected

(* Standing is lost with the session.                                      *)
StandsWell(s) ==
  \/ trust[s] = NoTrust
  \/ /\ trust[s] \in Known /\ session[s] = "Live"
     /\ trust[s].level = "Banned" => s \in kicks
     /\ s \notin forced => Earned(trust[s])

LEMMA RegisteredIsKnown ==
  ASSUME StandingInv, NEW s \in Registered
  PROVE  /\ s \in SessionId /\ trust[s] \in Known /\ session[s] = "Live"
         /\ trust[s].level = "Banned" => s \in kicks
         /\ s \notin forced => Earned(trust[s])
  BY DEF Registered, StandingInv, NoTrust

LEMMA NewTrustIsJudged == NewTrust \in Known /\ Earned(NewTrust) /\ NewTrust.level = "Untrusted"
  <1>1. FlagThreshold \in Nat \ {0}
    BY AntiCheatAssumption
  <1>2. 0 < FlagThreshold
    BY <1>1
  <1> QED
    BY <1>2 DEF NewTrust, Known, TrustStates, Levels, TrustLevel, Statuses, FromTrust, Earned

LEMMA AdmitKeeps ==
  ASSUME StandingInv, NEW s \in SessionId, Admit(s)
  PROVE  StandingInv'
  <1>1. ProviderTypes'
    BY Zenon DEF Admit, StandingInv, ProviderTypes
  <1>2. ASSUME NEW l \in SessionId PROVE StandsWell(l)'
    <2>1. l = s => trust'[l] = NewTrust /\ session'[l] = "Live"
      BY DEF Admit, StandingInv, ProviderTypes
    <2>2. l # s => trust'[l] = trust[l] /\ session'[l] = session[l]
      BY DEF Admit, StandingInv, ProviderTypes
    <2>3. kicks' = kicks /\ forced' = forced
      BY DEF Admit
    <2>4. CASE l = s
      BY <2>1, <2>4, NewTrustIsJudged DEF StandsWell
    <2>5. CASE l # s
      BY <2>2, <2>3, <2>5 DEF StandsWell, StandingInv
    <2> QED
      BY <2>4, <2>5
  <1> QED
    BY <1>1, <1>2 DEF StandingInv, StandsWell

LEMMA LeaveKeeps ==
  ASSUME StandingInv, NEW s \in SessionId, Leave(s)
  PROVE  StandingInv'
  <1>1. ProviderTypes'
    BY DEF Leave, End, Forgotten, StandingInv, ProviderTypes
  <1>2. ASSUME NEW l \in SessionId PROVE StandsWell(l)'
    <2>1. l = s => trust'[l] = NoTrust
      BY DEF Leave, Forgotten
    <2>2. l # s => trust'[l] = trust[l] /\ session'[l] = session[l] /\ (l \in kicks => l \in kicks')
      BY DEF Leave, Forgotten, End
    <2>3. forced' = forced
      BY DEF Leave
    <2> QED
      BY <2>1, <2>2, <2>3 DEF StandsWell, StandingInv
  <1> QED
    BY <1>1, <1>2 DEF StandingInv, StandsWell

LEMMA FoundKeeps ==
  ASSUME StandingInv, NEW s \in SessionId, NEW B, NEW kinds \in Seq(B), Found(s, kinds),
         UNCHANGED <<session, forced>>
  PROVE  StandingInv'
  <1>1. CASE s \notin Registered
    BY <1>1 DEF Found, StandingInv, ProviderTypes
  <1>2. CASE s \in Registered
    <2> DEFINE after == Violated(trust[s], kinds)
    <2>1. /\ trust' = [trust EXCEPT ![s] = after]
          /\ kicks' = IF Noted(trust[s], after) THEN kicks \cup {s} ELSE kicks
      BY <1>2 DEF Found
    <2>2. trust[s] \in Known /\ session[s] = "Live" /\ (trust[s].level = "Banned" => s \in kicks)
          /\ (s \notin forced => Earned(trust[s]))
      BY <1>2, RegisteredIsKnown
    <2>3. after \in Known /\ (Earned(trust[s]) => Earned(after))
      BY <2>2, ViolatedKeeps
    <2> HIDE DEF after
    <2>4. ProviderTypes'
      BY <2>1 DEF StandingInv, ProviderTypes
    <2>5. kicks \subseteq kicks' /\ (after.level = "Banned" => s \in kicks')
      BY <2>1, <2>2 DEF Noted
    <2>6. ASSUME NEW l \in SessionId PROVE StandsWell(l)'
      <3>1. l = s => trust'[l] = after
        BY <2>1 DEF StandingInv, ProviderTypes
      <3>2. l # s => trust'[l] = trust[l]
        BY <2>1 DEF StandingInv, ProviderTypes
      <3>3. session' = session /\ forced' = forced
        OBVIOUS
      <3>4. CASE l = s
        BY <2>2, <2>3, <2>5, <3>1, <3>3, <3>4 DEF StandsWell
      <3>5. CASE l # s
        BY <2>5, <3>2, <3>3, <3>5 DEF StandsWell, StandingInv
      <3> QED
        BY <3>4, <3>5
    <2> QED
      BY <2>4, <2>6 DEF StandingInv, StandsWell
  <1> QED
    BY <1>1, <1>2

LEMMA InspectKeeps ==
  ASSUME StandingInv, NEW s \in SessionId, NEW i, NEW lead, InspectCommand(s, i, lead)
  PROVE  StandingInv'
  <1>1. CASE Leave(s)
    BY <1>1, LeaveKeeps
  <1>2. CASE ~Leave(s)
    <2>1. PICK m, kinds, after :
            /\ kinds = Inspected(s, i, lead, m)
            /\ after = IF kinds = << >> THEN RecordCleanCommand(trust[s]) ELSE Violated(trust[s], kinds)
            /\ trust[s].level # "Banned" /\ after.level # "Banned"
            /\ trust' = [trust EXCEPT ![s] = after]
            /\ UNCHANGED <<session, verified, kicks, forced>>
      BY <1>2 DEF InspectCommand
    <2>2. s \in Registered
      BY DEF InspectCommand
    <2>3. trust[s] \in Known /\ session[s] = "Live" /\ (s \notin forced => Earned(trust[s]))
      BY <2>2, RegisteredIsKnown
    <2>4. PICK B : kinds \in Seq(B)
      BY <2>1, ReportsAreLists
    <2>5. after \in Known /\ (Earned(trust[s]) => Earned(after))
      <3>1. kinds = << >> => after = RecordCleanCommand(trust[s])
        BY <2>1
      <3>2. kinds # << >> => after = Violated(trust[s], kinds)
        BY <2>1
      <3>3. RecordCleanCommand(trust[s]) \in Known
            /\ (Earned(trust[s]) => Earned(RecordCleanCommand(trust[s])))
        BY <2>3, CleanCommandKeeps
      <3>4. Violated(trust[s], kinds) \in Known /\ (Earned(trust[s]) => Earned(Violated(trust[s], kinds)))
        BY <2>3, <2>4, ViolatedKeeps
      <3> QED
        BY <3>1, <3>2, <3>3, <3>4
    <2>6. ProviderTypes'
      BY <2>1 DEF StandingInv, ProviderTypes
    <2>7. ASSUME NEW l \in SessionId PROVE StandsWell(l)'
      <3>1. l = s => trust'[l] = after
        BY <2>1 DEF StandingInv, ProviderTypes
      <3>2. l # s => trust'[l] = trust[l]
        BY <2>1 DEF StandingInv, ProviderTypes
      <3>3. session' = session /\ kicks' = kicks /\ forced' = forced
        BY <2>1
      <3>4. CASE l = s
        BY <2>1, <2>3, <2>5, <3>1, <3>3, <3>4 DEF StandsWell
      <3>5. CASE l # s
        BY <3>2, <3>3, <3>5 DEF StandsWell, StandingInv
      <3> QED
        BY <3>4, <3>5
    <2> QED
      BY <2>6, <2>7 DEF StandingInv, StandsWell
  <1> QED
    BY <1>1, <1>2

LEMMA PacketKeeps ==
  ASSUME StandingInv, PacketNext
  PROVE  StandingInv'
  <1>1. PICK s \in SessionId :
          \/ Admit(s) \/ Leave(s) \/ Misbound(s) \/ AdminDenied(s)
          \/ \E m \in Manifest : SubmitManifest(s, m)
          \/ \E i \in Instruction, lead \in {0, MaxLead + 1} : InspectCommand(s, i, lead)
    BY DEF PacketNext
  <1>2. CASE Admit(s)
    BY <1>2, AdmitKeeps
  <1>3. CASE Leave(s)
    BY <1>3, LeaveKeeps
  <1>4. CASE Misbound(s)
    <2>1. <<"SessionBindingMismatch">> \in Seq({"SessionBindingMismatch"})
      OBVIOUS
    <2>2. Found(s, <<"SessionBindingMismatch">>) /\ UNCHANGED <<session, forced>>
      BY <1>4 DEF Misbound
    <2> QED
      BY <2>1, <2>2, FoundKeeps, Zenon
  <1>5. CASE AdminDenied(s)
    <2>1. <<"AdminPermissionDenied">> \in Seq({"AdminPermissionDenied"})
      OBVIOUS
    <2>2. Found(s, <<"AdminPermissionDenied">>) /\ UNCHANGED <<session, forced>>
      BY <1>5 DEF AdminDenied
    <2> QED
      BY <2>1, <2>2, FoundKeeps, Zenon
  <1>6. ASSUME NEW m \in Manifest, SubmitManifest(s, m) PROVE StandingInv'
    <2>1. CASE Leave(s)
      BY <2>1, LeaveKeeps
    <2>2. CASE UNCHANGED <<session, trust, telemetry, kicks, forced>>
      BY <2>2 DEF StandingInv, ProviderTypes
    <2> QED
      BY <1>6, <2>1, <2>2 DEF SubmitManifest
  <1>7. ASSUME NEW i \in Instruction, NEW lead \in {0, MaxLead + 1}, InspectCommand(s, i, lead)
        PROVE  StandingInv'
    BY <1>7, InspectKeeps
  <1> QED
    BY <1>1, <1>2, <1>3, <1>4, <1>5, <1>6, <1>7

LEMMA OverrideIs ==
  ASSUME StandingInv, NEW s \in SessionId, NEW level \in TrustLevel
  PROVE  /\ DOMAIN Override(s, level).trust = SessionId
         /\ Override(s, level).trust = [l \in SessionId |-> Override(s, level).trust[l]]
         /\ kicks \subseteq Override(s, level).kicks /\ Override(s, level).kicks \subseteq SessionId
         /\ \A l \in SessionId :
              \/ Override(s, level).trust[l] = trust[l]
              \/ /\ l \in Registered /\ Override(s, level).trust[l] = AtLevel(trust[l], level)
                 /\ Noted(trust[l], Override(s, level).trust[l]) => l \in Override(s, level).kicks
  <1>1. trust = [l \in SessionId |-> trust[l]] /\ kicks \subseteq SessionId
    BY DEF StandingInv, ProviderTypes
  <1> DEFINE d == Override(s, level)
  <1>2. /\ d.trust = IF s \in Registered THEN [trust EXCEPT ![s] = AtLevel(trust[s], level)] ELSE trust
        /\ d.kicks = IF s \in Registered /\ Noted(trust[s], AtLevel(trust[s], level)) THEN kicks \cup {s} ELSE kicks
    BY <1>1 DEF Override
  <1> HIDE DEF d
  <1>3. CASE s \notin Registered
    BY <1>1, <1>2, <1>3 DEF d
  <1>4. CASE s \in Registered
    <2>1. /\ d.trust = [trust EXCEPT ![s] = AtLevel(trust[s], level)]
          /\ d.kicks = IF Noted(trust[s], AtLevel(trust[s], level)) THEN kicks \cup {s} ELSE kicks
      BY <1>2, <1>4
    <2>2. /\ DOMAIN d.trust = SessionId /\ d.trust = [l \in SessionId |-> d.trust[l]]
      BY <1>1, <2>1
    <2>3. \A l \in SessionId : IF l = s THEN d.trust[l] = AtLevel(trust[s], level) ELSE d.trust[l] = trust[l]
      BY <1>1, <2>1
    <2>4. kicks \subseteq d.kicks /\ d.kicks \subseteq SessionId
          /\ (Noted(trust[s], AtLevel(trust[s], level)) => s \in d.kicks)
      BY <1>1, <2>1
    <2> QED
      BY <1>4, <2>2, <2>3, <2>4 DEF d
  <1> QED
    BY <1>3, <1>4

LEMMA TickKeeps ==
  ASSUME StandingInv, NEW silent, ServerTick(silent)
  PROVE  StandingInv'
  <1>1. trust = [l \in SessionId |-> trust[l]] /\ kicks \subseteq SessionId
    BY DEF StandingInv, ProviderTypes
  <1>2. PICK directed \in Directives : \E gone :
          /\ directed.kicks \subseteq gone
          /\ End(gone) /\ trust' = Forgotten(directed.trust, gone)
          /\ forced' = forced \cup {l \in SessionId : directed.trust[l] # trust[l]}
    <2>1. PICK directed \in Directives :
            \E kicked \in {{}} \cup {{s} : s \in SessionId} :
              LET gone == kicked \cup silent \cup directed.kicks
              IN /\ End(gone)
                 /\ trust' = Forgotten(directed.trust, gone)
                 /\ forced' = forced \cup {s \in SessionId : directed.trust[s] # trust[s]}
      BY Zenon DEF ServerTick
    <2>2. PICK kicked, gone : gone = kicked \cup silent \cup directed.kicks /\ End(gone)
                               /\ trust' = Forgotten(directed.trust, gone)
                               /\ forced' = forced \cup {s \in SessionId : directed.trust[s] # trust[s]}
      BY <2>1
    <2> QED
      BY <2>1, <2>2
  <1>3. PICK gone :
          /\ directed.kicks \subseteq gone
          /\ End(gone) /\ trust' = Forgotten(directed.trust, gone)
          /\ forced' = forced \cup {l \in SessionId : directed.trust[l] # trust[l]}
    BY <1>2
  <1>4. /\ kicks \subseteq directed.kicks
        /\ \A l \in SessionId :
              \/ directed.trust[l] = trust[l]
              \/ /\ l \in Registered
                 /\ \E level \in TrustLevel : directed.trust[l] = AtLevel(trust[l], level)
                 /\ Noted(trust[l], directed.trust[l]) => l \in directed.kicks
    <2>1. CASE directed = [trust |-> trust, kicks |-> kicks]
      BY <2>1
    <2>2. ASSUME NEW s \in SessionId, NEW level \in TrustLevel, directed = Override(s, level)
          PROVE  /\ kicks \subseteq directed.kicks
                 /\ \A l \in SessionId :
                      \/ directed.trust[l] = trust[l]
                      \/ /\ l \in Registered /\ directed.trust[l] = AtLevel(trust[l], level)
                         /\ Noted(trust[l], directed.trust[l]) => l \in directed.kicks
      <3>1. /\ kicks \subseteq Override(s, level).kicks
            /\ \A l \in SessionId :
              \/ Override(s, level).trust[l] = trust[l]
              \/ /\ l \in Registered /\ Override(s, level).trust[l] = AtLevel(trust[l], level)
                 /\ Noted(trust[l], Override(s, level).trust[l]) => l \in Override(s, level).kicks
        BY OverrideIs, Zenon
      <3> QED
        BY <2>2, <3>1
    <2>3. \/ directed = [trust |-> trust, kicks |-> kicks]
          \/ \E s \in SessionId, level \in TrustLevel : directed = Override(s, level)
      BY DEF Directives
    <2> QED
      BY <2>1, <2>2, <2>3
  <1>5. ProviderTypes'
    <2>1. kicks' = {} /\ End(gone) /\ trust' = Forgotten(directed.trust, gone)
      BY <1>3 DEF ServerTick
    <2> QED
      BY <2>1 DEF End, Forgotten, ProviderTypes
  <1>6. ASSUME NEW l \in SessionId PROVE StandsWell(l)'
    <2>1. trust'[l] = IF l \in gone THEN NoTrust ELSE directed.trust[l]
      BY <1>3 DEF Forgotten
    <2>2. session'[l] = IF l \in gone /\ session[l] # "None" THEN "Ended" ELSE session[l]
      BY <1>3 DEF End
    <2>3. CASE l \in gone
      BY <2>1, <2>3 DEF StandsWell
    <2>4. CASE l \notin gone /\ directed.trust[l] = trust[l]
      <3>1. trust'[l] = trust[l] /\ session'[l] = session[l]
        BY <2>1, <2>2, <2>4
      <3>2. l \notin kicks /\ (l \notin forced' => l \notin forced)
        BY <1>3, <1>4, <2>4
      <3>3. StandsWell(l)
        BY DEF StandingInv, StandsWell
      <3> QED
        BY <3>1, <3>2, <3>3 DEF StandsWell
    <2>5. CASE l \notin gone /\ directed.trust[l] # trust[l]
      <3>1. PICK level \in TrustLevel : directed.trust[l] = AtLevel(trust[l], level)
        BY <1>4, <2>5
      <3>2. l \in Registered /\ l \in forced' /\ l \notin kicks /\ ~Noted(trust[l], directed.trust[l])
        BY <1>3, <1>4, <2>5
      <3>3. trust[l] \in Known /\ session[l] = "Live" /\ trust[l].level # "Banned"
        BY <3>2, RegisteredIsKnown
      <3>4. trust[l] \in TrustStates /\ trust[l].status = FromTrust(trust[l].level)
        BY <3>3 DEF Known
      <3>5. directed.trust[l] \in Known
        BY <3>1, <3>4, AtLevelIsKnown
      <3>6. directed.trust[l].level # "Banned"
        BY <3>2, <3>3 DEF Noted
      <3>7. trust'[l] = directed.trust[l] /\ session'[l] = "Live"
        BY <2>1, <2>2, <2>5, <3>3
      <3> QED
        BY <3>2, <3>5, <3>6, <3>7 DEF StandsWell
    <2> QED
      BY <2>3, <2>4, <2>5
  <1> QED
    BY <1>5, <1>6 DEF StandingInv, StandsWell

(* Who is banned, by evidence or by an operator, is bound to be removed by *)
(* the end of the tick, and what is known of everyone else follows from    *)
(* the evidence unless an operator had a hand in it: whatever the commands,*)
(* the thresholds, the weights and the order of packets and ticks          *)
(* (trust.rs:184-243, basic.rs:147-182 and 451-473, server.rs:325-329).    *)
THEOREM StandingsStayConsistent == MatchSpec => []StandingConsistent
  <1>1. MatchInit => StandingInv
    BY DEF MatchInit, StandingInv, ProviderTypes
  <1>2. StandingInv /\ [MatchNext]_<<worldvars, knowledgevars, settled, providervars>> => StandingInv'
    <2> SUFFICES ASSUME StandingInv, [MatchNext]_<<worldvars, knowledgevars, settled, providervars>>
                 PROVE  StandingInv'
      OBVIOUS
    <2>1. CASE PacketNext
      BY <2>1, PacketKeeps
    <2>2. CASE UNCHANGED providervars
      BY <2>2 DEF providervars, StandingInv, ProviderTypes
    <2>3. ASSUME NEW silent \in SUBSET SessionId, ServerTick(silent) PROVE StandingInv'
      BY <2>3, TickKeeps
    <2> QED
      BY <2>1, <2>2, <2>3 DEF MatchNext
  <1> QED
    BY <1>1, <1>2, StandingsAreConsistent, PTL DEF MatchSpec
=============================================================================
