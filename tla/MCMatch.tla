------------------------------ MODULE MCMatch ------------------------------
(* Two factions that watch each other, and one session that is watched.     *)
EXTENDS AntiCheat

CONSTANTS f1, f2, s1, MaxWatch

VARIABLE focus   \* what goes on: "fog" or "commands"

MCPlace == {<<0, 0>>, <<3, 0>>}
MCAllegiance == [e \in {1, 2, 3} |-> IF e = 2 THEN f2 ELSE f1]
MCOwner == [s \in {2} |-> f2]
MCStandsAt == [s \in {2} |-> <<4, 1>>]
MCPlaysFor == [s \in {s1} |-> f1]
MCActorOf == [s \in {s1} |-> 3]
MCServerManifest == [protocol |-> 1, official |-> TRUE, content |-> 1]
MCManifest == {MCServerManifest, [MCServerManifest EXCEPT !.protocol = 2]}
MCWeight == [Info |-> 0, Low |-> 1, Medium |-> 2, High |-> 4, Critical |-> 12]
MCBalance == [e \in {1, 2, 3} |-> 2]
MCAmmo == [e \in {1, 2, 3} |-> IF e = 3 THEN 0 ELSE 1]
Far == <<90, 0>>
MCOutOfBounds == {Far}
MCInstruction ==
  [type : {"Move"}, to : {<<0, 0>>, Far, NotFinite}, speed : {9}]
    \cup {[type |-> "Move", to |-> <<3, 0>>, speed |-> 0]}
    \cup {[type |-> "Fire", target |-> 2], [type |-> "Attack", robot |-> 1, target |-> 2],
          [type |-> "Follow", robot |-> 2, target |-> 1], [type |-> "SendRobot", robot |-> 1, to |-> Far],
          [type |-> "Regroup", to |-> NotFinite], [type |-> "Escort", robot |-> 1],
          [type |-> "Build", to |-> <<3, 0>>, rotation |-> 0], [type |-> "Build", to |-> NotFinite, rotation |-> 0],
          [type |-> "Dismantle", structure |-> 2], [type |-> "Repair", structure |-> 2, robot |-> 1],
          [type |-> "Transfer", robot |-> 1, target |-> 3, amount |-> 3], [type |-> "Research"]}

(* The fog is watched with nobody in the match; commands are sent while    *)
(* the world stands still.                                                 *)
FocusInit ==
  /\ MatchInit
  /\ focus \in {"fog", "commands"}
  /\ focus = "commands" => unit[1] = <<0, 0>>
FocusNext ==
  /\ UNCHANGED focus
  /\ \/ /\ focus = "fog"
        /\ \/ WorldMoves
           \/ now < MaxWatch /\ KnowledgeStep
        /\ UNCHANGED providervars
     \/ /\ focus = "commands"
        /\ \/ PacketNext /\ UNCHANGED <<worldvars, knowledgevars, settled>>
           \/ now < MaxWatch - 1 /\ \E silent \in SUBSET SessionId : ServerTick(silent)
=============================================================================
