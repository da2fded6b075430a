----------------------------- MODULE MCSession -----------------------------
(* Two clients; sessions may be opened twice by a repeated handshake.       *)
EXTENDS Session

CONSTANTS c1, c2

MCOperation ==
  [c \in Client |->
     IF c = c1 THEN {[op |-> "play"], [op |-> "role", target |-> 2, role |-> "Moderator"]}
               ELSE {[op |-> "kick", target |-> 2]}
                       \cup [op : {"manifest"}, valid : BOOLEAN]]

MCMaxSequence == [c \in Client |-> IF c = c1 THEN 2 ELSE 1]
=============================================================================
