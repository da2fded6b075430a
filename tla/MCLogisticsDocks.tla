-------------------------- MODULE MCLogisticsDocks --------------------------
(* Two haulers between a depot and an outpost, each place with a dock.     *)
EXTENDS LogisticsDocks, TLC

CONSTANTS depot, outpost, h1, h2, ore, f1

MCOwner == [c \in Container |-> f1]
MCCapacity == [c \in Container |-> IF c = depot THEN 3 ELSE 2]
MCStock ==
  [c \in Container |-> [r \in Resource |-> CASE c = depot -> 2 [] c = outpost -> 1 [] OTHER -> 0]]
MCTightCapacity == [c \in Container |-> IF c = outpost THEN 1 ELSE 2]
MCDepotStock == [c \in Container |-> [r \in Resource |-> IF c = depot THEN 2 ELSE 0]]
MCDock == <<depot, outpost>>
MCOneDock == <<depot>>
=============================================================================
