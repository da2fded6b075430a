---------------------------- MODULE MCLogistics -----------------------------
(* One faction's depot, outpost and two haulers, and a hauler of another   *)
(* faction that can claim nothing here.                                    *)
EXTENDS Logistics, TLC

CONSTANTS depot, outpost, h1, h2, rival, ore, f1, f2

MCOwner == [c \in Container |-> IF c = rival THEN f2 ELSE f1]
MCCapacity == [c \in Container |-> IF c \in {h1, h2, outpost} THEN 2 ELSE 3]
MCStock == [c \in Container |-> [r \in Resource |-> IF c = depot THEN 3 ELSE 0]]
=============================================================================
