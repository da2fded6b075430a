------------------------------- MODULE Ledger -------------------------------
(***************************************************************************)
(* What a container of the simulation promises its users, with no slots:   *)
(* how many units of each resource it holds, how many of those are locked, *)
(* and which reservations lock them.                                       *)
(*                                                                         *)
(* Inventory (the slot-level containers of sim-core/src/inventory.rs) is   *)
(* checked to implement this module; Logistics is built on top of it.      *)
(* A refusal (full target, short balance) is a step that changes nothing,  *)
(* so only the accepted calls are actions here, and a container may always *)
(* refuse to receive for lack of room.  Who may ask is not its concern.    *)
(***************************************************************************)
EXTENDS Integers, FiniteSets

CONSTANTS
  Container,      \* entities that own an inventory
  Resource,       \* resource ids
  ReservationId   \* ids a reservation can have

VARIABLES
  qty,       \* qty[c][r]: units of r in c, the locked ones included
  reserved,  \* reserved[c][r]: units of r in c that are locked
  held       \* held[c]: reservation id -> [resource, amount] locked in c

ledgerVars == <<qty, reserved, held>>

Holding == [resource : Resource, amount : Nat]

(* f maps some reservation ids to what each of them locks.                 *)
IsHoldings(f) ==
  /\ f = [id \in DOMAIN f |-> f[id]]
  /\ DOMAIN f \subseteq ReservationId
  /\ \A id \in DOMAIN f : f[id] \in Holding

Without(f, x) == [y \in DOMAIN f \ {x} |-> f[y]]
With(f, x, v) == [y \in DOMAIN f \cup {x} |-> IF y = x THEN v ELSE f[y]]

Available(c, r) == qty[c][r] - reserved[c][r]

LedgerInit ==
  /\ qty = [c \in Container |-> [r \in Resource |-> 0]]
  /\ reserved = [c \in Container |-> [r \in Resource |-> 0]]
  /\ held = [c \in Container |-> [id \in {} |-> id]]

-----------------------------------------------------------------------------
(* Units enter a container from outside the ledger (mining, refunds,       *)
(* production output) and leave it (build and repair costs).               *)
Deposit(c, r, n) ==
  /\ qty' = [qty EXCEPT ![c][r] = @ + n]
  /\ UNCHANGED <<reserved, held>>

Withdraw(c, r, n) ==
  /\ n <= Available(c, r)
  /\ qty' = [qty EXCEPT ![c][r] = @ - n]
  /\ UNCHANGED <<reserved, held>>

(* Unlocked units move between two containers.                             *)
Transfer(c, d, r, n) ==
  /\ c # d
  /\ n <= Available(c, r)
  /\ qty' = [qty EXCEPT ![c][r] = @ - n, ![d][r] = @ + n]
  /\ UNCHANGED <<reserved, held>>

(* Lock unlocked units under an id this container does not use yet.        *)
Hold(c, id, r, n) ==
  /\ id \notin DOMAIN held[c]
  /\ n <= Available(c, r)
  /\ reserved' = [reserved EXCEPT ![c][r] = @ + n]
  /\ held' = [held EXCEPT ![c] = With(@, id, [resource |-> r, amount |-> n])]
  /\ UNCHANGED qty

(* Undo a lock: the units become available where they are.                 *)
Release(c, id) ==
  /\ id \in DOMAIN held[c]
  /\ LET h == held[c][id] IN
       /\ h.amount <= reserved[c][h.resource]
       /\ reserved' = [reserved EXCEPT ![c][h.resource] = @ - h.amount]
       /\ held' = [held EXCEPT ![c] = Without(@, id)]
  /\ UNCHANGED qty

(* Consume a reservation: the locked units leave the container.            *)
Consume(c, id) ==
  /\ id \in DOMAIN held[c]
  /\ LET h == held[c][id] IN
       /\ h.amount <= reserved[c][h.resource]
       /\ reserved' = [reserved EXCEPT ![c][h.resource] = @ - h.amount]
       /\ qty' = [qty EXCEPT ![c][h.resource] = @ - h.amount]
       /\ held' = [held EXCEPT ![c] = Without(@, id)]

(* Deliver a reservation: the locked units arrive in d; d may be c itself, *)
(* which only unlocks them.                                                *)
Deliver(c, id, d) ==
  /\ id \in DOMAIN held[c]
  /\ LET h == held[c][id]
         r == h.resource
         left == [qty EXCEPT ![c][r] = @ - h.amount]
     IN
       /\ h.amount <= reserved[c][r]
       /\ reserved' = [reserved EXCEPT ![c][r] = @ - h.amount]
       /\ qty' = [left EXCEPT ![d][r] = @ + h.amount]
       /\ held' = [held EXCEPT ![c] = Without(@, id)]

(* The amount and the reservation a step is about are read off the step.   *)
LedgerNext ==
  \E c \in Container :
    \/ \E r \in Resource :
         LET gained == qty'[c][r] - qty[c][r] IN
           \/ gained > 0 /\ Deposit(c, r, gained)
           \/ gained < 0 /\ Withdraw(c, r, -gained)
           \/ gained < 0 /\ \E d \in Container : Transfer(c, d, r, -gained)
    \/ \E id \in DOMAIN held'[c] \ DOMAIN held[c] :
         LET new == held'[c][id] IN Hold(c, id, new.resource, new.amount)
    \/ \E id \in DOMAIN held[c] \ DOMAIN held'[c] :
         \/ Release(c, id)
         \/ Consume(c, id)
         \/ \E d \in Container : Deliver(c, id, d)

(* Whoever keeps the containers registers one anew, empty, or removes it.  *)
Discard(c) ==
  /\ qty' = [qty EXCEPT ![c] = [r \in Resource |-> 0]]
  /\ reserved' = [reserved EXCEPT ![c] = [r \in Resource |-> 0]]
  /\ held' = [held EXCEPT ![c] = [id \in {} |-> id]]

LedgerChange == LedgerNext \/ \E c \in Container : Discard(c)

LedgerSpec == LedgerInit /\ [][LedgerChange]_ledgerVars

-----------------------------------------------------------------------------
LedgerTypeOK ==
  /\ qty \in [Container -> [Resource -> Nat]]
  /\ reserved \in [Container -> [Resource -> Nat]]
  /\ held = [c \in Container |-> held[c]]
  /\ \A c \in Container : IsHoldings(held[c])

(* No container ever promises more than it has.                            *)
NeverOverReserved ==
  \A c \in Container, r \in Resource : reserved[c][r] <= qty[c][r]
=============================================================================
