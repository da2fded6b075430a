----------------------------- MODULE Inventory ------------------------------
(***************************************************************************)
(* The slot-level containers and the registry of                           *)
(* crates/sim-core/src/inventory.rs.                                       *)
(*                                                                         *)
(* Every container keeps its units in slots of at most one stack of one    *)
(* resource, and its reservations in a map beside them: a reservation says *)
(* how many units it locks, never which slots they are in.  Each operation *)
(* of the code walks the slots and gives every one of them its share of    *)
(* the amount asked for; Spread is that walk, and the five operations of   *)
(* the code are five ways of using it.                                     *)
(*                                                                         *)
(* Abstracted: volumes are whole numbers where the code adds f32 litres;   *)
(* ticks, target entities of a reservation and journal entries are left    *)
(* out.  A refused call changes nothing and is not an action.              *)
(***************************************************************************)
EXTENDS Integers, Sequences, SequencesExt, FiniteSets

CONSTANTS
  Container, Resource,
  Actor,         \* the factions in whose name calls are made
  NoFaction,     \* FactionId::null(): server authority, unowned storage
  Owner,         \* Owner[c]: the faction a container is stamped with
  Silo,          \* the containers of kind ContainerKind::Silo
  RawMineral,    \* the resources of category RawMineral
  MaxSlots,      \* MaxSlots[c], MaxVolume[c]: a container's capacity
  MaxVolume,
  StackLimit,    \* StackLimit[r], UnitVolume[r]: from the resource registry
  UnitVolume,
  MaxAmount,     \* bound: units one call asks for
  MaxSupply,     \* bound: units that exist at any time
  MaxId          \* bound: reservation ids

ASSUME ResourceAssumption ==
  /\ StackLimit \in [Resource -> Nat \ {0}]
  /\ UnitVolume \in [Resource -> Nat]
  /\ MaxSlots \in [Container -> Nat]
  /\ MaxVolume \in [Container -> Nat]
  /\ Silo \subseteq Container /\ MaxAmount \in Nat /\ MaxId \in Nat

VARIABLES
  registered,         \* containers in the registry
  slots,              \* slots[c]: sequence of [resource, quantity, reserved]
  reservations,       \* reservations[c]: id -> [resource, amount]
  nextReservationId   \* the registry's id counter

vars == <<registered, slots, reservations, nextReservationId>>

Id == 1 .. MaxId
Amount == 1 .. MaxAmount

Least(a, b) == IF a <= b THEN a ELSE b
CeilDiv(a, b) == (a + b - 1) \div b

-----------------------------------------------------------------------------
(* Slots.                                                                  *)

(* What each slot has of resource r: its units, the locked ones, those that *)
(* are not locked, and the room left in its stack; nothing in the others.  *)
Quantities(s, r) == [i \in DOMAIN s |-> IF s[i].resource = r THEN s[i].quantity ELSE 0]
Locked(s, r) == [i \in DOMAIN s |-> IF s[i].resource = r THEN s[i].reserved ELSE 0]
Free(s, r) ==
  [i \in DOMAIN s |-> IF s[i].resource = r THEN s[i].quantity - s[i].reserved ELSE 0]
Headroom(s, r) ==
  [i \in DOMAIN s |-> IF s[i].resource = r THEN StackLimit[r] - s[i].quantity ELSE 0]

Total(f) == MapThenSumSet(LAMBDA x : f[x], DOMAIN f)

TotalQuantity(s, r) == Total(Quantities(s, r))
AvailableQuantity(s, r) == Total(Free(s, r))
ReservedQuantity(s, r) == Total(Locked(s, r))

Volume(s) == Total([i \in DOMAIN s |-> s[i].quantity * UnitVolume[s[i].resource]])

(* Walk the slots from the front; each takes as much of the amount that is *)
(* left as it has room for.  Spread(room, amount)[i] is the share of i.    *)
Spread(room, amount) ==
  LET left[i \in 0 .. Len(room)] ==
        IF i = 0 THEN amount ELSE left[i - 1] - Least(left[i - 1], room[i])
  IN [i \in DOMAIN room |-> Least(left[i - 1], room[i])]

DropEmpty(s) ==
  LET kept[i \in 0 .. Len(s)] ==
        IF i = 0 THEN <<>>
        ELSE IF s[i].quantity # 0 \/ s[i].reserved # 0 THEN Append(kept[i - 1], s[i])
        ELSE kept[i - 1]
  IN kept[Len(s)]

Fill(s, r, amount) ==
  LET share == Spread(Headroom(s, r), amount)
  IN [i \in DOMAIN s |-> [s[i] EXCEPT !.quantity = @ + share[i]]]

(* What does not fit into the stacks there are.                            *)
Unplaced(s, r, amount) == amount - Total(Spread(Headroom(s, r), amount))

(* Fault: the last new slot is a full stack too.                           *)
NewSlotsFull(r, amount) ==
  [i \in 1 .. CeilDiv(amount, StackLimit[r]) |->
     [resource |-> r, reserved |-> 0, quantity |-> StackLimit[r]]]

NewSlots(r, amount) ==
  [i \in 1 .. CeilDiv(amount, StackLimit[r]) |->
     [resource |-> r, reserved |-> 0,
      quantity |-> Least(StackLimit[r], amount - (i - 1) * StackLimit[r])]]

CanAccept(c, s, r, amount) ==
  \/ amount = 0
  \/ /\ c \in Silo => r \in RawMineral
     /\ Volume(s) + amount * UnitVolume[r] <= MaxVolume[c]
     /\ LET left == Unplaced(s, r, amount) IN
          left = 0 \/ Len(s) + CeilDiv(left, StackLimit[r]) <= MaxSlots[c]

AddTo(s, r, amount) == Fill(s, r, amount) \o NewSlots(r, Unplaced(s, r, amount))

(* Fault: locked units leave too.                                          *)
RemoveFromAny(s, r, amount) ==
  LET share == Reverse(Spread(Reverse(Quantities(s, r)), amount))
  IN DropEmpty([i \in DOMAIN s |-> [s[i] EXCEPT !.quantity = @ - share[i]]])

(* Unlocked units leave from the back of the container.                    *)
RemoveFrom(s, r, amount) ==
  LET share == Reverse(Spread(Reverse(Free(s, r)), amount))
  IN DropEmpty([i \in DOMAIN s |-> [s[i] EXCEPT !.quantity = @ - share[i]]])

Lock(s, r, amount) ==
  LET share == Spread(Free(s, r), amount)
  IN [i \in DOMAIN s |-> [s[i] EXCEPT !.reserved = @ + share[i]]]

(* Any locked unit serves: the walk does not know whose lock it takes.     *)
Deduct(s, r, amount) ==
  LET share == Spread(Locked(s, r), amount)
  IN DropEmpty([i \in DOMAIN s |->
       [s[i] EXCEPT !.reserved = @ - share[i], !.quantity = @ - share[i]]])

(* Fault: a slot is unlocked completely, whosever units are locked in it.  *)
UnlockAll(s, r, amount) ==
  [i \in DOMAIN s |-> IF s[i].resource = r THEN [s[i] EXCEPT !.reserved = 0] ELSE s[i]]

Unlock(s, r, amount) ==
  LET share == Spread(Locked(s, r), amount)
  IN [i \in DOMAIN s |-> [s[i] EXCEPT !.reserved = @ - share[i]]]

-----------------------------------------------------------------------------
(* The registry.                                                           *)

IsAccessibleBy(c, actor) ==
  actor = NoFaction \/ Owner[c] = NoFaction \/ Owner[c] = actor

Without(f, x) == [y \in DOMAIN f \ {x} |-> f[y]]
With(f, x, v) == [y \in DOMAIN f \cup {x} |-> IF y = x THEN v ELSE f[y]]

NoReservations == [id \in {} |-> id]

Init ==
  /\ registered = {}
  /\ slots = [c \in Container |-> <<>>]
  /\ reservations = [c \in Container |-> NoReservations]
  /\ nextReservationId = 1

Supply ==
  LET Stored(c) == Total([i \in DOMAIN slots[c] |-> slots[c][i].quantity])
  IN MapThenSumSet(Stored, Container)

Emptied(c) ==
  /\ slots' = [slots EXCEPT ![c] = <<>>]
  /\ reservations' = [reservations EXCEPT ![c] = NoReservations]
  /\ UNCHANGED nextReservationId

(* An entity gets its container, empty, in place of the one it had.        *)
Register(c) == registered' = registered \cup {c} /\ Emptied(c)

RemoveContainer(c) ==
  /\ c \in registered
  /\ registered' = registered \ {c}
  /\ Emptied(c)

Add(c, r, amount) ==
  /\ c \in registered
  /\ Supply + amount <= MaxSupply
  /\ CanAccept(c, slots[c], r, amount)
  /\ slots' = [slots EXCEPT ![c] = AddTo(@, r, amount)]
  /\ UNCHANGED <<registered, reservations, nextReservationId>>

RemoveUnits(c, r, amount) ==
  /\ c \in registered
  /\ AvailableQuantity(slots[c], r) >= amount
  /\ slots' = [slots EXCEPT ![c] = RemoveFrom(@, r, amount)]
  /\ UNCHANGED <<registered, reservations, nextReservationId>>

AtomicTransfer(actor, from, to, r, amount) ==
  /\ from # to
  /\ {from, to} \subseteq registered
  /\ IsAccessibleBy(from, actor) /\ IsAccessibleBy(to, actor)
  /\ AvailableQuantity(slots[from], r) >= amount
  /\ CanAccept(to, slots[to], r, amount)
  /\ slots' = [slots EXCEPT ![from] = RemoveFrom(@, r, amount),
                            ![to] = AddTo(@, r, amount)]
  /\ UNCHANGED <<registered, reservations, nextReservationId>>

Reserve(c, id, r, amount) ==
  /\ c \in registered
  /\ id \notin DOMAIN reservations[c]
  /\ AvailableQuantity(slots[c], r) >= amount
  /\ slots' = [slots EXCEPT ![c] = Lock(@, r, amount)]
  /\ reservations' =
       [reservations EXCEPT ![c] = With(@, id, [resource |-> r, amount |-> amount])]

(* A client command names the id itself; the registry does not record it.  *)
TwoPhaseReserve(actor, c, id, r, amount) ==
  /\ IsAccessibleBy(c, actor)
  /\ Reserve(c, id, r, amount)
  /\ UNCHANGED <<registered, nextReservationId>>

(* A job takes the next id of the registry; the id is spent even when the  *)
(* reservation under it is refused.                                        *)
ReserveWithNextId(c, r, amount) ==
  /\ nextReservationId \in Id
  /\ nextReservationId' = nextReservationId + 1
  /\ \/ Reserve(c, nextReservationId, r, amount)
     \/ /\ \/ nextReservationId \in DOMAIN reservations[c]
           \/ AvailableQuantity(slots[c], r) < amount
        /\ UNCHANGED <<slots, reservations>>
  /\ c \in registered
  /\ UNCHANGED registered

(* The units a reservation needs are still locked in the slots.            *)
LocksSuffice(c, id) ==
  LET res == reservations[c][id]
      locked == Total([i \in DOMAIN slots[c] |->
                         Least(Locked(slots[c], res.resource)[i],
                               Quantities(slots[c], res.resource)[i])])
  IN locked >= res.amount

CommitReservation(c, id) ==
  /\ id \in DOMAIN reservations[c]
  /\ LocksSuffice(c, id)
  /\ LET res == reservations[c][id] IN
       slots' = [slots EXCEPT ![c] = Deduct(@, res.resource, res.amount)]
  /\ reservations' = [reservations EXCEPT ![c] = Without(@, id)]
  /\ UNCHANGED <<registered, nextReservationId>>

TwoPhaseCommit(actor, id, from, to) ==
  /\ {from, to} \subseteq registered
  /\ IsAccessibleBy(from, actor) /\ IsAccessibleBy(to, actor)
  /\ id \in DOMAIN reservations[from]
  /\ LET res == reservations[from][id]
         after == [slots EXCEPT ![from] = Deduct(@, res.resource, res.amount)]
     IN
       /\ CanAccept(to, slots[to], res.resource, res.amount)
       /\ LocksSuffice(from, id)
       /\ slots' = [after EXCEPT ![to] = AddTo(@, res.resource, res.amount)]
  /\ reservations' = [reservations EXCEPT ![from] = Without(@, id)]
  /\ UNCHANGED <<registered, nextReservationId>>

ReleaseReservation(c, id) ==
  /\ id \in DOMAIN reservations[c]
  /\ LET res == reservations[c][id] IN
       /\ ReservedQuantity(slots[c], res.resource) >= res.amount
       /\ slots' = [slots EXCEPT ![c] = Unlock(@, res.resource, res.amount)]
  /\ reservations' = [reservations EXCEPT ![c] = Without(@, id)]
  /\ UNCHANGED <<registered, nextReservationId>>

TwoPhaseCancel(actor, id, from) ==
  /\ IsAccessibleBy(from, actor)
  /\ from \in registered
  /\ ReleaseReservation(from, id)

Next ==
  \E c \in Container :
    \/ Register(c)
    \/ RemoveContainer(c)
    \/ \E r \in Resource, n \in Amount :
         \/ Add(c, r, n)
         \/ RemoveUnits(c, r, n)
         \/ ReserveWithNextId(c, r, n)
         \/ \E actor \in Actor :
              \/ \E d \in Container : AtomicTransfer(actor, c, d, r, n)
              \/ \E id \in Id : TwoPhaseReserve(actor, c, id, r, n)
    \/ \E id \in DOMAIN reservations[c] :
         \/ CommitReservation(c, id)
         \/ ReleaseReservation(c, id)
         \/ \E actor \in Actor :
              \/ TwoPhaseCancel(actor, id, c)
              \/ \E d \in Container : TwoPhaseCommit(actor, id, c, d)

Spec == Init /\ [][Next]_vars

-----------------------------------------------------------------------------
(* Properties.                                                             *)

(* The four conditions validate_invariants audits: capacity in slots and   *)
(* in volume, no slot promised beyond its content, and the locked units of *)
(* the slots add up to the reservations, resource by resource.             *)
ReservedBy(c, r) ==
  Total([id \in {id \in DOMAIN reservations[c] : reservations[c][id].resource = r} |->
           reservations[c][id].amount])

ValidateInvariants ==
  \A c \in Container :
    /\ Len(slots[c]) <= MaxSlots[c]
    /\ Volume(slots[c]) <= MaxVolume[c]
    /\ \A i \in DOMAIN slots[c] : slots[c][i].reserved <= slots[c][i].quantity
    /\ \A r \in Resource : ReservedQuantity(slots[c], r) = ReservedBy(c, r)

(* atomic_transfer and two_phase_commit put the units back into their      *)
(* source when the target refuses them, and ignore whether that worked:    *)
(* the units are lost unless a container always has room again for what    *)
(* was just taken out of it, however its slots are fragmented.             *)
RollbackFits ==
  \A c \in Container, r \in Resource, n \in Amount :
    /\ n <= AvailableQuantity(slots[c], r) =>
         CanAccept(c, RemoveFrom(slots[c], r, n), r, n)
    /\ n <= ReservedQuantity(slots[c], r) =>
         CanAccept(c, Deduct(slots[c], r, n), r, n)

(* Every reservation can be honoured and can be undone at any time: the    *)
(* check commit and release make before they touch a slot never refuses,   *)
(* whatever reservations were committed or released before it.             *)
ReservationsHonourable ==
  \A c \in Container : \A id \in DOMAIN reservations[c] : LocksSuffice(c, id)

(* What a container handed out or promised it can take back or undo at any *)
(* moment: the two ways back the callers rely on without looking at their  *)
(* result (container.rs).                                                  *)
AlwaysUndoable == RollbackFits /\ ReservationsHonourable

(* The slot walks lose and invent nothing: seen through its totals, every  *)
(* step of a container is a step of the ledger.                            *)
LedgerView == INSTANCE Ledger WITH
  ReservationId <- Id,
  qty      <- [c \in Container |-> [r \in Resource |-> TotalQuantity(slots[c], r)]],
  reserved <- [c \in Container |-> [r \in Resource |-> ReservedQuantity(slots[c], r)]],
  held     <- reservations

ImplementsLedger == LedgerView!LedgerSpec
=============================================================================
