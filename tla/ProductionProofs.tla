-------------------------- MODULE ProductionProofs --------------------------
(***************************************************************************)
(* What is proved about production (Production.tla): the inputs of a craft *)
(* stay locked until it ends, the work done on it is never lost, and a     *)
(* distant drill that is fast-forwarded is where ticking would have left   *)
(* it, for any facilities, recipes, deposits, rooms and speeds.            *)
(***************************************************************************)
EXTENDS Production, Induction

Amounts == [Material -> Nat]

CraftType ==
  [state : {"Idle", "AwaitingInputs", "Crafting", "Unpowered", "OutputBlocked"},
   recipe : Recipe \cup {NoRecipe}, progress : Nat, total : Nat, locks : Amounts]

DrillType ==
  [state : {"Idle", "Mining", "Unpowered", "OutputBlocked"},
   deposit : DepositId \cup {NoDeposit}, progress : Nat, pending : Nat]

FacilityType ==
  [recipe : Recipe \cup {NoRecipe}, target : DepositId \cup {NoDeposit},
   craft : CraftType, drill : DrillType, in : Amounts, locked : Amounts, out : Amounts]

Active(c) == c.state \in {"Crafting", "Unpowered", "OutputBlocked"}

(* A craft under way holds its inputs, and the goods are there.            *)
Provided(x) ==
  /\ x \in FacilityType
  /\ \A r \in Material : x.locked[r] <= x.in[r]
  /\ Active(x.craft) => /\ x.craft.recipe \in Recipe /\ x.craft.progress <= x.craft.total
                        /\ x.locked = Inputs[x.craft.recipe]
                        /\ x.craft.locks = Inputs[x.craft.recipe]
  /\ ~Active(x.craft) => x.locked = Empty /\ x.craft.recipe = NoRecipe

(* A drill that has begun has a deposit, and a batch waits only for room.  *)
Digs(x) ==
  /\ x.craft = NoCraft
  /\ x.drill.state \in {"Mining", "Unpowered"} => x.drill.pending = 0
  /\ x.drill.state # "Idle" => x.drill.deposit \in DepositId

Sound(f, x) == Provided(x) /\ (f \in Drill => Digs(x))

Deposits == [DepositId -> Nat]

FacilityInv ==
  /\ DOMAIN facility = Facilities /\ facility = [f \in Facilities |-> facility[f]]
  /\ \A f \in Facilities : Sound(f, facility[f])

ProductionInv ==
  /\ FacilityInv
  /\ remaining \in Deposits
  /\ supply \in [Facilities -> {"Powered", "Unpowered", "Shut"}]
  /\ speed \in Nat \ {0}

(* What a step may do to a facility: the output hopper only fills, and a   *)
(* craft goes on unless something has come out.                            *)
Onward(x, y) ==
  /\ \A r \in Material : y.out[r] >= x.out[r]
  /\ y.out = x.out /\ x.craft.recipe # NoRecipe =>
       /\ y.craft.recipe = x.craft.recipe /\ y.craft.total = x.craft.total
       /\ y.craft.progress >= x.craft.progress

-----------------------------------------------------------------------------
(* Amounts and times.                                                      *)

LEMMA EmptyAmounts == Empty \in Amounts /\ \A r \in Material : Empty[r] = 0
  BY DEF Empty, Amounts

LEMMA InputAmounts ==
  ASSUME NEW rc \in Recipe
  PROVE  Inputs[rc] \in Amounts /\ Plus(Empty, Inputs[rc]) = Inputs[rc]
         /\ Minus(Inputs[rc], Inputs[rc]) = Empty
  <1>1. Inputs[rc] \in [Material -> Nat]
    BY CatalogueAssumption
  <1>2. \A r \in Material : Inputs[rc][r] \in Nat /\ Empty[r] + Inputs[rc][r] = Inputs[rc][r]
                            /\ Inputs[rc][r] - Inputs[rc][r] = 0
    BY <1>1, EmptyAmounts
  <1>3. Plus(Empty, Inputs[rc]) = [r \in Material |-> Inputs[rc][r]]
    BY <1>2 DEF Plus
  <1>4. Minus(Inputs[rc], Inputs[rc]) = Empty
    BY <1>2 DEF Minus, Empty
  <1> QED
    BY <1>1, <1>3, <1>4 DEF Amounts

LEMMA Differences ==
  ASSUME NEW a \in Amounts, NEW b \in Amounts, \A r \in Material : b[r] <= a[r]
  PROVE  Minus(a, b) \in Amounts /\ \A r \in Material : Minus(a, b)[r] = a[r] - b[r]
  <1>1. \A r \in Material : a[r] \in Nat /\ b[r] \in Nat /\ a[r] - b[r] \in Nat
    BY DEF Amounts
  <1> QED
    BY <1>1 DEF Minus, Amounts

(* More of a resource in a hopper.                                         *)
LEMMA Filled ==
  ASSUME NEW a \in Amounts, NEW r \in Material, NEW n \in Nat
  PROVE  LET b == [a EXCEPT ![r] = @ + n]
         IN b \in Amounts /\ (\A q \in Material : b[q] >= a[q]) /\ (n > 0 => b # a)
  <1> DEFINE b == [a EXCEPT ![r] = @ + n]
  <1>1. a[r] + n \in Nat /\ \A q \in Material : a[q] \in Nat
    BY DEF Amounts
  <1>2. b \in [Material -> Nat] /\ b[r] = a[r] + n /\ \A q \in Material : q # r => b[q] = a[q]
    BY <1>1 DEF Amounts
  <1> HIDE DEF b
  <1>3. \A q \in Material : b[q] >= a[q]
    BY <1>1, <1>2
  <1>4. n > 0 => b # a
    BY <1>1, <1>2
  <1>5. b \in Amounts /\ (\A q \in Material : b[q] >= a[q]) /\ (n > 0 => b # a)
    BY <1>2, <1>3, <1>4 DEF Amounts
  <1> QED
    BY <1>5 DEF b

LEMMA ShortenedIsPositive ==
  ASSUME NEW n \in Nat, speed \in Nat \ {0}
  PROVE  Shortened(n) \in Nat \ {0}
  <1>1. n \div speed \in Int
    OBVIOUS
  <1> QED
    BY <1>1 DEF Shortened

LEMMA OnwardAlways == \A x \in FacilityType : Onward(x, x)
  BY DEF Onward, FacilityType, CraftType, Amounts

LEMMA OnwardAgain ==
  ASSUME NEW x \in FacilityType, NEW y \in FacilityType, NEW z \in FacilityType,
         Onward(x, y), Onward(y, z)
  PROVE  Onward(x, z)
  <1>0. /\ x.out \in [Material -> Nat] /\ y.out \in [Material -> Nat] /\ z.out \in [Material -> Nat]
        /\ x.craft.progress \in Nat /\ y.craft.progress \in Nat /\ z.craft.progress \in Nat
    BY DEF FacilityType, CraftType, Amounts
  <1>1. \A r \in Material : z.out[r] >= y.out[r] /\ y.out[r] >= x.out[r]
    BY DEF Onward
  <1>2. \A r \in Material : z.out[r] >= x.out[r]
    BY <1>0, <1>1
  <1>3. z.out = x.out => y.out = x.out
    <2> SUFFICES ASSUME z.out = x.out PROVE y.out = x.out
      OBVIOUS
    <2>1. \A r \in Material : y.out[r] = x.out[r]
      BY <1>0, <1>1
    <2> QED
      BY <1>0, <2>1
  <1>4. ASSUME z.out = x.out, x.craft.recipe # NoRecipe
        PROVE  /\ z.craft.recipe = x.craft.recipe /\ z.craft.total = x.craft.total
               /\ z.craft.progress >= x.craft.progress
    BY <1>0, <1>3, <1>4 DEF Onward
  <1> QED
    BY <1>2, <1>4 DEF Onward

-----------------------------------------------------------------------------
(* Crafting.                                                               *)

(* A facility of which only the craft is other, and not its recipe.        *)
LEMMA Recrafted ==
  ASSUME NEW x, Provided(x), NEW c \in CraftType, NEW y, y = [x EXCEPT !.craft = c],
         Active(x.craft) => /\ Active(c) /\ c.recipe = x.craft.recipe /\ c.total = x.craft.total
                            /\ c.locks = x.craft.locks
                            /\ c.progress >= x.craft.progress /\ c.progress <= c.total,
         ~Active(x.craft) => ~Active(c) /\ c.recipe = NoRecipe
  PROVE  Provided(y) /\ Onward(x, y)
  <1>1. x \in FacilityType /\ x.craft \in CraftType /\ x.out \in Amounts
    BY DEF Provided, FacilityType
  <1>2. /\ y \in FacilityType /\ y.craft = c /\ y.in = x.in /\ y.locked = x.locked
        /\ y.out = x.out
    BY <1>1 DEF FacilityType
  <1>3. \A r \in Material : x.out[r] \in Nat
    BY <1>1 DEF Amounts
  <1>4. Provided(y)
    <2>1. CASE Active(x.craft)
      BY <1>2, <2>1 DEF Provided
    <2>2. CASE ~Active(x.craft)
      BY <1>2, <2>2 DEF Provided
    <2> QED
      BY <2>1, <2>2
  <1>5. x.craft.recipe # NoRecipe => Active(x.craft)
    BY DEF Provided
  <1>6. Onward(x, y)
    BY <1>2, <1>3, <1>5 DEF Onward
  <1> QED
    BY <1>4, <1>6

LEMMA CompletedIsProvided ==
  ASSUME NEW x, Provided(x), Active(x.craft)
  PROVE  Provided(Completed(x)) /\ Onward(x, Completed(x))
         /\ \E r \in Material : Completed(x).out[r] > x.out[r]
  <1> DEFINE rc == x.craft.recipe
             p == Product[rc]
             out == [x.out EXCEPT ![p] = @ + Batch[rc]]
             y == Completed(x)
  <1>1. /\ x \in FacilityType /\ x.out \in Amounts /\ x.in \in Amounts /\ x.locked \in Amounts
        /\ x.craft \in CraftType
    BY DEF Provided, FacilityType
  <1>2. rc \in Recipe /\ x.craft.locks = Inputs[rc] /\ x.locked = Inputs[rc]
        /\ \A r \in Material : Inputs[rc][r] <= x.in[r]
    BY DEF Provided
  <1>3. p \in Material /\ Batch[rc] \in Nat /\ Batch[rc] > 0
    BY <1>2, CatalogueAssumption
  <1>4. Inputs[rc] \in Amounts /\ Minus(Inputs[rc], Inputs[rc]) = Empty
    BY <1>2, InputAmounts
  <1>5. Minus(x.in, Inputs[rc]) \in Amounts
    BY <1>1, <1>2, <1>4, Differences
  <1>6. out \in Amounts /\ (\A q \in Material : out[q] >= x.out[q]) /\ out[p] = x.out[p] + Batch[rc]
    <2>1. out \in Amounts /\ \A q \in Material : out[q] >= x.out[q]
      BY <1>1, <1>3, Filled
    <2>2. out[p] = x.out[p] + Batch[rc]
      BY <1>1, <1>3 DEF Amounts
    <2> QED
      BY <2>1, <2>2
  <1>7. y = [x EXCEPT !.in = Minus(x.in, Inputs[rc]), !.locked = Empty, !.out = out, !.craft = NoCraft]
    BY <1>1, <1>2, <1>4 DEF Completed, FacilityType
  <1>8. NoCraft \in CraftType /\ ~Active(NoCraft) /\ NoCraft.recipe = NoRecipe
    BY EmptyAmounts DEF NoCraft, CraftType, Active
  <1> HIDE DEF out, y, rc, p
  <1>9. /\ y \in FacilityType /\ y.in = Minus(x.in, Inputs[rc]) /\ y.locked = Empty /\ y.out = out
        /\ y.craft = NoCraft
    BY <1>1, <1>5, <1>6, <1>7, <1>8, EmptyAmounts, Zenon DEF FacilityType
  <1>10. \A r \in Material : y.locked[r] <= y.in[r]
    BY <1>5, <1>9, EmptyAmounts DEF Amounts
  <1>11. Provided(y)
    BY <1>8, <1>9, <1>10 DEF Provided
  <1>12. y.out[p] > x.out[p]
    BY <1>1, <1>3, <1>6, <1>9 DEF Amounts
  <1>13. y.out # x.out
    BY <1>1, <1>3, <1>12 DEF Amounts
  <1>14. Onward(x, y)
    BY <1>6, <1>9, <1>13 DEF Onward
  <1> QED
    BY <1>3, <1>11, <1>12, <1>14 DEF y

LEMMA WorkedIsProvided ==
  ASSUME NEW f, NEW x, Provided(x), x.craft.state \in {"Crafting", "Unpowered"}
  PROVE  Provided(Worked(f, x)) /\ Onward(x, Worked(f, x))
  <1> DEFINE n == x.craft.progress + 1
             onward == [x.craft EXCEPT !.state = "Crafting", !.progress = n]
             blocked == [x.craft EXCEPT !.state = "OutputBlocked", !.progress = x.craft.total]
  <1>1. x \in FacilityType /\ x.craft \in CraftType /\ Active(x.craft)
    BY DEF Provided, FacilityType, Active
  <1>2. n \in Nat /\ n > x.craft.progress /\ x.craft.total \in Nat /\ x.craft.progress \in Nat
        /\ x.craft.progress <= x.craft.total
    BY <1>1 DEF CraftType, Provided
  <1>3. CASE n < x.craft.total
    <2>1. Worked(f, x) = [x EXCEPT !.craft = onward]
      BY <1>1, <1>3, Zenon DEF Worked, FacilityType
    <2>2. /\ onward \in CraftType /\ onward.recipe = x.craft.recipe /\ onward.total = x.craft.total
          /\ onward.locks = x.craft.locks /\ onward.progress = n /\ onward.state = "Crafting"
      BY <1>1, <1>2, Zenon DEF CraftType
    <2> HIDE DEF onward, n
    <2>3. Active(onward) /\ onward.progress >= x.craft.progress /\ onward.progress <= onward.total
      BY <1>2, <1>3, <2>2 DEF Active
    <2> QED
      BY <1>1, <2>1, <2>2, <2>3, Recrafted
  <1>4. CASE ~(n < x.craft.total) /\ BatchFits(f, x)
    <2>1. Worked(f, x) = Completed(x)
      BY <1>4 DEF Worked
    <2> QED
      BY <1>1, <2>1, CompletedIsProvided
  <1>5. CASE ~(n < x.craft.total) /\ ~BatchFits(f, x)
    <2>1. Worked(f, x) = [x EXCEPT !.craft = blocked]
      BY <1>1, <1>5, Zenon DEF Worked, FacilityType
    <2>2. /\ blocked \in CraftType /\ blocked.recipe = x.craft.recipe /\ blocked.total = x.craft.total
          /\ blocked.locks = x.craft.locks /\ blocked.progress = x.craft.total
          /\ blocked.state = "OutputBlocked"
      BY <1>1, <1>2, Zenon DEF CraftType
    <2> HIDE DEF blocked, n
    <2>3. Active(blocked) /\ blocked.progress >= x.craft.progress /\ blocked.progress <= blocked.total
      BY <1>2, <2>2 DEF Active
    <2> QED
      BY <1>1, <2>1, <2>2, <2>3, Recrafted
  <1> QED
    BY <1>3, <1>4, <1>5

LEMMA StartedIsProvided ==
  ASSUME NEW x, Provided(x), ~Active(x.craft), x.recipe # NoRecipe, InputsAvailable(x),
         speed \in Nat \ {0}
  PROVE  Provided(Started(x)) /\ Onward(x, Started(x)) /\ Started(x).craft.state = "Crafting"
  <1> DEFINE rc == x.recipe
             total == Shortened(Duration[rc])
             c == [state |-> "Crafting", recipe |-> rc, progress |-> 0, total |-> total,
                   locks |-> Inputs[rc]]
             y == Started(x)
  <1>1. /\ x \in FacilityType /\ x.craft \in CraftType /\ rc \in Recipe /\ x.in \in Amounts
        /\ x.out \in Amounts /\ x.locked = Empty /\ x.craft.recipe = NoRecipe
    BY DEF Provided, FacilityType
  <1>2. total \in Nat
    BY <1>1, CatalogueAssumption, ShortenedIsPositive
  <1>3. Inputs[rc] \in Amounts /\ Plus(Empty, Inputs[rc]) = Inputs[rc]
    BY <1>1, InputAmounts
  <1>4. y = [x EXCEPT !.locked = Inputs[rc], !.craft = c]
    BY <1>1, <1>3 DEF Started, FacilityType
  <1>5. \A r \in Material : Inputs[rc][r] <= x.in[r]
    <2> SUFFICES ASSUME NEW r \in Material PROVE Inputs[rc][r] <= x.in[r]
      OBVIOUS
    <2>1. Inputs[rc][r] <= x.in[r] - x.locked[r] /\ x.locked[r] = 0
      BY <1>1, EmptyAmounts DEF InputsAvailable
    <2> QED
      BY <1>1, <2>1 DEF Amounts
  <1> HIDE DEF total, y
  <1>6. c \in CraftType /\ Active(c) /\ c.state = "Crafting"
    BY <1>1, <1>2, <1>3 DEF CraftType, Active
  <1>7. y \in FacilityType /\ y.craft = c /\ y.locked = Inputs[rc] /\ y.in = x.in /\ y.out = x.out
    BY <1>1, <1>3, <1>4, <1>6, Zenon DEF FacilityType
  <1>8. Provided(y)
    BY <1>1, <1>2, <1>5, <1>6, <1>7 DEF Provided
  <1>9. Onward(x, y)
    BY <1>1, <1>7 DEF Onward, Amounts
  <1> QED
    BY <1>6, <1>7, <1>8, <1>9 DEF y

LEMMA TickProductionCases ==
  ASSUME NEW f, NEW x, NEW powered \in BOOLEAN
  PROVE  \/ x.craft.state = "Crafting" /\ TickProduction(f, x, powered) = [x EXCEPT !.craft.state = "Unpowered"]
         \/ x.craft.state \in {"Crafting", "Unpowered"} /\ TickProduction(f, x, powered) = Worked(f, x)
         \/ x.craft.state = "OutputBlocked" /\ TickProduction(f, x, powered) = Completed(x)
         \/ /\ x.craft.state \in {"Idle", "AwaitingInputs"} /\ x.recipe # NoRecipe
            /\ InputsAvailable(x) /\ TickProduction(f, x, powered) = Worked(f, Started(x))
         \/ /\ x.craft.state \in {"Idle", "AwaitingInputs"}
            /\ TickProduction(f, x, powered) = [x EXCEPT !.craft = Awaiting]
         \/ TickProduction(f, x, powered) = x
  <1> DEFINE s == x.craft.state
             y == TickProduction(f, x, powered)
  <1>1. CASE s = "Crafting"
    BY <1>1 DEF TickProduction
  <1>2. CASE s = "Unpowered"
    BY <1>2 DEF TickProduction
  <1>3. CASE s = "OutputBlocked"
    BY <1>3 DEF TickProduction
  <1>4. CASE s \in {"Idle", "AwaitingInputs"}
    BY <1>4 DEF TickProduction
  <1>5. CASE s \notin {"Crafting", "Unpowered", "OutputBlocked", "Idle", "AwaitingInputs"}
    BY <1>5 DEF TickProduction
  <1> QED
    BY <1>1, <1>2, <1>3, <1>4, <1>5

LEMMA TickProductionIsProvided ==
  ASSUME NEW f, NEW x, Provided(x), NEW powered \in BOOLEAN, speed \in Nat \ {0}
  PROVE  Provided(TickProduction(f, x, powered)) /\ Onward(x, TickProduction(f, x, powered))
  <1> DEFINE y == TickProduction(f, x, powered)
             cut == [x.craft EXCEPT !.state = "Unpowered"]
  <1>1. x \in FacilityType /\ x.craft \in CraftType
    BY DEF Provided, FacilityType
  <1>2. CASE x.craft.state = "Crafting" /\ y = [x EXCEPT !.craft.state = "Unpowered"]
    <2>1. y = [x EXCEPT !.craft = cut]
      BY <1>1, <1>2 DEF FacilityType
    <2>2. /\ cut \in CraftType /\ cut.state = "Unpowered" /\ cut.recipe = x.craft.recipe
          /\ cut.total = x.craft.total /\ cut.locks = x.craft.locks
          /\ cut.progress = x.craft.progress
      BY <1>1 DEF CraftType
    <2>3. Active(x.craft) /\ Active(cut)
      BY <1>2, <2>2 DEF Active
    <2>4. x.craft.progress <= x.craft.total /\ x.craft.progress \in Nat
      BY <1>1, <2>3 DEF Provided, CraftType
    <2> HIDE DEF cut, y
    <2>5. Provided(y) /\ Onward(x, y)
      BY <2>1, <2>2, <2>3, <2>4, Recrafted
    <2> QED
      BY <2>5 DEF y
  <1>3. CASE x.craft.state \in {"Crafting", "Unpowered"} /\ y = Worked(f, x)
    BY <1>3, WorkedIsProvided
  <1>4. CASE x.craft.state = "OutputBlocked" /\ y = Completed(x)
    BY <1>4, CompletedIsProvided DEF Active
  <1>5. CASE /\ x.craft.state \in {"Idle", "AwaitingInputs"} /\ x.recipe # NoRecipe
             /\ InputsAvailable(x) /\ y = Worked(f, Started(x))
    <2> DEFINE b == Started(x)
    <2>1. ~Active(x.craft)
      BY <1>5 DEF Active
    <2>2. Provided(b) /\ Onward(x, b) /\ b.craft.state = "Crafting"
      BY <1>5, <2>1, StartedIsProvided
    <2> HIDE DEF b
    <2>3. Provided(Worked(f, b)) /\ Onward(b, Worked(f, b))
      BY <2>2, WorkedIsProvided
    <2>4. y = Worked(f, b)
      BY <1>5 DEF b
    <2> HIDE DEF y
    <2>5. b \in FacilityType /\ y \in FacilityType
      BY <2>2, <2>3, <2>4 DEF Provided
    <2>6. Onward(x, y)
      BY <1>1, <2>2, <2>3, <2>4, <2>5, OnwardAgain
    <2> QED
      BY <2>3, <2>4, <2>6 DEF y
  <1>6. CASE x.craft.state \in {"Idle", "AwaitingInputs"} /\ y = [x EXCEPT !.craft = Awaiting]
    <2>1. ~Active(x.craft)
      BY <1>6 DEF Active
    <2>2. Awaiting \in CraftType /\ Awaiting.recipe = NoRecipe /\ ~Active(Awaiting)
      BY EmptyAmounts DEF Awaiting, NoCraft, CraftType, Active
    <2> HIDE DEF y
    <2> QED
      BY <1>6, <2>1, <2>2, Recrafted DEF y
  <1>7. CASE y = x
    BY <1>1, <1>7, OnwardAlways
  <1> HIDE DEF y
  <1> QED
    BY <1>2, <1>3, <1>4, <1>5, <1>6, <1>7, TickProductionCases DEF y

-----------------------------------------------------------------------------
(* Mining.                                                                 *)

DrillAt(x, d, out) == [x EXCEPT !.drill = d, !.out = out]

(* A drill of which the work and the output hopper are other.              *)
LEMMA Redrilled ==
  ASSUME NEW x, Provided(x), Digs(x), NEW d \in DrillType, NEW out \in Amounts,
         \A r \in Material : out[r] >= x.out[r],
         d.state \in {"Mining", "Unpowered"} => d.pending = 0,
         d.state # "Idle" => d.deposit \in DepositId
  PROVE  LET y == DrillAt(x, d, out) IN Provided(y) /\ Digs(y) /\ Onward(x, y)
  <1> DEFINE y == DrillAt(x, d, out)
  <1>1. x \in FacilityType
    BY DEF Provided
  <1>2. /\ y \in FacilityType /\ y.craft = x.craft /\ y.in = x.in /\ y.locked = x.locked
        /\ y.out = out /\ y.drill = d
    BY <1>1, Zenon DEF FacilityType, DrillAt
  <1> HIDE DEF y
  <1>3. Provided(y)
    BY <1>2 DEF Provided
  <1>4. Digs(y)
    BY <1>2 DEF Digs
  <1>5. x.craft.recipe = NoRecipe
    BY DEF Digs, NoCraft
  <1>6. Onward(x, y)
    BY <1>2, <1>5 DEF Onward
  <1> QED
    BY <1>3, <1>4, <1>6 DEF y

WorldType == [x : FacilityType, left : Deposits]

(* What may become of a drill with the deposits.                           *)
Drilled(w, v) ==
  /\ v \in WorldType /\ Provided(v.x) /\ Digs(v.x) /\ Onward(w.x, v.x)

Workable(w) == w \in WorldType /\ Provided(w.x) /\ Digs(w.x)

LEMMA DrilledAlways ==
  ASSUME NEW w, Workable(w), NEW d \in DrillType, NEW out \in Amounts, NEW left \in Deposits,
         \A r \in Material : out[r] >= w.x.out[r],
         d.state \in {"Mining", "Unpowered"} => d.pending = 0,
         d.state # "Idle" => d.deposit \in DepositId,
         NEW v, v = [x |-> DrillAt(w.x, d, out), left |-> left]
  PROVE  Drilled(w, v)
  <1> DEFINE y == DrillAt(w.x, d, out)
  <1>1. Provided(w.x) /\ Digs(w.x)
    BY DEF Workable
  <1>2. Provided(y) /\ Digs(y) /\ Onward(w.x, y)
    BY <1>1, Redrilled
  <1> HIDE DEF y
  <1>3. v = [x |-> y, left |-> left]
    BY DEF y
  <1> QED
    BY <1>2, <1>3 DEF Drilled, WorldType, Provided

(* Only the work of the drill is other.                                    *)
LEMMA DrilledInPlace ==
  ASSUME NEW w, Workable(w), NEW d \in DrillType,
         d.state \in {"Mining", "Unpowered"} => d.pending = 0,
         d.state # "Idle" => d.deposit \in DepositId,
         NEW v, v = [w EXCEPT !.x = [w.x EXCEPT !.drill = d]]
  PROVE  Drilled(w, v)
  <1>1. w \in WorldType /\ w.x \in FacilityType /\ w.x.out \in Amounts /\ w.left \in Deposits
    BY DEF Workable, WorldType, FacilityType
  <1>2. [w.x EXCEPT !.drill = d] = DrillAt(w.x, d, w.x.out)
    BY <1>1, Zenon DEF DrillAt, FacilityType
  <1>3. v = [x |-> DrillAt(w.x, d, w.x.out), left |-> w.left]
    BY <1>1, <1>2 DEF WorldType
  <1>4. \A r \in Material : w.x.out[r] >= w.x.out[r]
    BY <1>1 DEF Amounts
  <1>5. PICK out \in Amounts : out = w.x.out
    BY <1>1
  <1>6. PICK left \in Deposits : left = w.left
    BY <1>1
  <1>7. v = [x |-> DrillAt(w.x, d, out), left |-> left] /\ \A r \in Material : out[r] >= w.x.out[r]
    BY <1>3, <1>4, <1>5, <1>6, Zenon
  <1> QED
    BY <1>7, DrilledAlways, Zenon

LEMMA RestIsDrill == NotMining \in DrillType /\ NotMining.state = "Idle"
  BY DEF NotMining, DrillType

LEMMA MiningIsDrill ==
  ASSUME NEW d \in DepositId
  PROVE  /\ MiningOf(d) \in DrillType /\ MiningOf(d).state = "Mining"
         /\ MiningOf(d).deposit = d /\ MiningOf(d).pending = 0
  BY Zenon DEF MiningOf, NotMining, DrillType

LEMMA ExtractedIsDrilled ==
  ASSUME NEW w, Workable(w), w.x.drill.deposit \in DepositId, NEW n \in Nat, NEW then \in DrillType,
         then.state = "Mining", then.pending = 0, then.deposit \in DepositId
  PROVE  Drilled(w, Extracted(w, n, then))
  <1> DEFINE d == w.x.drill.deposit
             got == Smaller(n, w.left[d])
             out == [w.x.out EXCEPT ![Ore[d]] = @ + got]
             m == IF got = w.left[d] THEN NotMining ELSE then
             left == [w.left EXCEPT ![d] = @ - got]
             v == Extracted(w, n, then)
  <1>1. w \in WorldType /\ w.x \in FacilityType /\ w.x.out \in Amounts /\ w.left \in Deposits
        /\ d \in DepositId
    BY DEF Workable, WorldType, FacilityType
  <1>2. w.left[d] \in Nat /\ Ore[d] \in Material
    BY <1>1, CatalogueAssumption DEF Deposits
  <1>3. got \in Nat /\ got <= w.left[d]
    BY <1>2 DEF Smaller
  <1>4. v = [x |-> DrillAt(w.x, m, out), left |-> left]
    BY <1>1, Zenon DEF Extracted, DrillAt, FacilityType
  <1> HIDE DEF got, v, d
  <1>5. out \in Amounts /\ \A r \in Material : out[r] >= w.x.out[r]
    BY <1>1, <1>2, <1>3, Filled
  <1>6. left \in Deposits
    BY <1>1, <1>2, <1>3 DEF Deposits
  <1>7. /\ m \in DrillType /\ (m.state \in {"Mining", "Unpowered"} => m.pending = 0)
        /\ (m.state # "Idle" => m.deposit \in DepositId)
    BY RestIsDrill
  <1> HIDE DEF m, out, left
  <1>8. Drilled(w, v)
    BY <1>4, <1>5, <1>6, <1>7, DrilledAlways
  <1> QED
    BY <1>8 DEF v

LEMMA DrilledAgain ==
  ASSUME NEW w, Workable(w), NEW v, Drilled(w, v), NEW u, Drilled(v, u)
  PROVE  Drilled(w, u)
  <1>1. w.x \in FacilityType /\ v.x \in FacilityType /\ u.x \in FacilityType
    BY DEF Workable, Drilled, WorldType
  <1>2. Onward(w.x, u.x)
    BY <1>1, OnwardAgain DEF Drilled
  <1> QED
    BY <1>2 DEF Drilled

LEMMA DrilledIsWorkable ==
  ASSUME NEW w, NEW v, Drilled(w, v)
  PROVE  Workable(v)
  BY DEF Drilled, Workable

LEMMA MinedIsDrilled ==
  ASSUME NEW f, NEW w, Workable(w), w.x.drill.state = "Mining", speed \in Nat \ {0}
  PROVE  Drilled(w, Mined(f, w))
  <1> DEFINE m == w.x.drill
             d == m.deposit
             n == m.progress + 1
             on == [m EXCEPT !.progress = n]
             full == [NotMining EXCEPT !.state = "OutputBlocked", !.deposit = d, !.pending = Yield[d]]
  <1>1. w \in WorldType /\ w.x \in FacilityType /\ m \in DrillType
    BY DEF Workable, WorldType, FacilityType
  <1>2. d \in DepositId /\ m.pending = 0
    BY DEF Workable, Digs
  <1>3. n \in Nat /\ Yield[d] \in Nat
    BY <1>1, <1>2, CatalogueAssumption DEF DrillType
  <1>4. CASE n < Shortened(Interval)
    <2>1. Mined(f, w) = [w EXCEPT !.x = [w.x EXCEPT !.drill = on]]
      BY <1>1, <1>4 DEF Mined, WorldType, FacilityType, DrillType
    <2>2. on \in DrillType /\ on.state = "Mining" /\ on.pending = 0 /\ on.deposit = d
      BY <1>1, <1>2, <1>3 DEF DrillType
    <2> HIDE DEF on
    <2> QED
      BY <1>2, <2>1, <2>2, DrilledInPlace
  <1>5. CASE ~(n < Shortened(Interval)) /\ w.left[d] = 0
    <2>1. Mined(f, w) = [w EXCEPT !.x = [w.x EXCEPT !.drill = NotMining]]
      BY <1>1, <1>5 DEF Mined, WorldType, FacilityType
    <2> QED
      BY <2>1, RestIsDrill, DrilledInPlace
  <1>6. CASE ~(n < Shortened(Interval)) /\ w.left[d] # 0 /\ OutputFits(f, w.x, Yield[d])
    <2>1. Mined(f, w) = Extracted(w, Yield[d], MiningOf(d))
      BY <1>6 DEF Mined
    <2> HIDE DEF d, m
    <2>2. Drilled(w, Extracted(w, Yield[d], MiningOf(d)))
      BY <1>2, <1>3, MiningIsDrill, ExtractedIsDrilled DEF d, m
    <2> QED
      BY <2>1, <2>2
  <1>7. CASE ~(n < Shortened(Interval)) /\ w.left[d] # 0 /\ ~OutputFits(f, w.x, Yield[d])
    <2>1. Mined(f, w) = [w EXCEPT !.x = [w.x EXCEPT !.drill = full]]
      BY <1>1, <1>7 DEF Mined, WorldType, FacilityType
    <2>2. full \in DrillType /\ full.state = "OutputBlocked" /\ full.deposit = d
      BY <1>2, <1>3, RestIsDrill, Zenon DEF NotMining, DrillType
    <2> HIDE DEF full
    <2> QED
      BY <1>2, <2>1, <2>2, DrilledInPlace
  <1> QED
    BY <1>4, <1>5, <1>6, <1>7

LEMMA UnblockedIsDrilled ==
  ASSUME NEW w, Workable(w), w.x.drill.state = "OutputBlocked"
  PROVE  Drilled(w, Unblocked(w))
  <1> DEFINE m == w.x.drill
             d == m.deposit
             out == [w.x.out EXCEPT ![Ore[d]] = @ + m.pending]
  <1>1. w \in WorldType /\ w.x \in FacilityType /\ m \in DrillType /\ w.x.out \in Amounts
        /\ w.left \in Deposits
    BY DEF Workable, WorldType, FacilityType
  <1>2. d \in DepositId /\ Ore[d] \in Material /\ m.pending \in Nat
    BY <1>1, CatalogueAssumption DEF Workable, Digs, DrillType
  <1>3. out \in Amounts /\ \A r \in Material : out[r] >= w.x.out[r]
    BY <1>1, <1>2, Filled
  <1>4. Unblocked(w) = [x |-> DrillAt(w.x, MiningOf(d), out), left |-> w.left]
    <2> DEFINE a == [w.x EXCEPT !.out = out]
    <2>1. [w EXCEPT !.x.out[Ore[d]] = @ + m.pending] = [w EXCEPT !.x = a]
      BY <1>1 DEF WorldType, FacilityType
    <2>2. Unblocked(w) = [[w EXCEPT !.x = a] EXCEPT !.x.drill = MiningOf(d)]
      <3> HIDE DEF out, a
      <3> QED
        BY <2>1, Zenon DEF Unblocked
    <2>3. a = DrillAt(w.x, m, out) /\ a \in FacilityType
      BY <1>1, <1>3, Zenon DEF DrillAt, FacilityType
    <2> HIDE DEF a
    <2>4. [[w EXCEPT !.x = a] EXCEPT !.x.drill = MiningOf(d)]
            = [x |-> [a EXCEPT !.drill = MiningOf(d)], left |-> w.left]
      <3>1. [w EXCEPT !.x = a] = [x |-> a, left |-> w.left]
        BY <1>1 DEF WorldType
      <3>2. [[x |-> a, left |-> w.left] EXCEPT !.x.drill = MiningOf(d)]
              = [x |-> [a EXCEPT !.drill = MiningOf(d)], left |-> w.left]
        OBVIOUS
      <3> QED
        BY <3>1, <3>2, Zenon
    <2>5. [a EXCEPT !.drill = MiningOf(d)] = DrillAt(w.x, MiningOf(d), out)
      BY <1>1, <1>3, Zenon DEF a, DrillAt, FacilityType
    <2> QED
      BY <2>2, <2>4, <2>5
  <1>5. /\ MiningOf(d) \in DrillType /\ MiningOf(d).state = "Mining"
        /\ MiningOf(d).deposit \in DepositId /\ MiningOf(d).pending = 0
    BY <1>2, MiningIsDrill
  <1> HIDE DEF out, d, m
  <1> QED
    BY <1>1, <1>3, <1>4, <1>5, DrilledAlways

LEMMA TickMiningCases ==
  ASSUME NEW f, NEW w, NEW powered \in BOOLEAN
  PROVE  LET m == w.x.drill
             v == TickMining(f, w, powered)
         IN \/ m.state = "Mining" /\ v = [w EXCEPT !.x.drill.state = "Unpowered"]
            \/ m.state \in {"Mining", "Unpowered"} /\ v = Mined(f, [w EXCEPT !.x.drill.state = "Mining"])
            \/ m.state = "OutputBlocked" /\ v = Unblocked(w)
            \/ m.state = "Idle" /\ w.x.target # NoDeposit
               /\ v = Mined(f, [w EXCEPT !.x.drill = MiningOf(w.x.target)])
            \/ v = w
  <1> DEFINE s == w.x.drill.state
  <1>1. CASE s = "Mining"
    BY <1>1 DEF TickMining
  <1>2. CASE s = "Unpowered"
    BY <1>2 DEF TickMining
  <1>3. CASE s = "OutputBlocked"
    BY <1>3 DEF TickMining
  <1>4. CASE s = "Idle"
    BY <1>4 DEF TickMining
  <1>5. CASE s \notin {"Mining", "Unpowered", "OutputBlocked", "Idle"}
    BY <1>5 DEF TickMining
  <1> QED
    BY <1>1, <1>2, <1>3, <1>4, <1>5

(* The drill is given other work and mines in the same tick.               *)
LEMMA MinedThen ==
  ASSUME NEW f, NEW w, Workable(w), NEW d \in DrillType, speed \in Nat \ {0},
         d.state = "Mining", d.pending = 0, d.deposit \in DepositId
  PROVE  Drilled(w, Mined(f, [w EXCEPT !.x = [w.x EXCEPT !.drill = d]]))
  <1> DEFINE v == [w EXCEPT !.x = [w.x EXCEPT !.drill = d]]
  <1>1. Drilled(w, v)
    BY DrilledInPlace
  <1>2. v.x.drill.state = "Mining"
    <2>1. w \in WorldType /\ w.x \in FacilityType
      BY DEF Workable, WorldType
    <2> QED
      BY <2>1 DEF WorldType, FacilityType
  <1> HIDE DEF v
  <1>3. Workable(v)
    BY <1>1, DrilledIsWorkable
  <1>4. Drilled(v, Mined(f, v))
    BY <1>2, <1>3, MinedIsDrilled
  <1>5. Drilled(w, Mined(f, v))
    BY <1>1, <1>4, DrilledAgain
  <1> QED
    BY <1>5 DEF v

LEMMA TickMiningIsDrilled ==
  ASSUME NEW f, NEW w, Workable(w), NEW powered \in BOOLEAN, speed \in Nat \ {0}
  PROVE  Drilled(w, TickMining(f, w, powered))
  <1> DEFINE m == w.x.drill
             v == TickMining(f, w, powered)
             cut == [m EXCEPT !.state = "Unpowered"]
             on == [m EXCEPT !.state = "Mining"]
             t == w.x.target
  <1>1. w \in WorldType /\ w.x \in FacilityType /\ m \in DrillType
    BY DEF Workable, WorldType, FacilityType
  <1>2. /\ m.state \in {"Mining", "Unpowered"} => m.pending = 0 /\ m.deposit \in DepositId
        /\ t \in DepositId \cup {NoDeposit}
    BY <1>1 DEF Workable, Digs, FacilityType
  <1>3. CASE m.state = "Mining" /\ v = [w EXCEPT !.x.drill.state = "Unpowered"]
    <2>1. v = [w EXCEPT !.x = [w.x EXCEPT !.drill = cut]]
      BY <1>1, <1>3 DEF WorldType, FacilityType, DrillType
    <2>2. cut \in DrillType /\ cut.pending = 0 /\ cut.deposit \in DepositId
      BY <1>1, <1>2, <1>3 DEF DrillType
    <2> HIDE DEF cut, v
    <2>3. Drilled(w, v)
      BY <2>1, <2>2, DrilledInPlace
    <2> QED
      BY <2>3 DEF v
  <1>4. CASE m.state \in {"Mining", "Unpowered"} /\ v = Mined(f, [w EXCEPT !.x.drill.state = "Mining"])
    <2>1. v = Mined(f, [w EXCEPT !.x = [w.x EXCEPT !.drill = on]])
      BY <1>1, <1>4 DEF WorldType, FacilityType, DrillType
    <2>2. on \in DrillType /\ on.pending = 0 /\ on.deposit \in DepositId /\ on.state = "Mining"
      BY <1>1, <1>2, <1>4 DEF DrillType
    <2> HIDE DEF on, v
    <2>3. Drilled(w, v)
      BY <2>1, <2>2, MinedThen
    <2> QED
      BY <2>3 DEF v
  <1>5. CASE m.state = "OutputBlocked" /\ v = Unblocked(w)
    BY <1>5, UnblockedIsDrilled
  <1>6. CASE m.state = "Idle" /\ t # NoDeposit /\ v = Mined(f, [w EXCEPT !.x.drill = MiningOf(t)])
    <2>1. v = Mined(f, [w EXCEPT !.x = [w.x EXCEPT !.drill = MiningOf(t)]])
      BY <1>1, <1>6 DEF WorldType, FacilityType
    <2>2. t \in DepositId
      BY <1>2, <1>6
    <2> HIDE DEF v
    <2>3. Drilled(w, v)
      BY <2>1, <2>2, MiningIsDrill, MinedThen
    <2> QED
      BY <2>3 DEF v
  <1>7. CASE v = w
    <2>1. Drilled(w, w)
      BY <1>1, OnwardAlways DEF Workable, Drilled
    <2> QED
      BY <1>7, <2>1
  <1> HIDE DEF v
  <1>8. Drilled(w, v)
    BY <1>3, <1>4, <1>5, <1>6, <1>7, TickMiningCases, Zenon DEF v
  <1> QED
    BY <1>8 DEF v

-----------------------------------------------------------------------------
(* A facility, ticked and fast-forwarded.                                  *)

Workplace(f, w) == w \in WorldType /\ Sound(f, w.x)

Continued(f, w, v) == Workplace(f, v) /\ Onward(w.x, v.x)

LEMMA ContinuedAlways ==
  ASSUME NEW f, NEW w, Workplace(f, w)
  PROVE  Continued(f, w, w)
  BY OnwardAlways DEF Continued, Workplace, WorldType

LEMMA ContinuedAgain ==
  ASSUME NEW f, NEW w, Workplace(f, w), NEW v, Continued(f, w, v), NEW u, Continued(f, v, u)
  PROVE  Continued(f, w, u)
  <1>1. w.x \in FacilityType /\ v.x \in FacilityType /\ u.x \in FacilityType
    BY DEF Workplace, Continued, WorldType
  <1>2. Onward(w.x, u.x)
    BY <1>1, OnwardAgain DEF Continued
  <1> QED
    BY <1>2 DEF Continued

LEMMA DrilledIsContinued ==
  ASSUME NEW f \in Drill, NEW w, Workplace(f, w), NEW v, Drilled(w, v)
  PROVE  Continued(f, w, v)
  BY DEF Drilled, Continued, Workplace, Sound

LEMMA DrillIsWorkable ==
  ASSUME NEW f \in Drill, NEW w, Workplace(f, w)
  PROVE  Workable(w)
  BY DEF Workplace, Workable, Sound

LEMMA TickFacilityContinues ==
  ASSUME NEW f \in Facilities, NEW w, Workplace(f, w), speed \in Nat \ {0}
  PROVE  Continued(f, w, TickFacility(f, w))
  <1> DEFINE v == TickFacility(f, w)
             powered == supply[f] = "Powered"
  <1>0. powered \in BOOLEAN
    OBVIOUS
  <1>1. CASE supply[f] = "Shut"
    <2>1. v = w
      BY <1>1 DEF TickFacility
    <2> HIDE DEF v
    <2>2. Continued(f, w, v)
      BY <2>1, ContinuedAlways
    <2> QED
      BY <2>2 DEF v
  <1>2. CASE supply[f] # "Shut" /\ f \in Drill
    <2>1. v = TickMining(f, w, powered)
      BY <1>2 DEF TickFacility
    <2>2. Drilled(w, TickMining(f, w, powered))
      <3>1. Workable(w)
        BY <1>2, DrillIsWorkable
      <3> HIDE DEF powered
      <3> QED
        BY <1>0, <3>1, TickMiningIsDrilled
    <2> HIDE DEF v, powered
    <2>3. Continued(f, w, v)
      BY <1>2, <2>1, <2>2, DrilledIsContinued
    <2> QED
      BY <2>3 DEF v
  <1>3. CASE supply[f] # "Shut" /\ f \notin Drill
    <2> DEFINE y == TickProduction(f, w.x, powered)
    <2>1. v = [w EXCEPT !.x = y]
      BY <1>3 DEF TickFacility
    <2>2. w \in WorldType /\ Provided(w.x)
      BY DEF Workplace, Sound
    <2>3. Provided(y) /\ Onward(w.x, y)
      <3> HIDE DEF powered
      <3> QED
        BY <1>0, <2>2, TickProductionIsProvided
    <2> HIDE DEF v, powered, y
    <2>4. v \in WorldType /\ v.x = y
      BY <2>1, <2>2, <2>3 DEF WorldType, Provided
    <2>5. Continued(f, w, v)
      BY <1>3, <2>3, <2>4 DEF Continued, Workplace, Sound
    <2> QED
      BY <2>5 DEF v
  <1> QED
    BY <1>1, <1>2, <1>3

(* The walk of Ticked.                                                     *)
TicksOf(g, f, w, n) == g = [i \in 0 .. n |-> IF i = 0 THEN w ELSE TickFacility(f, g[i - 1])]

LEMMA TicksExist ==
  ASSUME NEW f, NEW w
  PROVE  \A n \in Nat : \E g : TicksOf(g, f, w, n)
  <1> DEFINE N == {n \in Nat : \E g : TicksOf(g, f, w, n)}
  <1>1. 0 \in N
    <2> DEFINE g == [i \in 0 .. 0 |-> w]
    <2>1. \A i \in 0 .. 0 : i = 0
      OBVIOUS
    <2>2. TicksOf(g, f, w, 0)
      BY <2>1 DEF TicksOf
    <2> HIDE DEF g
    <2> QED
      BY <2>2
  <1>2. ASSUME NEW n \in Nat, n \in N PROVE n + 1 \in N
    <2>1. PICK g : TicksOf(g, f, w, n)
      BY <1>2
    <2> DEFINE h == [i \in 0 .. n + 1 |-> IF i = n + 1 THEN TickFacility(f, g[n]) ELSE g[i]]
    <2>2. \A i \in 0 .. n : h[i] = g[i]
      OBVIOUS
    <2>3. \A i \in 0 .. n + 1 : h[i] = IF i = 0 THEN w ELSE TickFacility(f, h[i - 1])
      <3> SUFFICES ASSUME NEW i \in 0 .. n + 1
                   PROVE  h[i] = IF i = 0 THEN w ELSE TickFacility(f, h[i - 1])
        OBVIOUS
      <3>1. CASE i = n + 1
        <4>1. h[i] = TickFacility(f, g[n]) /\ h[n] = g[n] /\ i # 0 /\ i - 1 = n
          BY <2>2, <3>1
        <4> HIDE DEF h
        <4> QED
          BY <3>1, <4>1
      <3>2. CASE i # n + 1
        <4>1. i \in 0 .. n /\ h[i] = g[i] /\ (i # 0 => i - 1 \in 0 .. n)
          BY <2>2, <3>2
        <4>2. g[i] = IF i = 0 THEN w ELSE TickFacility(f, g[i - 1])
          BY <2>1, <4>1 DEF TicksOf
        <4>3. i # 0 => h[i - 1] = g[i - 1]
          BY <2>2, <4>1
        <4> HIDE DEF h
        <4> QED
          BY <4>1, <4>2, <4>3
      <3> QED
        BY <3>1, <3>2
    <2>4. h = [i \in 0 .. n + 1 |-> h[i]]
      OBVIOUS
    <2> HIDE DEF h
    <2>5. TicksOf(h, f, w, n + 1)
      BY <2>3, <2>4, Zenon DEF TicksOf
    <2> QED
      BY <2>5
  <1> HIDE DEF N
  <1>3. Nat \subseteq N
    BY <1>1, <1>2, NaturalInduction
  <1> QED
    BY <1>3 DEF N

(* Ticking by one more, as a function of the number of ticks.              *)
LEMMA TickedSteps ==
  ASSUME NEW f, NEW w, NEW n \in Nat
  PROVE  \E g : /\ Ticked(f, w, n) = g[n] /\ g[0] = w
                /\ \A i \in 0 .. n - 1 : g[i + 1] = TickFacility(f, g[i])
  <1> DEFINE after == CHOOSE g : TicksOf(g, f, w, n)
  <1>1. Ticked(f, w, n) = after[n]
    BY DEF Ticked, TicksOf
  <1>2. TicksOf(after, f, w, n)
    BY TicksExist
  <1> HIDE DEF after
  <1>3. after[0] = w
    BY <1>2 DEF TicksOf
  <1>4. ASSUME NEW i \in 0 .. n - 1 PROVE after[i + 1] = TickFacility(f, after[i])
    <2>1. i + 1 \in 0 .. n /\ i + 1 # 0 /\ (i + 1) - 1 = i
      OBVIOUS
    <2> QED
      BY <1>2, <2>1 DEF TicksOf
  <1> QED
    BY <1>1, <1>3, <1>4

LEMMA TickedContinues ==
  ASSUME NEW f \in Facilities, NEW w, Workplace(f, w), NEW n \in Nat, speed \in Nat \ {0}
  PROVE  Continued(f, w, Ticked(f, w, n))
  <1>1. PICK g : /\ Ticked(f, w, n) = g[n] /\ g[0] = w
                 /\ \A i \in 0 .. n - 1 : g[i + 1] = TickFacility(f, g[i])
    BY TickedSteps
  <1> DEFINE N == {i \in Nat : i <= n => Continued(f, w, g[i])}
  <1>2. 0 \in N
    BY <1>1, ContinuedAlways
  <1>3. ASSUME NEW i \in Nat, i \in N PROVE i + 1 \in N
    <2> SUFFICES ASSUME i + 1 <= n PROVE Continued(f, w, g[i + 1])
      OBVIOUS
    <2>1. Continued(f, w, g[i]) /\ i \in 0 .. n - 1
      BY <1>3
    <2>2. g[i + 1] = TickFacility(f, g[i])
      BY <1>1, <2>1
    <2>3. Workplace(f, g[i])
      BY <2>1 DEF Continued
    <2>4. Continued(f, g[i], g[i + 1])
      BY <2>2, <2>3, TickFacilityContinues
    <2> QED
      BY <2>1, <2>4, ContinuedAgain
  <1> HIDE DEF N
  <1>4. n \in N
    BY <1>2, <1>3, NaturalInduction
  <1> QED
    BY <1>1, <1>4 DEF N

LEMMA LeapContinues ==
  ASSUME NEW f \in Facilities, NEW w, Workplace(f, w), NEW n \in Nat, speed \in Nat \ {0},
         MayLeap(f, w, n)
  PROVE  Continued(f, w, Leap(f, w, n))
  <1> DEFINE m == w.x.drill
             T == Shortened(Interval)
             ticks == m.progress + n
             cycles == ticks \div T
             rest == ticks % T
             then == [m EXCEPT !.progress = rest]
  <1>1. f \in Drill /\ m.state = "Mining"
    BY DEF MayLeap
  <1>2. Workable(w)
    BY <1>1, DrillIsWorkable
  <1>3. m \in DrillType /\ m.deposit \in DepositId /\ m.pending = 0
    BY <1>1, <1>2 DEF Workable, WorldType, FacilityType, Digs
  <1>4. T \in Nat /\ T > 0 /\ ticks \in Nat /\ Yield[m.deposit] \in Nat
    BY <1>3, CatalogueAssumption, ShortenedIsPositive DEF DrillType
  <1>5. cycles \in Nat /\ rest \in Nat
    <2> HIDE DEF T, ticks
    <2> QED
      BY <1>4
  <1>6. then \in DrillType /\ then.state = "Mining" /\ then.pending = 0 /\ then.deposit \in DepositId
    <2> HIDE DEF rest
    <2> QED
      BY <1>1, <1>3, <1>5 DEF DrillType
  <1>7. Yield[m.deposit] * cycles \in Nat
    <2> HIDE DEF cycles
    <2> QED
      BY <1>4, <1>5
  <1>8. Leap(f, w, n) = Extracted(w, Yield[m.deposit] * cycles, then)
    BY DEF Leap
  <1> HIDE DEF then, cycles
  <1>9. Drilled(w, Leap(f, w, n))
    BY <1>2, <1>3, <1>6, <1>7, <1>8, ExtractedIsDrilled
  <1> QED
    BY <1>1, <1>9, DrilledIsContinued

LEMMA FastForwardContinues ==
  ASSUME NEW f \in Facilities, NEW w, Workplace(f, w), NEW n \in Nat, speed \in Nat \ {0}
  PROVE  Continued(f, w, FastForwarded(f, w, n))
  BY LeapContinues, TickedContinues DEF FastForwarded

-----------------------------------------------------------------------------
(* The tick of all of them.                                                *)

Whole(w) ==
  /\ w.left \in Deposits
  /\ w.facility = [f \in Facilities |-> w.facility[f]]
  /\ \A f \in Facilities : Sound(f, w.facility[f]) /\ Onward(facility[f], w.facility[f])

LEMMA TickedInIsWhole ==
  ASSUME NEW e \in Facilities, NEW w, Whole(w), NEW u \in TickedIn(e, w), FacilityInv,
         speed \in Nat \ {0}
  PROVE  Whole(u)
  <1> DEFINE b == [x |-> w.facility[e], left |-> w.left]
             v == TickFacility(e, b)
  <1>1. u = [facility |-> [w.facility EXCEPT ![e] = v.x], left |-> v.left]
    BY DEF TickedIn
  <1>2. Workplace(e, b)
    BY DEF Whole, Workplace, WorldType, Sound, Provided
  <1> HIDE DEF b
  <1>3. Continued(e, b, v)
    BY <1>2, TickFacilityContinues
  <1> HIDE DEF v
  <1>4. /\ u.left = v.left /\ v.left \in Deposits
        /\ u.facility = [f \in Facilities |-> IF f = e THEN v.x ELSE w.facility[f]]
    BY <1>1, <1>3 DEF Whole, Continued, Workplace, WorldType
  <1>5. Sound(e, v.x) /\ Onward(w.facility[e], v.x)
    BY <1>3 DEF Continued, Workplace, b
  <1>6. Onward(facility[e], v.x)
    <2>1. facility[e] \in FacilityType /\ w.facility[e] \in FacilityType /\ v.x \in FacilityType
      BY <1>5 DEF FacilityInv, Whole, Sound, Provided
    <2>2. Onward(facility[e], w.facility[e])
      BY DEF Whole
    <2> QED
      BY <1>5, <2>1, <2>2, OnwardAgain
  <1>7. \A f \in Facilities : u.facility[f] = IF f = e THEN v.x ELSE w.facility[f]
    BY <1>4
  <1>8. u.facility = [f \in Facilities |-> u.facility[f]]
    BY <1>4
  <1>9. \A f \in Facilities : Sound(f, u.facility[f]) /\ Onward(facility[f], u.facility[f])
    BY <1>5, <1>6, <1>7 DEF Whole
  <1> QED
    BY <1>4, <1>8, <1>9 DEF Whole

Turn(worlds, e) == UNION {TickedIn(e, w) : w \in worlds}

TurnsOf(g, n) ==
  g = [i \in 0 .. n |-> IF i = 0 THEN {[facility |-> facility, left |-> remaining]}
                        ELSE UNION {TickedIn(Facility[i], w) : w \in g[i - 1]}]

TurnsFrom(g, n) ==
  g = [i \in 0 .. n |-> IF i = 0 THEN {[facility |-> facility, left |-> remaining]}
                        ELSE Turn(g[i - 1], Facility[i])]

LEMMA TurnsAlike == \A g, n : TurnsOf(g, n) <=> TurnsFrom(g, n)
  BY DEF TurnsOf, TurnsFrom, Turn

LEMMA TurnsExist == \A n \in Nat : \E g : TurnsFrom(g, n)
  <1> DEFINE start == {[facility |-> facility, left |-> remaining]}
             N == {n \in Nat : \E g : TurnsFrom(g, n)}
  <1>1. 0 \in N
    <2> DEFINE g == [i \in 0 .. 0 |-> start]
    <2>1. \A i \in 0 .. 0 : i = 0
      OBVIOUS
    <2>2. TurnsFrom(g, 0)
      BY <2>1 DEF TurnsFrom
    <2> HIDE DEF g
    <2> QED
      BY <2>2
  <1>2. ASSUME NEW n \in Nat, n \in N PROVE n + 1 \in N
    <2>1. PICK g : TurnsFrom(g, n)
      BY <1>2
    <2> DEFINE h == [i \in 0 .. n + 1 |-> IF i = n + 1 THEN Turn(g[n], Facility[n + 1]) ELSE g[i]]
    <2>2. \A i \in 0 .. n : h[i] = g[i]
      OBVIOUS
    <2>3. \A i \in 0 .. n + 1 : h[i] = IF i = 0 THEN start ELSE Turn(h[i - 1], Facility[i])
      <3> SUFFICES ASSUME NEW i \in 0 .. n + 1
                   PROVE  h[i] = IF i = 0 THEN start ELSE Turn(h[i - 1], Facility[i])
        BY Zenon
      <3>1. CASE i = n + 1
        <4>1. h[i] = Turn(g[n], Facility[n + 1]) /\ h[n] = g[n] /\ i # 0 /\ i - 1 = n
          BY <2>2, <3>1
        <4> HIDE DEF h
        <4> QED
          BY <3>1, <4>1
      <3>2. CASE i # n + 1
        <4>1. i \in 0 .. n /\ h[i] = g[i] /\ (i # 0 => i - 1 \in 0 .. n)
          BY <2>2, <3>2
        <4>2. g[i] = IF i = 0 THEN start ELSE Turn(g[i - 1], Facility[i])
          BY <2>1, <4>1, Zenon DEF TurnsFrom
        <4>3. i # 0 => h[i - 1] = g[i - 1]
          BY <2>2, <4>1
        <4> HIDE DEF h, start
        <4> QED
          BY <4>1, <4>2, <4>3
      <3> QED
        BY <3>1, <3>2
    <2>4. h = [i \in 0 .. n + 1 |-> h[i]]
      OBVIOUS
    <2> HIDE DEF h
    <2>5. TurnsFrom(h, n + 1)
      BY <2>3, <2>4, Zenon DEF TurnsFrom
    <2> QED
      BY <2>5
  <1> HIDE DEF N
  <1>3. Nat \subseteq N
    BY <1>1, <1>2, NaturalInduction
  <1> QED
    BY <1>3 DEF N

(* After a tick every facility is sound, and has gone on.                  *)
LEMMA TickIsWhole ==
  ASSUME ProductionInv, Tick
  PROVE  FacilityInv' /\ remaining' \in Deposits
         /\ \A f \in Facilities : Onward(facility[f], facility'[f])
  <1> DEFINE n == Len(Facility)
             after == CHOOSE g : TurnsOf(g, n)
  <1>1. n \in Nat /\ \A i \in 1 .. n : Facility[i] \in Facilities
    BY FacilityAssumption
  <1>2. \E w \in after[n] : facility' = w.facility /\ remaining' = w.left
    BY Zenon DEF Tick, TurnsOf
  <1> HIDE DEF n
  <1>3. TurnsFrom(after, n)
    BY <1>1, TurnsAlike, TurnsExist
  <1> HIDE DEF after
  <1> DEFINE N == {i \in Nat : i <= n => \A w \in after[i] : Whole(w)}
  <1>4. 0 \in N
    <2> DEFINE w == [facility |-> facility, left |-> remaining]
    <2>1. after[0] = {w}
      BY <1>1, <1>3 DEF TurnsFrom
    <2>2. Whole(w)
      BY OnwardAlways DEF Whole, ProductionInv, FacilityInv, Sound, Provided
    <2> HIDE DEF w
    <2> QED
      BY <2>1, <2>2
  <1>5. ASSUME NEW i \in Nat, i \in N PROVE i + 1 \in N
    <2> SUFFICES ASSUME i + 1 <= n, NEW u \in after[i + 1] PROVE Whole(u)
      OBVIOUS
    <2>1. (\A w \in after[i] : Whole(w)) /\ i + 1 \in 0 .. n /\ i + 1 # 0 /\ (i + 1) - 1 = i
          /\ Facility[i + 1] \in Facilities
      BY <1>1, <1>5
    <2>2. after[i + 1] = Turn(after[i], Facility[i + 1])
      BY <1>3, <2>1, Zenon DEF TurnsFrom
    <2>3. PICK w \in after[i] : u \in TickedIn(Facility[i + 1], w)
      BY <2>2 DEF Turn
    <2> QED
      BY <2>1, <2>3, TickedInIsWhole DEF ProductionInv
  <1> HIDE DEF N
  <1>6. n \in N
    BY <1>1, <1>4, <1>5, NaturalInduction
  <1>7. PICK w : Whole(w) /\ facility' = w.facility /\ remaining' = w.left
    BY <1>2, <1>6 DEF N
  <1>8. remaining' \in Deposits /\ facility' = [f \in Facilities |-> facility'[f]]
        /\ \A f \in Facilities : Sound(f, facility'[f]) /\ Onward(facility[f], facility'[f])
    BY <1>7 DEF Whole
  <1> QED
    BY <1>8 DEF FacilityInv

-----------------------------------------------------------------------------
(* The other steps.                                                        *)

(* What an action promises: the facilities stay sound, and no craft loses  *)
(* what was done on it unless goods went in or out of the output hopper.   *)
CraftKept(x, y) ==
  x.craft.recipe # NoRecipe =>
    \/ /\ y.craft.recipe = x.craft.recipe /\ y.craft.total = x.craft.total
       /\ y.craft.progress >= x.craft.progress
    \/ y.out # x.out

Keeping ==
  /\ FacilityInv' /\ remaining' \in Deposits
  /\ \A f \in Facilities : CraftKept(facility[f], facility'[f])

LEMMA OnwardKeepsCraft ==
  ASSUME NEW x, NEW y, Onward(x, y)
  PROVE  CraftKept(x, y)
  BY DEF Onward, CraftKept

LEMMA SameKeepsCraft ==
  ASSUME NEW x \in FacilityType
  PROVE  CraftKept(x, x)
  BY OnwardAlways, OnwardKeepsCraft

(* One facility becomes another one.                                       *)
LEMMA OneChanges ==
  ASSUME ProductionInv, NEW e \in Facilities, NEW y, Sound(e, y), CraftKept(facility[e], y),
         facility' = [facility EXCEPT ![e] = y], remaining' \in Deposits
  PROVE  Keeping
  <1>1. DOMAIN facility = Facilities /\ \A f \in Facilities : Sound(f, facility[f])
    BY DEF ProductionInv, FacilityInv
  <1>2. facility' = [f \in Facilities |-> IF f = e THEN y ELSE facility[f]]
    BY <1>1, Zenon
  <1>3. \A f \in Facilities : facility'[f] = IF f = e THEN y ELSE facility[f]
    BY <1>2
  <1>4. facility' = [f \in Facilities |-> facility'[f]] /\ DOMAIN facility' = Facilities
    BY <1>2, Zenon
  <1>5. \A f \in Facilities : Sound(f, facility'[f])
    BY <1>1, <1>3
  <1>6. \A f \in Facilities : CraftKept(facility[f], facility'[f])
    BY <1>1, <1>3, SameKeepsCraft DEF Sound, Provided
  <1> QED
    BY <1>4, <1>5, <1>6 DEF Keeping, FacilityInv

LEMMA AdvanceTicksKeeps ==
  ASSUME ProductionInv, NEW f \in Facilities, NEW n \in Spans, AdvanceTicks(f, n)
  PROVE  Keeping
  <1> DEFINE b == [x |-> facility[f], left |-> remaining]
             w == FastForwarded(f, b, n)
  <1>1. Workplace(f, b)
    BY DEF ProductionInv, FacilityInv, Workplace, WorldType, Sound, Provided
  <1>2. n \in Nat /\ speed \in Nat \ {0}
    BY CatalogueAssumption DEF ProductionInv
  <1>3. facility' = [facility EXCEPT ![f] = w.x] /\ remaining' = w.left
    BY DEF AdvanceTicks
  <1>4. b.x = facility[f]
    OBVIOUS
  <1> HIDE DEF b
  <1>5. Continued(f, b, w)
    BY <1>1, <1>2, FastForwardContinues
  <1> HIDE DEF w
  <1>6. Sound(f, w.x) /\ w.left \in Deposits /\ Onward(facility[f], w.x)
    BY <1>4, <1>5 DEF Continued, Workplace, WorldType
  <1> QED
    BY <1>3, <1>6, OneChanges, OnwardKeepsCraft, Zenon

LEMMA SetRecipeKeeps ==
  ASSUME ProductionInv, NEW f \in Facilities, NEW rc \in Recipe, SetRecipe(f, rc)
  PROVE  Keeping
  <1> DEFINE x == facility[f]
             c == IF x.craft.state = "Idle" THEN Awaiting ELSE x.craft
             y == [[x EXCEPT !.recipe = rc] EXCEPT !.craft = c]
  <1>1. Sound(f, x) /\ Provided(x) /\ x \in FacilityType /\ x.craft \in CraftType
        /\ DOMAIN facility = Facilities /\ f \notin Drill
    BY DEF ProductionInv, FacilityInv, Sound, Provided, FacilityType, SetRecipe
  <1>2. facility' = [facility EXCEPT ![f] = y] /\ remaining' \in Deposits
    <2>1. facility' = [facility EXCEPT ![f].recipe = rc,
                         ![f].craft = IF @.state = "Idle" THEN Awaiting ELSE @]
      BY DEF SetRecipe
    <2>2. remaining' \in Deposits
      BY DEF SetRecipe, ProductionInv
    <2> QED
      BY <1>1, <2>1, <2>2, Zenon
  <1>3. Awaiting \in CraftType /\ Awaiting.recipe = NoRecipe /\ ~Active(Awaiting)
    BY EmptyAmounts DEF Awaiting, NoCraft, CraftType, Active
  <1>4. c \in CraftType /\ (Active(x.craft) => c = x.craft)
        /\ (~Active(x.craft) => ~Active(c) /\ c.recipe = NoRecipe)
    BY <1>1, <1>3 DEF Active, Provided
  <1> HIDE DEF c
  <1>5. /\ y \in FacilityType /\ y.craft = c /\ y.in = x.in /\ y.locked = x.locked
        /\ y.out = x.out
    BY <1>1, <1>4, Zenon DEF FacilityType
  <1> HIDE DEF x, y
  <1>6. Provided(y)
    <2>1. CASE Active(x.craft)
      BY <1>1, <1>4, <1>5, <2>1 DEF Provided
    <2>2. CASE ~Active(x.craft)
      BY <1>1, <1>4, <1>5, <2>2 DEF Provided
    <2> QED
      BY <2>1, <2>2
  <1>7. CraftKept(x, y)
    <2>1. x.craft.recipe # NoRecipe => c = x.craft
      BY <1>1, <1>4 DEF Provided
    <2>2. x.craft.progress \in Nat
      BY <1>1 DEF CraftType
    <2> QED
      BY <1>5, <2>1, <2>2 DEF CraftKept
  <1>8. Sound(f, y)
    BY <1>1, <1>6 DEF Sound
  <1> QED
    BY <1>2, <1>7, <1>8, OneChanges, Zenon DEF x

LEMMA SetDepositKeeps ==
  ASSUME ProductionInv, NEW f \in Facilities, NEW d \in DepositId, SetDeposit(f, d)
  PROVE  Keeping
  <1> DEFINE x == facility[f]
             m == IF x.drill.state = "Idle" THEN MiningOf(d) ELSE x.drill
             y == [[x EXCEPT !.target = d] EXCEPT !.drill = m]
  <1>1. Sound(f, x) /\ Provided(x) /\ Digs(x) /\ x \in FacilityType /\ x.drill \in DrillType
        /\ DOMAIN facility = Facilities
    BY DEF ProductionInv, FacilityInv, Sound, Provided, FacilityType, SetDeposit
  <1>2. facility' = [facility EXCEPT ![f] = y] /\ remaining' \in Deposits
    <2>1. facility' = [facility EXCEPT ![f].target = d,
                         ![f].drill = IF @.state = "Idle" THEN MiningOf(d) ELSE @]
      BY DEF SetDeposit
    <2>2. remaining' \in Deposits
      BY DEF SetDeposit, ProductionInv
    <2> QED
      BY <1>1, <2>1, <2>2, Zenon
  <1>3. m \in DrillType /\ (m.state \in {"Mining", "Unpowered"} => m.pending = 0)
        /\ (m.state # "Idle" => m.deposit \in DepositId)
    BY <1>1, MiningIsDrill DEF Digs
  <1> HIDE DEF m
  <1>4. /\ y \in FacilityType /\ y.craft = x.craft /\ y.in = x.in /\ y.locked = x.locked
        /\ y.drill = m
    BY <1>1, <1>3, Zenon DEF FacilityType
  <1> HIDE DEF x, y
  <1>5. Provided(y)
    BY <1>1, <1>4 DEF Provided
  <1>6. Digs(y)
    BY <1>1, <1>3, <1>4 DEF Digs
  <1>7. CraftKept(x, y)
    BY <1>1, <1>4 DEF CraftKept, Digs, NoCraft
  <1>8. Sound(f, y)
    BY <1>5, <1>6 DEF Sound
  <1> QED
    BY <1>2, <1>7, <1>8, OneChanges, Zenon DEF x

LEMMA TakenOut ==
  ASSUME NEW e, NEW x, Sound(e, x), NEW r \in Material, x.out[r] >= 1
  PROVE  LET y == [x EXCEPT !.out[r] = @ - 1] IN Sound(e, y) /\ CraftKept(x, y)
  <1> DEFINE out == [x.out EXCEPT ![r] = @ - 1]
             y == [x EXCEPT !.out[r] = @ - 1]
  <1>1. x \in FacilityType /\ x.out \in Amounts
    BY DEF Sound, Provided, FacilityType
  <1>2. x.out[r] \in Nat /\ x.out[r] - 1 \in Nat
    BY <1>1 DEF Amounts
  <1>3. out \in Amounts /\ out[r] = x.out[r] - 1
    BY <1>1, <1>2 DEF Amounts
  <1>4. out # x.out
    BY <1>2, <1>3
  <1>5. y = [x EXCEPT !.out = out]
    BY <1>1 DEF FacilityType
  <1> HIDE DEF out
  <1>6. /\ y \in FacilityType /\ y.craft = x.craft /\ y.in = x.in /\ y.locked = x.locked
        /\ y.drill = x.drill /\ y.out = out
    BY <1>1, <1>3, <1>5 DEF FacilityType
  <1> HIDE DEF y
  <1>7. Provided(y) /\ (Digs(x) => Digs(y))
    BY <1>6 DEF Sound, Provided, Digs
  <1>8. CraftKept(x, y)
    BY <1>4, <1>6 DEF CraftKept
  <1> QED
    BY <1>7, <1>8 DEF Sound, y

LEMMA PutIn ==
  ASSUME NEW e, NEW x, Sound(e, x), NEW r \in Material
  PROVE  LET y == [x EXCEPT !.in[r] = @ + 1]
         IN Sound(e, y) /\ y.craft = x.craft /\ y.out = x.out
  <1> DEFINE in == [x.in EXCEPT ![r] = @ + 1]
             y == [x EXCEPT !.in[r] = @ + 1]
  <1>1. x \in FacilityType /\ x.in \in Amounts /\ x.locked \in Amounts
    BY DEF Sound, Provided, FacilityType
  <1>2. in \in Amounts /\ \A q \in Material : in[q] >= x.in[q]
    BY <1>1, Filled
  <1>3. y = [x EXCEPT !.in = in]
    BY <1>1 DEF FacilityType
  <1> HIDE DEF in
  <1>4. /\ y \in FacilityType /\ y.craft = x.craft /\ y.in = in /\ y.locked = x.locked
        /\ y.drill = x.drill /\ y.out = x.out
    BY <1>1, <1>2, <1>3 DEF FacilityType
  <1> HIDE DEF y
  <1>5. \A q \in Material : y.locked[q] <= y.in[q]
    <2> SUFFICES ASSUME NEW q \in Material PROVE y.locked[q] <= y.in[q]
      OBVIOUS
    <2>1. x.locked[q] <= x.in[q] /\ x.in[q] <= in[q]
      BY <1>2 DEF Sound, Provided
    <2>2. x.locked[q] \in Nat /\ x.in[q] \in Nat /\ in[q] \in Nat
      BY <1>1, <1>2 DEF Amounts
    <2> QED
      BY <1>4, <2>1, <2>2
  <1>6. Provided(y) /\ (Digs(x) => Digs(y))
    BY <1>4, <1>5 DEF Sound, Provided, Digs
  <1> QED
    BY <1>4, <1>6 DEF Sound, y

LEMMA HaulKeeps ==
  ASSUME ProductionInv, NEW f \in Facilities, NEW g \in Facilities, NEW r \in Material,
         Haul(f, g, r, 1)
  PROVE  Keeping
  <1> DEFINE x == facility[f]
             a == [x EXCEPT !.out[r] = @ - 1]
             taken == [facility EXCEPT ![f] = a]
             z == taken[g]
             b == [z EXCEPT !.in[r] = @ + 1]
  <1>1. DOMAIN facility = Facilities /\ \A e \in Facilities : Sound(e, facility[e])
    BY DEF ProductionInv, FacilityInv
  <1>2. x.out[r] >= 1
    <2>1. x.out[r] \in Nat /\ 1 <= x.out[r]
      BY <1>1 DEF Haul, Sound, Provided, FacilityType, Amounts
    <2> QED
      BY <2>1
  <1>3. Sound(f, a) /\ CraftKept(x, a)
    BY <1>1, <1>2, TakenOut
  <1>4. taken = [facility EXCEPT ![f].out[r] = @ - 1]
    BY <1>1
  <1>5. facility' = [taken EXCEPT ![g].in[r] = @ + 1] /\ remaining' \in Deposits
    <2>1. remaining' \in Deposits
      BY DEF Haul, ProductionInv
    <2>2. facility' = [[facility EXCEPT ![f].out[r] = @ - 1] EXCEPT ![g].in[r] = @ + 1]
      BY DEF Haul
    <2> HIDE DEF taken
    <2> QED
      BY <1>4, <2>1, <2>2
  <1> HIDE DEF a
  <1>6. taken = [e \in Facilities |-> IF e = f THEN a ELSE facility[e]]
    BY <1>1, Zenon
  <1>7. \A e \in Facilities : taken[e] = IF e = f THEN a ELSE facility[e]
    BY <1>6
  <1>8. Sound(g, z)
    BY <1>1, <1>3, <1>7
  <1> HIDE DEF x
  <1>9. facility' = [taken EXCEPT ![g] = b]
    BY <1>5, <1>6
  <1>10. DOMAIN taken = Facilities
    BY <1>6
  <1> HIDE DEF taken
  <1>11. Sound(g, b) /\ b.craft = z.craft /\ b.out = z.out
    BY <1>8, PutIn
  <1> HIDE DEF b
  <1>12. facility' = [e \in Facilities |-> IF e = g THEN b ELSE taken[e]]
    BY <1>9, <1>10, Zenon
  <1>13. \A e \in Facilities : facility'[e] = IF e = g THEN b ELSE taken[e]
    BY <1>12
  <1>14. facility' = [e \in Facilities |-> facility'[e]] /\ DOMAIN facility' = Facilities
    BY <1>12
  <1>15. \A e \in Facilities : Sound(e, facility'[e])
    BY <1>1, <1>3, <1>7, <1>11, <1>13
  <1>16. \A e \in Facilities : CraftKept(facility[e], taken[e])
    BY <1>1, <1>3, <1>7, SameKeepsCraft DEF Sound, Provided, x
  <1>17. \A e \in Facilities : CraftKept(facility[e], facility'[e])
    BY <1>11, <1>13, <1>16 DEF CraftKept
  <1> QED
    BY <1>5, <1>14, <1>15, <1>17 DEF Keeping, FacilityInv

LEMMA StillKeeps ==
  ASSUME ProductionInv, UNCHANGED <<facility, remaining>>
  PROVE  Keeping
  BY SameKeepsCraft DEF ProductionInv, FacilityInv, Keeping, Sound, Provided

LEMMA InitIsSound == ProductionInit => ProductionInv
  <1> SUFFICES ASSUME ProductionInit PROVE ProductionInv
    OBVIOUS
  <1>1. NoCraft \in CraftType /\ ~Active(NoCraft) /\ NoCraft.recipe = NoRecipe
    BY EmptyAmounts DEF NoCraft, CraftType, Active
  <1>2. NewFacility \in FacilityType /\ NewFacility.craft = NoCraft /\ NewFacility.locked = Empty
        /\ NewFacility.in = Empty /\ NewFacility.drill = NotMining
    BY <1>1, EmptyAmounts, RestIsDrill DEF NewFacility, FacilityType
  <1>3. Provided(NewFacility) /\ Digs(NewFacility)
    BY <1>1, <1>2, EmptyAmounts, RestIsDrill DEF Provided, Digs
  <1>4. FacilityInv
    BY <1>3 DEF ProductionInit, FacilityInv, Sound
  <1>5. /\ remaining \in Deposits /\ speed \in Nat \ {0}
        /\ supply \in [Facilities -> {"Powered", "Unpowered", "Shut"}]
    BY CatalogueAssumption DEF ProductionInit, Deposits
  <1> QED
    BY <1>4, <1>5 DEF ProductionInv

LEMMA StepKeeps ==
  ASSUME ProductionInv, [ProductionNext]_productionVars
  PROVE  ProductionInv' /\ Keeping
  <1>1. CASE Tick
    <2>1. Keeping
      BY <1>1, TickIsWhole, OnwardKeepsCraft DEF Keeping
    <2> QED
      BY <1>1, <2>1 DEF Keeping, ProductionInv, Tick
  <1>2. ASSUME NEW n \in Speeds, InstallPatch(n) PROVE ProductionInv' /\ Keeping
    BY <1>2, StillKeeps, CatalogueAssumption DEF Keeping, ProductionInv, InstallPatch
  <1>3. ASSUME NEW f \in Facilities, NEW n \in Spans, AdvanceTicks(f, n)
        PROVE  ProductionInv' /\ Keeping
    BY <1>3, AdvanceTicksKeeps, Zenon DEF Keeping, ProductionInv, AdvanceTicks
  <1>4. ASSUME NEW f \in Facilities, NEW rc \in Recipe, SetRecipe(f, rc)
        PROVE  ProductionInv' /\ Keeping
    BY <1>4, SetRecipeKeeps, Zenon DEF Keeping, ProductionInv, SetRecipe
  <1>5. ASSUME NEW f \in Facilities, NEW d \in DepositId, SetDeposit(f, d)
        PROVE  ProductionInv' /\ Keeping
    BY <1>5, SetDepositKeeps, Zenon DEF Keeping, ProductionInv, SetDeposit
  <1>6. ASSUME NEW f \in Facilities, NEW s \in {"Powered", "Unpowered", "Shut"}, SupplyChanges(f, s)
        PROVE  ProductionInv' /\ Keeping
    BY <1>6, StillKeeps DEF Keeping, ProductionInv, SupplyChanges
  <1>7. ASSUME NEW f \in Facilities, NEW g \in Facilities, NEW r \in Material, Haul(f, g, r, 1)
        PROVE  ProductionInv' /\ Keeping
    BY <1>7, HaulKeeps, Zenon DEF Keeping, ProductionInv, Haul
  <1>8. CASE UNCHANGED productionVars
    <2>1. FacilityInv'
      BY <1>8 DEF productionVars, ProductionInv, FacilityInv
    <2> QED
      BY <1>8, <2>1, StillKeeps DEF productionVars, ProductionInv
  <1> QED
    BY <1>1, <1>2, <1>3, <1>4, <1>5, <1>6, <1>7, <1>8 DEF ProductionNext

LEMMA SoundIsLocked == ProductionInv => InputsLocked
  BY DEF ProductionInv, FacilityInv, Sound, Provided, Active, InputsLocked

-----------------------------------------------------------------------------

(* Through power cuts, shutdowns, full hoppers, new recipes, new patches   *)
(* and fast-forwarding, a facility has locked the inputs of the craft it   *)
(* is at, and nothing else, and they are in its hopper (tick_production).  *)
THEOREM InputsStayLocked == ProductionSpec => []InputsLocked
  <1>1. ProductionInit => ProductionInv
    BY InitIsSound
  <1>2. ProductionInv /\ [ProductionNext]_productionVars => ProductionInv'
    BY StepKeeps
  <1> QED
    BY <1>1, <1>2, SoundIsLocked, PTL DEF ProductionSpec

(* The part of NothingSpoilt that is about work: a craft under way is      *)
(* never set back, and ends only by delivering (tick_production).          *)
THEOREM WorkIsKept == ProductionSpec => ProgressKept
  <1>1. ProductionInit => ProductionInv
    BY InitIsSound
  <1>2. ProductionInv /\ [ProductionNext]_productionVars => ProductionInv'
    BY StepKeeps
  <1>3. ProductionInv /\ [ProductionNext]_productionVars =>
          [\A f \in Facilities :
             LET c == facility[f].craft
                 d == facility'[f].craft
             IN c.recipe # NoRecipe =>
                  \/ d.recipe = c.recipe /\ d.total = c.total /\ d.progress >= c.progress
                  \/ facility'[f].out # facility[f].out]_productionVars
    BY StepKeeps DEF Keeping, CraftKept
  <1> QED
    BY <1>1, <1>2, <1>3, PTL DEF ProductionSpec, ProgressKept

-----------------------------------------------------------------------------
(* Fast-forwarding.                                                        *)

LEMMA Quotients ==
  ASSUME NEW a \in Nat, NEW T \in Nat, T > 0
  PROVE  /\ a \div T \in Nat /\ a % T \in 0 .. T - 1
         /\ (a % T) + 1 < T => (a + 1) \div T = a \div T /\ (a + 1) % T = (a % T) + 1
         /\ (a % T) + 1 = T => (a + 1) \div T = (a \div T) + 1 /\ (a + 1) % T = 0
  OBVIOUS

LEMMA QuotientsGrow ==
  ASSUME NEW a \in Nat, NEW b \in Nat, NEW T \in Nat, T > 0, a <= b
  PROVE  a \div T <= b \div T
  OBVIOUS

LEMMA SmallQuotient ==
  ASSUME NEW a \in Nat, NEW T \in Nat, a < T
  PROVE  a \div T = 0 /\ a % T = a
  OBVIOUS

LEMMA Multiples ==
  ASSUME NEW y \in Nat, NEW k \in Nat
  PROVE  /\ y * k \in Nat /\ y * (k + 1) = y * k + y /\ y * 0 = 0
         /\ \A q \in Nat : k <= q => y * k <= y * q
  OBVIOUS

(* What is in a hopper grows by what is put in.                            *)
LEMMA UnitsGrow ==
  ASSUME NEW a \in Amounts, NEW r \in Material, NEW n \in Nat
  PROVE  Units(a) \in Nat /\ Units([a EXCEPT ![r] = @ + n]) = Units(a) + n
  <1> DEFINE b == [a EXCEPT ![r] = @ + n]
  <1>1. a \in [Material -> Nat] /\ a[r] \in Nat
    BY DEF Amounts
  <1>2. b \in [Material -> Nat] /\ b[r] = a[r] + n /\ \A q \in Material : q # r => a[q] = b[q]
    BY <1>1
  <1> HIDE DEF b
  <1>3. Alike(a, b, Material, r)
    BY <1>1, <1>2 DEF Alike
  <1>4. IsFiniteSet(Material)
    BY CatalogueAssumption
  <1>5. SumOf(b, Material) = SumOf(a, Material) - a[r] + b[r]
    BY <1>3, <1>4, SumChanges
  <1>6. SumOf(a, Material) \in Nat
    BY <1>1, <1>4, SumIsNat
  <1>7. SumOf(b, Material) = SumOf(a, Material) + n
    BY <1>1, <1>2, <1>5, <1>6
  <1>8. Units(a) = SumOf(a, Material) /\ Units(b) = SumOf(b, Material)
    BY DEF Units, SumOf
  <1> QED
    BY <1>6, <1>7, <1>8 DEF b

(* Mining, with power, what it was ordered to.                             *)
Leaping(f, w) ==
  /\ f \in Drill /\ Workable(w) /\ supply[f] = "Powered" /\ speed \in Nat \ {0}
  /\ w.x.drill.state = "Mining" /\ w.x.target = w.x.drill.deposit

Dug(w, k) == Smaller(Yield[w.x.drill.deposit] * k, w.left[w.x.drill.deposit])

Spent(w, k) == k > 0 /\ Dug(w, k) = w.left[w.x.drill.deposit]

DrillAfter(w, k, r) == IF Spent(w, k) THEN NotMining ELSE [w.x.drill EXCEPT !.progress = r]

OutAfter(w, k) == [w.x.out EXCEPT ![Ore[w.x.drill.deposit]] = @ + Dug(w, k)]

(* Where k batches and r ticks leave the drill and its deposit.            *)
Batches(w, k, r) ==
  [x    |-> DrillAt(w.x, DrillAfter(w, k, r), OutAfter(w, k)),
   left |-> [w.left EXCEPT ![w.x.drill.deposit] = @ - Dug(w, k)]]

LEMMA LeapingFacts ==
  ASSUME NEW f, NEW w, Leaping(f, w)
  PROVE  LET m == w.x.drill
             d == m.deposit
         IN /\ w \in WorldType /\ w.x \in FacilityType /\ m \in DrillType /\ w.left \in Deposits
            /\ w.x.out \in Amounts /\ d \in DepositId /\ d # NoDeposit /\ m.pending = 0
            /\ m.state = "Mining" /\ w.left[d] \in Nat /\ Yield[d] \in Nat /\ Yield[d] > 0
            /\ Ore[d] \in Material /\ m.progress \in Nat /\ w.x.target = d
            /\ f \in Drill /\ supply[f] = "Powered"
            /\ Shortened(Interval) \in Nat /\ Shortened(Interval) > 0
  <1>1. w \in WorldType /\ w.x \in FacilityType /\ w.x.drill \in DrillType /\ w.left \in Deposits
        /\ w.x.out \in Amounts
    BY DEF Leaping, Workable, WorldType, FacilityType
  <1>2. w.x.drill.deposit \in DepositId /\ w.x.drill.pending = 0
    BY DEF Leaping, Workable, Digs
  <1>3. Shortened(Interval) \in Nat /\ Shortened(Interval) > 0
    <2>1. Interval \in Nat /\ speed \in Nat \ {0}
      BY CatalogueAssumption DEF Leaping
    <2>2. Shortened(Interval) \in Nat \ {0}
      BY <2>1, ShortenedIsPositive
    <2> QED
      BY <2>2
  <1>4. PICK d : d = w.x.drill.deposit
    OBVIOUS
  <1>5. d \in DepositId /\ d # NoDeposit /\ Ore[d] \in Material /\ Yield[d] \in Nat /\ Yield[d] > 0
    <2>1. d \in DepositId
      BY <1>2, <1>4
    <2> QED
      BY <2>1, CatalogueAssumption, FacilityAssumption
  <1>6. w.left[d] \in Nat
    BY <1>1, <1>5 DEF Deposits
  <1>7. w.x.drill.progress \in Nat
    BY <1>1 DEF DrillType
  <1>8. /\ w.x.drill.state = "Mining" /\ w.x.target = w.x.drill.deposit /\ f \in Drill
        /\ supply[f] = "Powered"
    BY DEF Leaping
  <1> QED
    BY <1>1, <1>2, <1>3, <1>4, <1>5, <1>6, <1>7, <1>8

LEMMA DugIsThere ==
  ASSUME NEW f, NEW w, Leaping(f, w), NEW k \in Nat
  PROVE  LET left == w.left[w.x.drill.deposit]
             y == Yield[w.x.drill.deposit]
         IN /\ Dug(w, k) \in Nat /\ Dug(w, k) <= left /\ Dug(w, k) <= y * k
            /\ Dug(w, k) < left => Dug(w, k) = y * k
            /\ Dug(w, k) + Smaller(y, left - Dug(w, k)) = Dug(w, k + 1)
            /\ Dug(w, 0) = 0
            /\ Spent(w, k) => Dug(w, k + 1) = Dug(w, k) /\ Spent(w, k + 1)
  <1> DEFINE left == w.left[w.x.drill.deposit]
             y == Yield[w.x.drill.deposit]
  <1>1. left \in Nat /\ y \in Nat
    BY LeapingFacts
  <1>2. y * k \in Nat /\ y * (k + 1) = y * k + y /\ y * 0 = 0
    BY <1>1, Multiples
  <1>3. Dug(w, k) = Smaller(y * k, left) /\ Dug(w, k + 1) = Smaller(y * (k + 1), left)
        /\ Dug(w, 0) = Smaller(y * 0, left)
    BY DEF Dug
  <1>4. (Spent(w, k) <=> k > 0 /\ Dug(w, k) = left)
        /\ (Spent(w, k + 1) <=> k + 1 > 0 /\ Dug(w, k + 1) = left)
    BY DEF Spent
  <1> HIDE DEF left, y
  <1>5. PICK a \in Nat : a = y * k
    BY <1>2
  <1>6. Dug(w, k) = Smaller(a, left) /\ Dug(w, k + 1) = Smaller(a + y, left) /\ Dug(w, 0) = Smaller(0, left)
    BY <1>2, <1>3, <1>5
  <1>7. /\ Dug(w, k) \in Nat /\ Dug(w, k) <= left /\ Dug(w, k) <= a
        /\ Dug(w, k) < left => Dug(w, k) = a
        /\ Dug(w, k) + Smaller(y, left - Dug(w, k)) = Dug(w, k + 1)
        /\ Dug(w, 0) = 0
    BY <1>1, <1>6 DEF Smaller
  <1>8. Spent(w, k) => Dug(w, k + 1) = Dug(w, k) /\ Spent(w, k + 1)
    <2> SUFFICES ASSUME Spent(w, k) PROVE Dug(w, k + 1) = Dug(w, k) /\ Spent(w, k + 1)
      OBVIOUS
    <2>1. Dug(w, k) = left
      BY <1>4
    <2>2. Smaller(a, left) = left /\ Smaller(a + y, left) = left
      BY <1>1, <1>6, <2>1 DEF Smaller
    <2>3. Dug(w, k + 1) = left /\ k + 1 > 0
      BY <1>6, <2>2
    <2> QED
      BY <1>4, <2>1, <2>3
  <1> QED
    BY <1>5, <1>7, <1>8 DEF left, y

LEMMA LeapIsBatches ==
  ASSUME NEW f, NEW w, Leaping(f, w), NEW n \in Nat,
         (w.x.drill.progress + n) \div Shortened(Interval) > 0
  PROVE  LET a == w.x.drill.progress + n
             T == Shortened(Interval)
         IN Leap(f, w, n) = Batches(w, a \div T, a % T)
  <1> DEFINE a == w.x.drill.progress + n
             T == Shortened(Interval)
             k == a \div T
             r == a % T
             d == w.x.drill.deposit
             then == [w.x.drill EXCEPT !.progress = r]
             got == Smaller(Yield[d] * k, w.left[d])
  <1>1. Leap(f, w, n) = Extracted(w, Yield[d] * k, then)
    BY DEF Leap
  <1>2. Extracted(w, Yield[d] * k, then) =
          [x |-> [w.x EXCEPT !.out[Ore[d]] = @ + got,
                             !.drill = IF got = w.left[d] THEN NotMining ELSE then],
           left |-> [w.left EXCEPT ![d] = @ - got]]
    BY DEF Extracted
  <1>3. k > 0
    OBVIOUS
  <1> HIDE DEF k, r
  <1>4. Dug(w, k) = got /\ DrillAfter(w, k, r) = IF got = w.left[d] THEN NotMining ELSE then
    BY <1>3 DEF Dug, DrillAfter, Spent
  <1> HIDE DEF got, then
  <1>5. Batches(w, k, r) = [x |-> DrillAt(w.x, DrillAfter(w, k, r), OutAfter(w, k)),
                            left |-> [w.left EXCEPT ![d] = @ - got]]
    BY <1>4 DEF Batches
  <1>6. w.x \in FacilityType
    BY LeapingFacts
  <1>7. DrillAt(w.x, DrillAfter(w, k, r), OutAfter(w, k)) =
          [w.x EXCEPT !.out[Ore[d]] = @ + got,
                      !.drill = IF got = w.left[d] THEN NotMining ELSE then]
    BY <1>4, <1>6, Zenon DEF DrillAt, OutAfter, FacilityType
  <1>8. Leap(f, w, n) = Batches(w, k, r)
    BY <1>1, <1>2, <1>5, <1>7
  <1> QED
    BY <1>8 DEF k, r

LEMMA BeginningIsBatches ==
  ASSUME NEW f, NEW w, Leaping(f, w)
  PROVE  Batches(w, 0, w.x.drill.progress) = w
  <1> DEFINE d == w.x.drill.deposit
  <1>1. Dug(w, 0) = 0
    BY DugIsThere
  <1>2. /\ w \in WorldType /\ w.x \in FacilityType /\ w.x.drill \in DrillType /\ w.left \in Deposits
        /\ w.x.out \in Amounts /\ w.left[d] \in Nat /\ Ore[d] \in Material
    BY LeapingFacts
  <1>3. DrillAfter(w, 0, w.x.drill.progress) = w.x.drill
    BY <1>2 DEF DrillAfter, Spent, DrillType
  <1>4. OutAfter(w, 0) = w.x.out
    BY <1>1, <1>2 DEF OutAfter, Amounts
  <1>5. [w.left EXCEPT ![d] = @ - Dug(w, 0)] = w.left
    BY <1>1, <1>2 DEF Deposits
  <1>6. DrillAt(w.x, w.x.drill, w.x.out) = w.x
    BY <1>2, Zenon DEF DrillAt, FacilityType
  <1>7. w = [x |-> w.x, left |-> w.left]
    BY <1>2 DEF WorldType
  <1> QED
    BY <1>3, <1>4, <1>5, <1>6, <1>7 DEF Batches

(* What is to be known of v, which Batches(w, k, r) is.                    *)
AreBatches(w, k, r, v) ==
  LET d == w.x.drill.deposit
  IN /\ v.x.drill = DrillAfter(w, k, r) /\ v.x.out = OutAfter(w, k) /\ v.x.target = d
     /\ v.left = [w.left EXCEPT ![d] = @ - Dug(w, k)]
     /\ v.left[d] = w.left[d] - Dug(w, k)
     /\ v.left \in Deposits /\ v.x.out \in Amounts
     /\ v = [x |-> v.x, left |-> v.left] /\ v.x \in FacilityType
     /\ v.x.drill \in DrillType
     /\ ~Spent(w, k) => /\ v.x.drill.state = "Mining" /\ v.x.drill.deposit = d
                        /\ v.x.drill.progress = r /\ v.x.drill.pending = 0

LEMMA BatchesFacts ==
  ASSUME NEW f, NEW w, Leaping(f, w), NEW k \in Nat, NEW r \in Nat
  PROVE  AreBatches(w, k, r, Batches(w, k, r))
  <1> DEFINE v == Batches(w, k, r)
             d == w.x.drill.deposit
             out == OutAfter(w, k)
             m == DrillAfter(w, k, r)
             left == [w.left EXCEPT ![d] = @ - Dug(w, k)]
  <1>1. /\ w.x \in FacilityType /\ w.x.drill \in DrillType /\ w.left \in Deposits
        /\ w.x.out \in Amounts /\ w.left[d] \in Nat /\ Ore[d] \in Material /\ d \in DepositId
        /\ w.x.drill.state = "Mining" /\ w.x.drill.pending = 0 /\ w.x.target = d
    BY LeapingFacts
  <1>2. Dug(w, k) \in Nat /\ Dug(w, k) <= w.left[d]
    BY DugIsThere
  <1>3. out \in Amounts
    BY <1>1, <1>2, Filled DEF OutAfter
  <1>4. left \in Deposits /\ left[d] = w.left[d] - Dug(w, k)
    BY <1>1, <1>2 DEF Deposits
  <1>5. m \in DrillType /\ (~Spent(w, k) => m = [w.x.drill EXCEPT !.progress = r])
    BY <1>1, RestIsDrill DEF DrillAfter, DrillType
  <1>6. ~Spent(w, k) => /\ m.state = "Mining" /\ m.deposit = d /\ m.progress = r /\ m.pending = 0
    BY <1>1, <1>5 DEF DrillType
  <1>7. v = [x |-> DrillAt(w.x, m, out), left |-> left]
    BY DEF Batches
  <1> HIDE DEF m, out, left, v
  <1>8. /\ DrillAt(w.x, m, out) \in FacilityType /\ DrillAt(w.x, m, out).drill = m
        /\ DrillAt(w.x, m, out).out = out /\ DrillAt(w.x, m, out).target = d
    BY <1>1, <1>3, <1>5, Zenon DEF DrillAt, FacilityType
  <1>9. v.x = DrillAt(w.x, m, out) /\ v.left = left /\ v = [x |-> v.x, left |-> v.left]
    BY <1>7
  <1>10. /\ v.x.drill = m /\ v.x.out = out /\ v.x.target = d /\ v.x \in FacilityType
         /\ v.x.drill \in DrillType /\ v.x.out \in Amounts /\ v.left \in Deposits
    BY <1>3, <1>4, <1>5, <1>8, <1>9
  <1>11. AreBatches(w, k, r, v)
    BY <1>4, <1>6, <1>9, <1>10 DEF AreBatches, m, out, left
  <1> QED
    BY <1>11 DEF v

(* Once the deposit has nothing left nothing changes any more.             *)
LEMMA SpentStays ==
  ASSUME NEW f, NEW w, Leaping(f, w), NEW k \in Nat, NEW r \in Nat, NEW q \in Nat, Spent(w, k)
  PROVE  /\ TickFacility(f, Batches(w, k, r)) = Batches(w, k, q)
         /\ TickFacility(f, Batches(w, k, r)) = Batches(w, k + 1, q)
  <1> DEFINE v == Batches(w, k, r)
             d == w.x.drill.deposit
  <1>1. f \in Drill /\ supply[f] = "Powered" /\ d # NoDeposit
    BY LeapingFacts
  <1>2. v.x.drill = NotMining /\ v.x.target = d /\ v.left[d] = w.left[d] - Dug(w, k)
    <2> HIDE DEF v, d
    <2>1. AreBatches(w, k, r, v)
      BY BatchesFacts DEF v
    <2>2. /\ v.x.drill = DrillAfter(w, k, r) /\ v.x.target = d
          /\ v.left[d] = w.left[d] - Dug(w, k)
      BY <2>1, Zenon DEF AreBatches, d
    <2>3. DrillAfter(w, k, r) = NotMining
      BY DEF DrillAfter
    <2> QED
      BY <2>2, <2>3, Zenon
  <1>3. v.left[d] = 0
    BY <1>2, LeapingFacts DEF Spent
  <1>4. Batches(w, k, q) = v
    BY DEF Batches, DrillAfter
  <1>5. Batches(w, k + 1, q) = v
    <2>1. Dug(w, k + 1) = Dug(w, k) /\ Spent(w, k + 1)
      BY DugIsThere
    <2> QED
      BY <2>1 DEF Batches, DrillAfter, OutAfter
  <1> HIDE DEF v, d
  <1>6. TickFacility(f, v) = TickMining(f, v, TRUE)
    <2>1. (supply[f] = "Powered") = TRUE
      BY <1>1
    <2> QED
      BY <1>1, <2>1, Zenon DEF TickFacility
  <1>7. TickMining(f, v, TRUE) = v
    BY <1>1, <1>2, <1>3, RestIsDrill DEF TickMining
  <1> QED
    BY <1>4, <1>5, <1>6, <1>7, Zenon DEF v

LEMMA MiningIsTicked ==
  ASSUME NEW f, NEW w, Leaping(f, w), NEW k \in Nat, NEW r \in Nat, ~Spent(w, k)
  PROVE  TickFacility(f, Batches(w, k, r)) = Mined(f, Batches(w, k, r))
  <1> DEFINE v == Batches(w, k, r)
             m == v.x.drill
  <1>1. f \in Drill /\ supply[f] = "Powered"
    BY LeapingFacts
  <1>2. /\ m.state = "Mining" /\ m \in DrillType /\ v.x \in FacilityType
        /\ v = [x |-> v.x, left |-> v.left]
    <2>1. AreBatches(w, k, r, v)
      BY BatchesFacts
    <2> HIDE DEF v
    <2> QED
      BY <2>1 DEF AreBatches
  <1> HIDE DEF v
  <1>3. [v EXCEPT !.x.drill.state = "Mining"] = v
    <2>1. [m EXCEPT !.state = "Mining"] = m
      BY <1>2 DEF DrillType
    <2>2. [v.x EXCEPT !.drill = m] = v.x
      BY <1>2 DEF FacilityType
    <2>3. [v EXCEPT !.x = v.x] = v
      BY <1>2
    <2>4. [v EXCEPT !.x.drill.state = "Mining"] =
            [v EXCEPT !.x = [v.x EXCEPT !.drill = [m EXCEPT !.state = "Mining"]]]
      BY <1>2
    <2> QED
      BY <2>1, <2>2, <2>3, <2>4
  <1>4. TickFacility(f, v) = TickMining(f, v, TRUE)
    <2>1. (supply[f] = "Powered") = TRUE
      BY <1>1
    <2> QED
      BY <1>1, <2>1, Zenon DEF TickFacility
  <1>5. TickMining(f, v, TRUE) = Mined(f, v)
    <2>1. TickMining(f, v, TRUE) = Mined(f, [v EXCEPT !.x.drill.state = "Mining"])
      <3> HIDE DEF m
      <3> QED
        BY <1>2 DEF TickMining, m
    <2> QED
      BY <1>3, <2>1, Zenon
  <1> QED
    BY <1>4, <1>5, Zenon DEF v

LEMMA BatchGoesOn ==
  ASSUME NEW f, NEW w, Leaping(f, w), NEW k \in Nat, NEW r \in Nat, r + 1 < Shortened(Interval)
  PROVE  TickFacility(f, Batches(w, k, r)) = Batches(w, k, r + 1)
  <1> DEFINE v == Batches(w, k, r)
             u == Batches(w, k, r + 1)
  <1>1. CASE Spent(w, k)
    BY <1>1, SpentStays
  <1>2. CASE ~Spent(w, k)
    <2>1. TickFacility(f, v) = Mined(f, v)
      BY <1>2, MiningIsTicked
    <2>2. /\ v.x.drill = DrillAfter(w, k, r) /\ v.x.drill.progress = r /\ v.x \in FacilityType
          /\ v = [x |-> v.x, left |-> v.left]
      <3>1. AreBatches(w, k, r, v)
        BY BatchesFacts
      <3> HIDE DEF v
      <3> QED
        BY <1>2, <3>1 DEF AreBatches
    <2>3. Mined(f, v) = [v EXCEPT !.x.drill.progress = r + 1]
      <3> HIDE DEF v
      <3> QED
        BY <2>2 DEF Mined
    <2>4. [v.x.drill EXCEPT !.progress = r + 1] = DrillAfter(w, k, r + 1)
      <3>1. v.x.drill = [w.x.drill EXCEPT !.progress = r]
        BY <1>2, <2>2 DEF DrillAfter
      <3>2. w.x.drill \in DrillType
        BY LeapingFacts
      <3> HIDE DEF v
      <3>3. [v.x.drill EXCEPT !.progress = r + 1] = [w.x.drill EXCEPT !.progress = r + 1]
        BY <3>1, <3>2, Zenon DEF DrillType
      <3> QED
        BY <1>2, <3>3 DEF DrillAfter
    <2>5. v.x = DrillAt(w.x, DrillAfter(w, k, r), OutAfter(w, k))
      BY DEF Batches
    <2>6. u.x = DrillAt(w.x, DrillAfter(w, k, r + 1), OutAfter(w, k)) /\ u.left = v.left
          /\ u = [x |-> u.x, left |-> u.left]
      BY DEF Batches
    <2> HIDE DEF u, v
    <2>7. [v.x EXCEPT !.drill = DrillAfter(w, k, r + 1)] = u.x
      <3>1. w.x \in FacilityType
        BY LeapingFacts
      <3> QED
        BY <2>5, <2>6, <3>1, Zenon DEF DrillAt, FacilityType
    <2>8. [v EXCEPT !.x.drill.progress = r + 1] =
            [x |-> [v.x EXCEPT !.drill = [v.x.drill EXCEPT !.progress = r + 1]], left |-> v.left]
      <3>1. PICK y, left : y = v.x /\ left = v.left /\ v = [x |-> y, left |-> left]
        BY <2>2
      <3>2. [v EXCEPT !.x.drill.progress = r + 1] =
              [x |-> [y EXCEPT !.drill.progress = r + 1], left |-> left]
        BY <3>1
      <3>3. [y EXCEPT !.drill.progress = r + 1] = [y EXCEPT !.drill = [y.drill EXCEPT !.progress = r + 1]]
        BY <2>2, <3>1 DEF FacilityType
      <3> QED
        BY <3>1, <3>2, <3>3
    <2> QED
      BY <2>1, <2>3, <2>4, <2>6, <2>7, <2>8 DEF u, v
  <1> QED
    BY <1>1, <1>2

LEMMA MinedOut ==
  ASSUME NEW f, NEW v, ~(v.x.drill.progress + 1 < Shortened(Interval)),
         v.left[v.x.drill.deposit] = 0
  PROVE  Mined(f, v) = [v EXCEPT !.x.drill = NotMining]
  BY DEF Mined

LEMMA MinedBatch ==
  ASSUME NEW f, NEW v, NEW d, d = v.x.drill.deposit, NEW y, y = Yield[d],
         ~(v.x.drill.progress + 1 < Shortened(Interval)), v.left[d] # 0, OutputFits(f, v.x, y)
  PROVE  Mined(f, v) = Extracted(v, y, MiningOf(d))
  BY DEF Mined

LEMMA MiningAgain ==
  ASSUME NEW m \in DrillType, m.state = "Mining", m.pending = 0
  PROVE  [m EXCEPT !.progress = 0] = MiningOf(m.deposit)
  <1>1. [m EXCEPT !.progress = 0] =
          [state |-> m.state, deposit |-> m.deposit, progress |-> 0, pending |-> m.pending]
    BY DEF DrillType
  <1>2. MiningOf(m.deposit) =
          [state |-> "Mining", deposit |-> m.deposit, progress |-> 0, pending |-> 0]
    <2>1. PICK d : d = m.deposit
      OBVIOUS
    <2>2. [NotMining EXCEPT !.state = "Mining"] =
            [state |-> "Mining", deposit |-> NoDeposit, progress |-> 0, pending |-> 0]
      BY DEF NotMining
    <2>3. [[state |-> "Mining", deposit |-> NoDeposit, progress |-> 0, pending |-> 0]
             EXCEPT !.deposit = d] = [state |-> "Mining", deposit |-> d, progress |-> 0, pending |-> 0]
      OBVIOUS
    <2>4. MiningOf(d) = [[NotMining EXCEPT !.state = "Mining"] EXCEPT !.deposit = d]
      BY DEF MiningOf
    <2> QED
      BY <2>1, <2>2, <2>3, <2>4, Zenon
  <1> QED
    BY <1>1, <1>2

(* Taking a and then got from one place is taking both at once.            *)
Put(o, q, n) == [o EXCEPT ![q] = @ + n]

Taken(l, e, n) == [l EXCEPT ![e] = @ - n]

Rest(z, n) == [z EXCEPT !.drill = n]

Refill(z, out, n) == [z EXCEPT !.out = out, !.drill = n]

LEMMA TwiceTaken ==
  ASSUME NEW a \in Nat, NEW got \in Nat, NEW b \in Nat, a + got = b
  PROVE  /\ \A o \in Amounts, q \in Material : Put(Put(o, q, a), q, got) = Put(o, q, b)
         /\ \A l \in Deposits, e \in DepositId : Taken(Taken(l, e, a), e, got) = Taken(l, e, b)
  <1>1. \A n \in Nat : (n + a) + got = n + b /\ (n - a) - got = n - b
    OBVIOUS
  <1>2. ASSUME NEW o \in Amounts, NEW q \in Material
        PROVE  Put(Put(o, q, a), q, got) = Put(o, q, b)
    BY <1>1, Zenon DEF Amounts, Put
  <1>3. ASSUME NEW l \in Deposits, NEW e \in DepositId
        PROVE  Taken(Taken(l, e, a), e, got) = Taken(l, e, b)
    BY <1>1, Zenon DEF Deposits, Taken
  <1> QED
    BY <1>2, <1>3

(* Only the work and the hopper of a drill that was changed before are     *)
(* other.                                                                  *)
LEMMA TwiceDrilled ==
  ASSUME NEW x \in FacilityType, NEW m, NEW out, NEW n, NEW more
  PROVE  /\ Rest(DrillAt(x, m, out), n) = DrillAt(x, n, out)
         /\ Refill(DrillAt(x, m, out), more, n) = DrillAt(x, n, more)
  BY Zenon DEF DrillAt, FacilityType, Rest, Refill

(* The deposit has nothing left: the drill rests, as after the batch.      *)
LEMMA LastBatchEnds ==
  ASSUME NEW f, NEW w, Leaping(f, w), NEW k \in Nat, NEW r \in Nat, r + 1 = Shortened(Interval),
         NEW v, v = Batches(w, k, r), ~Spent(w, k), v.left[w.x.drill.deposit] = 0
  PROVE  Mined(f, v) = Batches(w, k + 1, 0)
  <1>1. AreBatches(w, k, r, v)
    BY BatchesFacts
  <1>2. PICK d, a, b : d = w.x.drill.deposit /\ a = Dug(w, k) /\ b = Dug(w, k + 1)
    OBVIOUS
  <1>3. w.x \in FacilityType /\ w.left[d] \in Nat /\ d \in DepositId /\ Yield[d] \in Nat
    BY <1>2, LeapingFacts
  <1>4. /\ a \in Nat /\ a <= w.left[d] /\ a + Smaller(Yield[d], w.left[d] - a) = b
    BY <1>2, DugIsThere
  <1>5. /\ v.x.drill.deposit = d /\ v.x.drill.progress = r /\ v.left[d] = w.left[d] - a
        /\ v = [x |-> v.x, left |-> v.left]
    BY <1>1, <1>2 DEF AreBatches
  <1>6. v.x = DrillAt(w.x, DrillAfter(w, k, r), OutAfter(w, k)) /\ v.left = [w.left EXCEPT ![d] = @ - a]
    BY <1>2 DEF Batches
  <1>7. Mined(f, v) = [v EXCEPT !.x.drill = NotMining]
    <2>1. ~(v.x.drill.progress + 1 < Shortened(Interval)) /\ v.left[d] = 0
      BY <1>2, <1>5
    <2> QED
      BY <1>5, <2>1, MinedOut
  <1>8. a = w.left[d] /\ b = a
    <2>1. PICK l, y \in Nat : l = w.left[d] /\ y = Yield[d]
      BY <1>3
    <2>2. a = l
      BY <1>2, <1>4, <1>5, <2>1
    <2>3. Smaller(y, l - a) = 0
      BY <2>1, <2>2 DEF Smaller
    <2> QED
      BY <1>4, <2>1, <2>2, <2>3
  <1>9. Spent(w, k + 1)
    BY <1>2, <1>8 DEF Spent
  <1>10. DrillAfter(w, k + 1, 0) = NotMining /\ OutAfter(w, k + 1) = OutAfter(w, k)
    BY <1>2, <1>8, <1>9 DEF DrillAfter, OutAfter
  <1>11. Batches(w, k + 1, 0) = [x |-> DrillAt(w.x, NotMining, OutAfter(w, k)), left |-> v.left]
    BY <1>2, <1>6, <1>8, <1>10 DEF Batches
  <1>12. [v.x EXCEPT !.drill = NotMining] = DrillAt(w.x, NotMining, OutAfter(w, k))
    <2>1. PICK x \in FacilityType : x = w.x
      BY <1>3
    <2>2. PICK m, out, n : m = DrillAfter(w, k, r) /\ out = OutAfter(w, k) /\ n = NotMining
      OBVIOUS
    <2>3. Rest(DrillAt(x, m, out), n) = DrillAt(x, n, out)
      BY TwiceDrilled
    <2>4. Rest(DrillAt(w.x, DrillAfter(w, k, r), OutAfter(w, k)), NotMining)
            = DrillAt(w.x, NotMining, OutAfter(w, k))
      BY <2>1, <2>2, <2>3, Zenon
    <2> QED
      BY <1>6, <2>4, Zenon DEF Rest
  <1>13. [v EXCEPT !.x.drill = NotMining] = [x |-> [v.x EXCEPT !.drill = NotMining], left |-> v.left]
    <2>1. PICK z, left : z = v.x /\ left = v.left /\ v = [x |-> z, left |-> left]
      BY <1>5
    <2>2. [v EXCEPT !.x.drill = NotMining] = [x |-> [z EXCEPT !.drill = NotMining], left |-> left]
      BY <2>1
    <2> QED
      BY <2>1, <2>2
  <1> QED
    BY <1>7, <1>11, <1>12, <1>13, Zenon

(* There is something left: another batch, or the rest of the deposit.     *)
LEMMA NextBatchEnds ==
  ASSUME NEW f, NEW w, Leaping(f, w), NEW k \in Nat, NEW r \in Nat, r + 1 = Shortened(Interval),
         OutputFits(f, w.x, Yield[w.x.drill.deposit] * (k + 1)), OutputRoom[f] \in Nat,
         NEW v, v = Batches(w, k, r), ~Spent(w, k), v.left[w.x.drill.deposit] # 0
  PROVE  Mined(f, v) = Batches(w, k + 1, 0)
  <1>1. AreBatches(w, k, r, v)
    BY BatchesFacts, Zenon
  <1>2. PICK d, y, a, b : d = w.x.drill.deposit /\ y = Yield[d] /\ a = Dug(w, k) /\ b = Dug(w, k + 1)
    OBVIOUS
  <1>3. /\ w.x \in FacilityType /\ w.left \in Deposits /\ w.x.out \in Amounts
        /\ w.left[d] \in Nat /\ Ore[d] \in Material /\ d \in DepositId /\ y \in Nat
    BY <1>2, LeapingFacts
  <1>4. /\ a \in Nat /\ a <= w.left[d] /\ (a < w.left[d] => a = y * k)
        /\ a + Smaller(y, w.left[d] - a) = b
    BY <1>2, DugIsThere
  <1>5. /\ v.x.drill.deposit = d /\ v.x.drill.progress = r /\ v.left[d] = w.left[d] - a
        /\ v = [x |-> v.x, left |-> v.left] /\ v.x \in FacilityType
    BY <1>1, <1>2 DEF AreBatches
  <1>6. /\ v.x = DrillAt(w.x, DrillAfter(w, k, r), OutAfter(w, k))
        /\ v.left = [w.left EXCEPT ![d] = @ - a] /\ v.x.out = OutAfter(w, k)
    BY <1>1, <1>2 DEF Batches, AreBatches
  <1>7. PICK got : got = Smaller(y, v.left[d])
    OBVIOUS
  <1>8. PICK l \in Nat : l = w.left[d]
    BY <1>3
  <1>9. v.left[d] = l - a /\ a < l /\ a = y * k
    BY <1>2, <1>4, <1>5, <1>8
  <1>10. got \in Nat /\ a + got = b /\ b \in Nat
    <2>1. got = Smaller(y, l - a) /\ l - a \in Nat
      BY <1>4, <1>7, <1>8, <1>9
    <2>2. got \in Nat
      BY <1>3, <2>1 DEF Smaller
    <2> QED
      BY <1>4, <1>8, <2>1, <2>2
  <1>11. OutputFits(f, v.x, y)
    <2>1. Units(w.x.out) \in Nat /\ Units(OutAfter(w, k)) = Units(w.x.out) + a
      BY <1>2, <1>3, <1>4, UnitsGrow, Zenon DEF OutAfter
    <2>2. Units(w.x.out) + y * (k + 1) <= OutputRoom[f]
      BY <1>2 DEF OutputFits
    <2>3. y * (k + 1) = a + y
      BY <1>3, <1>9, Multiples
    <2>4. Units(OutAfter(w, k)) + y <= OutputRoom[f]
      BY <1>3, <1>4, <2>1, <2>2, <2>3
    <2> QED
      BY <1>6, <2>4 DEF OutputFits
  <1>12. Mined(f, v) = Extracted(v, y, MiningOf(d))
    <2>1. ~(v.x.drill.progress + 1 < Shortened(Interval)) /\ v.left[d] # 0
      BY <1>2, <1>5
    <2>2. OutputFits(f, v.x, Yield[d])
      BY <1>2, <1>11
    <2>3. Mined(f, v) = Extracted(v, Yield[d], MiningOf(d))
      BY <1>5, <2>1, <2>2, MinedBatch
    <2> QED
      BY <1>2, <2>3
  <1>13. Extracted(v, y, MiningOf(d)) =
           [x |-> [v.x EXCEPT !.out[Ore[d]] = @ + got,
                              !.drill = IF got = v.left[d] THEN NotMining ELSE MiningOf(d)],
            left |-> [v.left EXCEPT ![d] = @ - got]]
    BY <1>5, <1>7 DEF Extracted
  <1>14. (got = v.left[d]) <=> Spent(w, k + 1)
    <2>1. Spent(w, k + 1) <=> b = l
      BY <1>2, <1>8 DEF Spent
    <2>2. got = l - a <=> b = l
      BY <1>4, <1>10
    <2> QED
      BY <1>9, <2>1, <2>2
  <1>15. (IF got = v.left[d] THEN NotMining ELSE MiningOf(d)) = DrillAfter(w, k + 1, 0)
    <2>1. PICK m \in DrillType : m = w.x.drill
      BY LeapingFacts
    <2>2. m.state = "Mining" /\ m.pending = 0 /\ m.deposit = d
      BY <1>2, <2>1, LeapingFacts
    <2>3. [m EXCEPT !.progress = 0] = MiningOf(d)
      BY <2>2, MiningAgain, Zenon
    <2>4. DrillAfter(w, k + 1, 0) = IF Spent(w, k + 1) THEN NotMining ELSE [m EXCEPT !.progress = 0]
      BY <2>1 DEF DrillAfter
    <2> QED
      BY <1>14, <2>3, <2>4, Zenon
  <1>16. [v.x.out EXCEPT ![Ore[d]] = @ + got] = OutAfter(w, k + 1)
    <2>1. PICK o \in Amounts, q \in Material : o = w.x.out /\ q = Ore[d]
      BY <1>3
    <2>2. v.x.out = Put(o, q, a) /\ OutAfter(w, k + 1) = Put(o, q, b)
      BY <1>2, <1>6, <2>1 DEF OutAfter, Put
    <2>3. Put(Put(o, q, a), q, got) = Put(o, q, b)
      BY <1>4, <1>10, TwiceTaken
    <2>4. Put(v.x.out, Ore[d], got) = OutAfter(w, k + 1)
      BY <2>1, <2>2, <2>3, Zenon
    <2> QED
      BY <2>4, Zenon DEF Put
  <1>17. [v.left EXCEPT ![d] = @ - got] = [w.left EXCEPT ![d] = @ - b]
    <2>1. v.left = Taken(w.left, d, a)
      BY <1>6, Zenon DEF Taken
    <2>2. Taken(Taken(w.left, d, a), d, got) = Taken(w.left, d, b)
      BY <1>3, <1>4, <1>10, TwiceTaken
    <2>3. Taken(v.left, d, got) = Taken(w.left, d, b)
      BY <2>1, <2>2, Zenon
    <2> QED
      BY <2>3, Zenon DEF Taken
  <1>18. [v.x EXCEPT !.out[Ore[d]] = @ + got, !.drill = DrillAfter(w, k + 1, 0)]
           = DrillAt(w.x, DrillAfter(w, k + 1, 0), OutAfter(w, k + 1))
    <2>1. PICK z \in FacilityType : z = v.x
      BY <1>5
    <2>2. PICK o, m : o = OutAfter(w, k + 1) /\ m = DrillAfter(w, k + 1, 0)
      OBVIOUS
    <2>3. o = [z.out EXCEPT ![Ore[d]] = @ + got]
      BY <1>16, <2>1, <2>2
    <2>4. [z EXCEPT !.out[Ore[d]] = @ + got, !.drill = m] = [z EXCEPT !.out = o, !.drill = m]
      BY <2>3 DEF FacilityType
    <2>5. Refill(DrillAt(w.x, DrillAfter(w, k, r), OutAfter(w, k)), o, m) = DrillAt(w.x, m, o)
      BY <1>3, TwiceDrilled
    <2>6. Refill(z, o, m) = DrillAt(w.x, m, o)
      BY <1>6, <2>1, <2>5, Zenon
    <2>7. [z EXCEPT !.out = o, !.drill = m] = DrillAt(w.x, m, o)
      BY <2>6, Zenon DEF Refill
    <2> QED
      BY <2>1, <2>2, <2>4, <2>7, Zenon
  <1>19. Batches(w, k + 1, 0) = [x |-> DrillAt(w.x, DrillAfter(w, k + 1, 0), OutAfter(w, k + 1)),
                                left |-> [w.left EXCEPT ![d] = @ - b]]
    BY <1>2 DEF Batches
  <1> QED
    BY <1>12, <1>13, <1>15, <1>17, <1>18, <1>19, Zenon

LEMMA BatchEnds ==
  ASSUME NEW f, NEW w, Leaping(f, w), NEW k \in Nat, NEW r \in Nat, r + 1 = Shortened(Interval),
         OutputFits(f, w.x, Yield[w.x.drill.deposit] * (k + 1)), OutputRoom[f] \in Nat
  PROVE  TickFacility(f, Batches(w, k, r)) = Batches(w, k + 1, 0)
  <1>1. PICK v : v = Batches(w, k, r)
    OBVIOUS
  <1>2. CASE Spent(w, k)
    <2>1. 0 \in Nat
      OBVIOUS
    <2> QED
      BY <1>2, <2>1, SpentStays
  <1>3. CASE ~Spent(w, k)
    <2>1. TickFacility(f, v) = Mined(f, v)
      BY <1>1, <1>3, MiningIsTicked
    <2>2. Mined(f, v) = Batches(w, k + 1, 0)
      BY <1>1, <1>3, LastBatchEnds, NextBatchEnds
    <2> QED
      BY <1>1, <2>1, <2>2
  <1> QED
    BY <1>2, <1>3

(* A span of batches at once is the span ticked one by one.                *)
LEMMA LeapIsTicked ==
  ASSUME NEW f, NEW w, Leaping(f, w), NEW n \in Nat, MayLeap(f, w, n), OutputRoom[f] \in Nat,
         w.x.drill.progress < Shortened(Interval)
  PROVE  Ticked(f, w, n) = Leap(f, w, n)
  <1> DEFINE p == w.x.drill.progress
             T == Shortened(Interval)
             y == Yield[w.x.drill.deposit]
             all == (p + n) \div T
             B(i) == Batches(w, (p + i) \div T, (p + i) % T)
  <1>1. p \in Nat /\ T \in Nat /\ T > 0 /\ y \in Nat
    BY LeapingFacts
  <1>2. OutputFits(f, w.x, y * all) /\ all > 0
    BY DEF MayLeap
  <1>3. all \in Nat /\ Units(w.x.out) \in Nat
    <2>1. w.x.out \in Amounts /\ Ore[w.x.drill.deposit] \in Material /\ 0 \in Nat
      BY LeapingFacts
    <2>2. Units(w.x.out) \in Nat
      BY <2>1, UnitsGrow, Zenon
    <2> HIDE DEF p, T
    <2> QED
      BY <1>1, <2>2, Quotients
  <1>4. Units(w.x.out) + y * all <= OutputRoom[f]
    BY <1>2 DEF OutputFits
  <1>5. Leap(f, w, n) = B(n)
    BY <1>2, LeapIsBatches
  <1>6. B(0) = w
    <2>1. (p + 0) \div T = 0 /\ (p + 0) % T = p
      <3> HIDE DEF p, T
      <3> QED
        BY <1>1, SmallQuotient DEF p, T
    <2> QED
      BY <2>1, BeginningIsBatches
  <1>7. ASSUME NEW i \in 0 .. n - 1 PROVE TickFacility(f, B(i)) = B(i + 1)
    <2> DEFINE k == (p + i) \div T
               r == (p + i) % T
    <2>1. /\ k \in Nat /\ r \in Nat /\ r < T
          /\ r + 1 < T => (p + (i + 1)) \div T = k /\ (p + (i + 1)) % T = r + 1
          /\ r + 1 = T => (p + (i + 1)) \div T = k + 1 /\ (p + (i + 1)) % T = 0
      <3>1. PICK a \in Nat : a = p + i
        BY <1>1
      <3>2. p + (i + 1) = a + 1
        BY <1>1, <3>1
      <3> HIDE DEF p, T
      <3> QED
        BY <1>1, <3>1, <3>2, Quotients
    <2>2. r + 1 = T => k + 1 <= all
      <3>1. PICK a \in Nat, b \in Nat : a = p + (i + 1) /\ b = p + n /\ a <= b
        BY <1>1
      <3> HIDE DEF p, T, k, r
      <3>2. a \div T <= b \div T
        BY <1>1, <3>1, QuotientsGrow
      <3> QED
        BY <2>1, <3>1, <3>2 DEF p, T
    <2> HIDE DEF k, r
    <2>3. CASE r + 1 < T
      <3>1. TickFacility(f, Batches(w, k, r)) = Batches(w, k, r + 1)
        BY <2>1, <2>3, BatchGoesOn
      <3> QED
        BY <2>1, <2>3, <3>1 DEF k, r
    <2>4. CASE r + 1 = T
      <3>1. OutputFits(f, w.x, y * (k + 1))
        <4> HIDE DEF y, all
        <4>1. k + 1 \in Nat /\ y * (k + 1) <= y * all /\ y * (k + 1) \in Nat /\ y * all \in Nat
          BY <1>1, <1>3, <2>1, <2>2, <2>4, Multiples
        <4>2. Units(w.x.out) + y * (k + 1) <= OutputRoom[f]
          BY <1>3, <1>4, <4>1
        <4> QED
          BY <4>2 DEF OutputFits
      <3>2. TickFacility(f, Batches(w, k, r)) = Batches(w, k + 1, 0)
        BY <2>1, <2>4, <3>1, BatchEnds
      <3> QED
        BY <2>1, <2>4, <3>2 DEF k, r
    <2> QED
      BY <1>1, <2>1, <2>3, <2>4
  <1> HIDE DEF B
  <1>8. PICK g : /\ Ticked(f, w, n) = g[n] /\ g[0] = w
                 /\ \A i \in 0 .. n - 1 : g[i + 1] = TickFacility(f, g[i])
    BY TickedSteps
  <1> DEFINE N == {i \in Nat : i <= n => g[i] = B(i)}
  <1>9. 0 \in N
    BY <1>6, <1>8
  <1>10. ASSUME NEW i \in Nat, i \in N PROVE i + 1 \in N
    <2> SUFFICES ASSUME i + 1 <= n PROVE g[i + 1] = B(i + 1)
      OBVIOUS
    <2>1. g[i] = B(i) /\ i \in 0 .. n - 1
      BY <1>10
    <2> QED
      BY <1>7, <1>8, <2>1
  <1> HIDE DEF N
  <1>11. n \in N
    BY <1>9, <1>10, NaturalInduction
  <1> QED
    BY <1>5, <1>8, <1>11 DEF N

LEMMA SoundLeaps == ProductionInv => FastForwardMatchesTicks
  <1> SUFFICES ASSUME ProductionInv, NEW f \in Drill, NEW n \in Spans,
                      facility[f].target = facility[f].drill.deposit,
                      facility[f].drill.progress < Shortened(Interval)
               PROVE  LET w == [x |-> facility[f], left |-> remaining]
                      IN FastForwarded(f, w, n) = Ticked(f, w, n)
    BY DEF FastForwardMatchesTicks
  <1> DEFINE w == [x |-> facility[f], left |-> remaining]
  <1>1. f \in Facilities /\ n \in Nat /\ OutputRoom[f] \in Nat /\ speed \in Nat \ {0}
    BY FacilityAssumption, CatalogueAssumption DEF ProductionInv
  <1>2. Workplace(f, w)
    BY <1>1 DEF ProductionInv, FacilityInv, Workplace, WorldType, Sound, Provided
  <1>3. w.x.target = w.x.drill.deposit /\ w.x.drill.progress < Shortened(Interval)
    OBVIOUS
  <1> HIDE DEF w
  <1>4. CASE MayLeap(f, w, n)
    <2>1. Leaping(f, w)
      BY <1>1, <1>2, <1>3, <1>4, DrillIsWorkable DEF Leaping, MayLeap
    <2> QED
      BY <1>1, <1>3, <1>4, <2>1, LeapIsTicked DEF FastForwarded, w
  <1>5. CASE ~MayLeap(f, w, n)
    BY <1>5 DEF FastForwarded, w
  <1> QED
    BY <1>4, <1>5

(* A distant drill that is moved over a span at once, by however many      *)
(* batches, is where it would be had it been ticked: whether its deposit   *)
(* lasts, runs out at the end of a batch or in one (advance_ticks).        *)
THEOREM FastForwardIsExact == ProductionSpec => []FastForwardMatchesTicks
  <1>1. ProductionInit => ProductionInv
    BY InitIsSound
  <1>2. ProductionInv /\ [ProductionNext]_productionVars => ProductionInv'
    BY StepKeeps
  <1> QED
    BY <1>1, <1>2, SoundLeaps, PTL DEF ProductionSpec
=============================================================================
