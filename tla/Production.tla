----------------------------- MODULE Production -----------------------------
(***************************************************************************)
(* Drills, refineries and fabricators: crates/sim-core/src/production.rs,  *)
(* ticked from structure.rs once per step of the simulation, facility by   *)
(* facility.  A crafter locks the inputs of its recipe, works on them for  *)
(* the recipe's duration, and turns them into output when there is room; a *)
(* drill turns a deposit into output, a batch per interval.  Both freeze   *)
(* without power and block when their output hopper is full.               *)
(*                                                                         *)
(* The supply of a facility comes from the power network and from the      *)
(* state of its structure, and speed from research: both change between    *)
(* ticks as they please.                                                   *)
(*                                                                         *)
(* Abstracted: hoppers are totals with room for so many units; a craft     *)
(* carries what its reservations lock where the code carries their ids,    *)
(* which are never used again; purity and yield research are in Yield, and *)
(* a deposit that does not exist is one with nothing in it; who gives the  *)
(* orders, counters and events are left out.                               *)
(***************************************************************************)
EXTENDS Integers, Sequences, SequencesExt, FiniteSetsExt, Functions

CONSTANTS
  Facility,      \* sequence of facilities, in the order they are ticked
  Drill,         \* those of kind MiningDrill; the others craft
  Material,      \* the resources machines take and make
  Recipe, NoRecipe,
  RecipesOf,     \* RecipesOf[f]: the recipes of the kind of facility f is
  Inputs,        \* Inputs[rc]: units of each resource a craft takes
  Product,       \* Product[rc], Batch[rc]: what a craft makes, and how much
  Batch,
  Duration,      \* Duration[rc]: ticks of a craft at speed 1
  DepositId, NoDeposit,
  Ore,           \* Ore[d]: the resource of deposit d
  Initial,       \* Initial[d]: units in d when the model starts
  Yield,         \* Yield[d]: units of a full batch
  Interval,      \* ticks between two batches at speed 1 (15 in the code)
  InputRoom,     \* InputRoom[f], OutputRoom[f]: units its hoppers hold
  OutputRoom,
  Speeds,        \* the speeds research gives
  ShortSpan,     \* spans that are ticked one by one (4 in the code)
  Spans,         \* bound: the spans a facility is fast-forwarded over
  Unstable       \* bound: the facilities whose supply changes

Facilities == Range(Facility)

ASSUME FacilityAssumption ==
  /\ Facility \in Seq(Facilities) /\ IsInjective(Facility) /\ Drill \subseteq Facilities
  /\ \A f \in Facilities \ Drill : RecipesOf[f] \subseteq Recipe
  /\ NoRecipe \notin Recipe /\ NoDeposit \notin DepositId

ASSUME CatalogueAssumption ==
  /\ IsFiniteSet(Material)
  /\ Inputs \in [Recipe -> [Material -> Nat]]
  /\ Product \in [Recipe -> Material] /\ Batch \in [Recipe -> Nat \ {0}]
  /\ Duration \in [Recipe -> Nat \ {0}]
  /\ Ore \in [DepositId -> Material]
  /\ Initial \in [DepositId -> Nat] /\ Yield \in [DepositId -> Nat \ {0}]
  /\ Interval \in Nat \ {0} /\ Speeds \subseteq Nat \ {0}
  /\ InputRoom \in [Facilities -> Nat] /\ OutputRoom \in [Facilities -> Nat]
  /\ ShortSpan \in Nat /\ Spans \subseteq Nat

VARIABLES
  facility,    \* facility[f]: its orders, its work and its hoppers
  remaining,   \* remaining[d]: units left in deposit d
  supply,      \* supply[f]: Powered, Unpowered, or Shut (not operational)
  speed        \* the research multiplier

productionVars == <<facility, remaining, supply, speed>>

Empty == [r \in Material |-> 0]
NoCraft == [state |-> "Idle", recipe |-> NoRecipe, progress |-> 0, total |-> 0, locks |-> Empty]
Awaiting == [NoCraft EXCEPT !.state = "AwaitingInputs"]
NotMining == [state |-> "Idle", deposit |-> NoDeposit, progress |-> 0, pending |-> 0]
MiningOf(d) == [NotMining EXCEPT !.state = "Mining", !.deposit = d]

NewFacility ==
  [recipe |-> NoRecipe, target |-> NoDeposit, craft |-> NoCraft, drill |-> NotMining,
   in |-> Empty, locked |-> Empty, out |-> Empty]

ProductionInit ==
  /\ facility = [f \in Facilities |-> NewFacility]
  /\ remaining = Initial
  /\ supply = [f \in Facilities |-> "Powered"]
  /\ speed = 1

Plus(a, b) == [r \in Material |-> a[r] + b[r]]
Minus(a, b) == [r \in Material |-> a[r] - b[r]]

Units(amounts) == MapThenSumSet(LAMBDA r : amounts[r], Material)

OutputFits(f, x, n) == Units(x.out) + n <= OutputRoom[f]

Shortened(ticks) == IF ticks \div speed > 1 THEN ticks \div speed ELSE 1

-----------------------------------------------------------------------------
(* Crafting.                                                               *)

Started(x) ==
  [x EXCEPT !.locked = Plus(@, Inputs[x.recipe]),
            !.craft = [state |-> "Crafting", recipe |-> x.recipe, progress |-> 0,
                       total |-> Shortened(Duration[x.recipe]),
                       locks |-> Inputs[x.recipe]]]

(* Faults: the inputs stay locked; the inputs stay in the hopper.          *)
CompletedLocked(x) ==
  [x EXCEPT !.in = Minus(@, x.craft.locks),
            !.out[Product[x.craft.recipe]] = @ + Batch[x.craft.recipe],
            !.craft = NoCraft]

CompletedFree(x) ==
  [x EXCEPT !.locked = Minus(@, x.craft.locks),
            !.out[Product[x.craft.recipe]] = @ + Batch[x.craft.recipe],
            !.craft = NoCraft]

(* The locked inputs are consumed and the batch is in the output hopper.   *)
Completed(x) ==
  [x EXCEPT !.in = Minus(@, x.craft.locks),
            !.locked = Minus(@, x.craft.locks),
            !.out[Product[x.craft.recipe]] = @ + Batch[x.craft.recipe],
            !.craft = NoCraft]

BatchFits(f, x) == OutputFits(f, x, Batch[x.craft.recipe])

Worked(f, x) ==
  LET progress == x.craft.progress + 1 IN
  IF progress < x.craft.total
  THEN [x EXCEPT !.craft.state = "Crafting", !.craft.progress = progress]
  ELSE IF BatchFits(f, x) THEN Completed(x)
  ELSE [x EXCEPT !.craft.state = "OutputBlocked", !.craft.progress = x.craft.total]

InputsAvailable(x) ==
  \A r \in Material : Inputs[x.recipe][r] <= x.in[r] - x.locked[r]

(* Fault: power does not resume a craft.                                   *)
TickProductionFrozen(f, x, powered) ==
  CASE ~powered /\ x.craft.state = "Crafting" -> [x EXCEPT !.craft.state = "Unpowered"]
    [] powered /\ x.craft.state = "Crafting" -> Worked(f, x)
    [] powered /\ x.craft.state = "OutputBlocked" /\ BatchFits(f, x) -> Completed(x)
    [] powered /\ x.craft.state \in {"Idle", "AwaitingInputs"} /\ x.recipe # NoRecipe ->
         IF InputsAvailable(x) THEN Worked(f, Started(x)) ELSE [x EXCEPT !.craft = Awaiting]
    [] OTHER -> x

(* A craft that is resumed or begun works in the same tick; one that was   *)
(* blocked ends in the tick in which there is room.                        *)
TickProduction(f, x, powered) ==
  CASE ~powered /\ x.craft.state = "Crafting" -> [x EXCEPT !.craft.state = "Unpowered"]
    [] powered /\ x.craft.state \in {"Crafting", "Unpowered"} -> Worked(f, x)
    [] powered /\ x.craft.state = "OutputBlocked" /\ BatchFits(f, x) -> Completed(x)
    [] powered /\ x.craft.state \in {"Idle", "AwaitingInputs"} /\ x.recipe # NoRecipe ->
         IF InputsAvailable(x) THEN Worked(f, Started(x)) ELSE [x EXCEPT !.craft = Awaiting]
    [] OTHER -> x

-----------------------------------------------------------------------------
(* Mining.  w is a facility with the deposits: [x, left].                  *)

Smaller(a, b) == IF a <= b THEN a ELSE b

Extracted(w, n, then) ==
  LET d == w.x.drill.deposit
      got == Smaller(n, w.left[d])
  IN [x    |-> [w.x EXCEPT !.out[Ore[d]] = @ + got,
                           !.drill = IF got = w.left[d] THEN NotMining ELSE then],
      left |-> [w.left EXCEPT ![d] = @ - got]]

(* A full batch that does not fit is pending; the deposit still has it.    *)
Mined(f, w) ==
  LET m == w.x.drill
      progress == m.progress + 1
  IN
  IF progress < Shortened(Interval)
  THEN [w EXCEPT !.x.drill.progress = progress]
  ELSE IF w.left[m.deposit] = 0
  THEN [w EXCEPT !.x.drill = NotMining]
  ELSE IF OutputFits(f, w.x, Yield[m.deposit])
  THEN Extracted(w, Yield[m.deposit], MiningOf(m.deposit))
  ELSE [w EXCEPT !.x.drill =
          [NotMining EXCEPT !.state = "OutputBlocked", !.deposit = m.deposit,
                            !.pending = Yield[m.deposit]]]

(* The pending batch enters the hopper, and the deposit does not change.   *)
Unblocked(w) ==
  LET m == w.x.drill IN
  [w EXCEPT !.x.out[Ore[m.deposit]] = @ + m.pending, !.x.drill = MiningOf(m.deposit)]

TickMining(f, w, powered) ==
  LET m == w.x.drill IN
  CASE ~powered /\ m.state = "Mining" -> [w EXCEPT !.x.drill.state = "Unpowered"]
    [] powered /\ m.state \in {"Mining", "Unpowered"} ->
         Mined(f, [w EXCEPT !.x.drill.state = "Mining"])
    [] powered /\ m.state = "OutputBlocked" /\ OutputFits(f, w.x, m.pending) -> Unblocked(w)
    [] powered /\ m.state = "Idle" /\ w.x.target # NoDeposit ->
         IF w.left[w.x.target] > 0
         THEN Mined(f, [w EXCEPT !.x.drill = MiningOf(w.x.target)])
         ELSE w
    [] OTHER -> w

TickFacility(f, w) ==
  LET powered == supply[f] = "Powered" IN
  CASE supply[f] = "Shut" -> w
    [] supply[f] # "Shut" /\ f \in Drill -> TickMining(f, w, powered)
    [] OTHER -> [w EXCEPT !.x = TickProduction(f, w.x, powered)]

-----------------------------------------------------------------------------
(* Fast-forwarding a distant facility.                                     *)

Ticked(f, w, n) ==
  LET after[i \in 0 .. n] == IF i = 0 THEN w ELSE TickFacility(f, after[i - 1])
  IN after[n]

(* Fault: the ticks already spent on the batch are forgotten.              *)
LeapAnew(f, w, n) ==
  LET m == w.x.drill
      cycles == n \div Shortened(Interval)
  IN Extracted(w, Yield[m.deposit] * cycles,
               [m EXCEPT !.progress = n % Shortened(Interval)])

(* All the batches of a span at once.                                      *)
Leap(f, w, n) ==
  LET m == w.x.drill
      ticks == m.progress + n
      cycles == ticks \div Shortened(Interval)
  IN Extracted(w, Yield[m.deposit] * cycles,
               [m EXCEPT !.progress = ticks % Shortened(Interval)])

MayLeap(f, w, n) ==
  LET m == w.x.drill
      cycles == (m.progress + n) \div Shortened(Interval)
  IN /\ n > ShortSpan /\ supply[f] = "Powered"
     /\ f \in Drill /\ m.state = "Mining"
     /\ cycles > 0
     /\ OutputFits(f, w.x, Yield[m.deposit] * cycles)

FastForwarded(f, w, n) ==
  IF MayLeap(f, w, n) THEN Leap(f, w, n) ELSE Ticked(f, w, n)

-----------------------------------------------------------------------------
(* The steps.                                                              *)

(* One step of the simulation: every facility in turn, drills sharing the  *)
(* deposits as the ones before them left them.                             *)
TickedIn(f, w) ==
  {[facility |-> [w.facility EXCEPT ![f] = v.x], left |-> v.left] :
     v \in {TickFacility(f, [x |-> w.facility[f], left |-> w.left])}}

Tick ==
  LET after[i \in 0 .. Len(Facility)] ==
        IF i = 0 THEN {[facility |-> facility, left |-> remaining]}
        ELSE UNION {TickedIn(Facility[i], w) : w \in after[i - 1]}
  IN \E w \in after[Len(Facility)] :
       /\ facility' = w.facility
       /\ remaining' = w.left
       /\ UNCHANGED <<supply, speed>>

AdvanceTicks(f, n) ==
  LET w == FastForwarded(f, [x |-> facility[f], left |-> remaining], n) IN
  /\ facility' = [facility EXCEPT ![f] = w.x]
  /\ remaining' = w.left
  /\ UNCHANGED <<supply, speed>>

(* A craft under way goes on with the recipe it was begun with.            *)
SetRecipe(f, rc) ==
  /\ f \notin Drill /\ rc \in RecipesOf[f]
  /\ facility' = [facility EXCEPT ![f].recipe = rc,
                    ![f].craft = IF @.state = "Idle" THEN Awaiting ELSE @]
  /\ UNCHANGED <<remaining, supply, speed>>

SetDeposit(f, d) ==
  /\ f \in Drill
  /\ facility' = [facility EXCEPT ![f].target = d,
                    ![f].drill = IF @.state = "Idle" THEN MiningOf(d) ELSE @]
  /\ UNCHANGED <<remaining, supply, speed>>

(* Output is carried to an input hopper that has room for it.              *)
Haul(f, g, r, n) ==
  /\ n <= facility[f].out[r]
  /\ Units(facility[g].in) + n <= InputRoom[g]
  /\ LET taken == [facility EXCEPT ![f].out[r] = @ - n]
     IN facility' = [taken EXCEPT ![g].in[r] = @ + n]
  /\ UNCHANGED <<remaining, supply, speed>>

SupplyChanges(f, s) ==
  /\ f \in Unstable /\ supply[f] # s
  /\ supply' = [supply EXCEPT ![f] = s]
  /\ UNCHANGED <<facility, remaining, speed>>

InstallPatch(n) ==
  /\ speed # n
  /\ speed' = n
  /\ UNCHANGED <<facility, remaining, supply>>

ProductionNext ==
  \/ Tick
  \/ \E n \in Speeds : InstallPatch(n)
  \/ \E f \in Facilities :
       \/ \E n \in Spans : AdvanceTicks(f, n)
       \/ \E rc \in Recipe : SetRecipe(f, rc)
       \/ \E d \in DepositId : SetDeposit(f, d)
       \/ \E s \in {"Powered", "Unpowered", "Shut"} : SupplyChanges(f, s)
       \/ \E g \in Facilities \ Drill, r \in Material : Haul(f, g, r, 1)

(* The server steps the simulation on every tick of its loop.              *)
ProductionSpec == ProductionInit /\ [][ProductionNext]_productionVars /\ WF_productionVars(Tick)

-----------------------------------------------------------------------------
(* Properties.                                                             *)

(* A facility that is crafting, or was stopped while crafting, by a power  *)
(* cut or a full hopper, has the inputs of that craft locked, and really   *)
(* has them; a facility that is not has nothing locked, whatever recipe it *)
(* was given in the meantime.                                              *)
InputsLocked ==
  \A f \in Facilities :
    LET x == facility[f] IN
    /\ x.locked = IF x.craft.state \in {"Crafting", "Unpowered", "OutputBlocked"}
                  THEN Inputs[x.craft.recipe] ELSE Empty
    /\ \A r \in Material : x.locked[r] <= x.in[r]

(* "Preserved until power restoration": the work done on a craft is never  *)
(* undone or repeated, through power cuts, shutdowns, new recipes and new  *)
(* patches; it can only end by the craft ending.                           *)
ProgressKept ==
  [][\A f \in Facilities :
       LET c == facility[f].craft
           d == facility'[f].craft
       IN c.recipe # NoRecipe =>
            \/ d.recipe = c.recipe /\ d.total = c.total /\ d.progress >= c.progress
            \/ facility'[f].out # facility[f].out]_productionVars

(* What a unit is worth in ore, so that every recipe makes what it takes.  *)
CONSTANT Worth
WorthOf(amounts) == MapThenSumSet(LAMBDA r : amounts[r] * Worth[r], Material)
WorthOfAll ==
  MapThenSumSet(LAMBDA f : WorthOf(facility[f].in) + WorthOf(facility[f].out), Facilities)
    + MapThenSumSet(LAMBDA d : remaining[d] * Worth[Ore[d]], DepositId)

(* Mining, crafting and hauling lose and invent nothing, whenever they are *)
(* interrupted: goods that are not in a hopper are still in their deposit. *)
(* A batch that waits for room is the exception (OreNeverInvented).        *)
WorthKept ==
  [][(\A f \in Facilities : facility[f].drill.state # "OutputBlocked")
       => WorthOfAll' = WorthOfAll]_productionVars

(* No interruption spoils anything: neither goods nor work are lost.       *)
NothingSpoilt == WorthKept /\ ProgressKept

(* Drills get out of a deposit what was in it and no more.                 *)
OreNeverInvented ==
  WorthOfAll <= MapThenSumSet(LAMBDA d : Initial[d] * Worth[Ore[d]], DepositId)

(* "Fast-forward production": a distant facility that is fast-forwarded is *)
(* where it would be had it been ticked, if its drill still has the target *)
(* it was ordered to and no patch has just overtaken its current batch.    *)
FastForwardMatchesTicks ==
  \A f \in Drill, n \in Spans :
    LET w == [x |-> facility[f], left |-> remaining] IN
    /\ facility[f].target = facility[f].drill.deposit
    /\ facility[f].drill.progress < Shortened(Interval)
    => FastForwarded(f, w, n) = Ticked(f, w, n)

(* A craft that was begun ends, in goods or at a full hopper, once its     *)
(* power stays on.                                                         *)
CraftsEnd ==
  \A f \in Facilities \ Drill :
    LET underWay == facility[f].craft.state \in {"Crafting", "Unpowered"}
    IN <>[](supply[f] = "Powered") => (underWay ~> ~underWay)
=============================================================================
