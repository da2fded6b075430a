----------------------------- MODULE Modifiers -----------------------------
(***************************************************************************)
(* The faction modifier network: crates/sim-core/src/modifier.rs.  A       *)
(* technology contributes deltas, in thousandths, to a kind of value in a  *)
(* stacking group; deltas add up within a group and groups multiply.       *)
(* Everything is integer arithmetic with one rounding at the end.  A       *)
(* contribution is [kind, group, delta]; a total is by <<kind, group>>.    *)
(***************************************************************************)
EXTENDS Integers, FiniteSetsExt

CONSTANTS ModifierKind, ModifierGroup, MaxGroupFactor

Scale == 1000

(* Division rounded half away from zero, for a positive divisor.           *)
DivRound(n, d) ==
  IF d = 0 THEN 0
  ELSE IF n >= 0 THEN (2 * n + d) \div (2 * d) ELSE -((d - 2 * n) \div (2 * d))

(* Each source's contributions are a set of records.                       *)
Totals(contributions, sources) ==
  [b \in ModifierKind \X ModifierGroup |->
     MapThenSumSet(LAMBDA s :
       MapThenSumSet(LAMBDA m : IF <<m.kind, m.group>> = b THEN m.delta ELSE 0,
                     contributions[s]),
       sources)]

(* A group that sums to nothing takes no part; the others are kept within  *)
(* nought and the cap.                                                     *)
GroupFactor(total) ==
  IF Scale + total < 0 THEN 0
  ELSE IF Scale + total > MaxGroupFactor THEN MaxGroupFactor ELSE Scale + total

ActiveGroups(totals, kind) == {g \in ModifierGroup : totals[<<kind, g>>] # 0}

Numerator(totals, kind) ==
  FoldSet(LAMBDA g, product : product * GroupFactor(totals[<<kind, g>>]), 1, ActiveGroups(totals, kind))
Denominator(totals, kind) ==
  FoldSet(LAMBDA g, product : product * Scale, 1, ActiveGroups(totals, kind))

MultiplierMilli(totals, kind) ==
  DivRound(Numerator(totals, kind) * Scale, Denominator(totals, kind))
ValueFor(totals, kind, base) ==
  DivRound(base * Numerator(totals, kind), Denominator(totals, kind))

(* A duration is divided by a rate, and never gets down to nothing.        *)
DurationTicksFor(totals, kind, base) ==
  IF Numerator(totals, kind) = 0 THEN (IF base < 1 THEN 1 ELSE base)
  ELSE LET scaled == DivRound(base * Denominator(totals, kind), Numerator(totals, kind))
       IN IF scaled < 1 THEN 1 ELSE scaled
=============================================================================
