------------------------------- MODULE Armor -------------------------------
(***************************************************************************)
(* The one damage formula of the simulation, used for walls and for robots *)
(* (crates/sim-core/src/wall.rs).  Damage and armour are whole numbers and *)
(* reductions are per cent; the code has f32 and rounds once, at the end,  *)
(* as here.                                                                *)
(***************************************************************************)
EXTENDS Integers

AtLeast(a, b) == IF a >= b THEN a ELSE b
AtMost(a, b) == IF a <= b THEN a ELSE b

(* n / d rounded half up, for naturals.                                    *)
Rounded(n, d) == (2 * n + d) \div (2 * d)
Ceiling(n, d) == (n + d - 1) \div d

(* An armour is [flat, percent]; a blow is [raw, pierce, kind].  Energy and *)
(* corrosion pass half of the plating.                                     *)
Plating(armour, blow) ==
  LET pierced == 2 * blow.pierce
                   + (IF blow.kind \in {"Energy", "Corrosive"} THEN armour.flat ELSE 0)
  IN AtLeast(2 * armour.flat - pierced, 0)

EffectiveDamage(armour, blow) ==
  Rounded(AtLeast(2 * blow.raw - Plating(armour, blow), 0) * (100 - armour.percent), 200)

Blunt(raw) == [raw |-> raw, pierce |-> 0, kind |-> "Kinetic"]

(* Nobody's hit points go below nothing.                                   *)
AfterDamage(hp, damage) == AtLeast(hp - damage, 0)
=============================================================================
