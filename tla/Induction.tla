------------------------------ MODULE Induction ------------------------------
(***************************************************************************)
(* Induction over the natural numbers and over finite sets, for sets       *)
(* instead of predicates, and what it says of the folds and sums of the    *)
(* community modules, in which several components are written.             *)
(***************************************************************************)
EXTENDS Integers, Sequences, FiniteSets, FiniteSetsExt, WellFoundedInduction, FiniteSetTheorems, TLAPS

LEMMA LeastNatural ==
  ASSUME NEW T, T \subseteq Nat, T # {}
  PROVE  \E n \in T : \A m \in T : n <= m
  <1>1. PICK R : R = OpToRel(<, Nat)
    OBVIOUS
  <1>2. \A x, y \in Nat : x < y => <<x, y>> \in R
    BY <1>1 DEF OpToRel
  <1>3. IsWellFoundedOn(R, Nat)
    BY <1>1, NatLessThanWellFounded
  <1>4. PICK n \in T : \A m \in T : <<m, n>> \notin R
    BY <1>3, WFMin
  <1>5. ASSUME NEW m \in T PROVE n <= m
    <2>1. n \in Nat /\ m \in Nat
      OBVIOUS
    <2>2. ~(m < n)
      BY <1>2, <1>4, <2>1
    <2> QED
      BY <2>1, <2>2
  <1> QED
    BY <1>5

LEMMA NaturalInduction ==
  ASSUME NEW S, 0 \in S, \A n \in Nat : n \in S => n + 1 \in S
  PROVE  Nat \subseteq S
  <1> SUFFICES ASSUME NEW x \in Nat, x \notin S PROVE FALSE
    OBVIOUS
  <1> DEFINE T == Nat \ S
  <1>1. PICK n \in T : \A m \in T : n <= m
    BY LeastNatural
  <1>2. n # 0 /\ n - 1 \in Nat /\ n - 1 \in S
    BY <1>1
  <1>3. (n - 1) + 1 \in S
    BY <1>2
  <1> QED
    BY <1>1, <1>3

LEMMA FiniteInduction ==
  ASSUME NEW S, IsFiniteSet(S), NEW F, {} \in F,
         \A s \in SUBSET S : s # {} /\ (\A x \in s : s \ {x} \in F) => s \in F
  PROVE  \A s \in SUBSET S : s \in F
  <1> DEFINE N == {n \in Nat : \A s \in SUBSET S : Cardinality(s) = n => s \in F}
  <1>1. \A s \in SUBSET S : IsFiniteSet(s) /\ Cardinality(s) \in Nat
    BY FS_Subset, FS_CardinalityType
  <1>2. 0 \in N
    BY <1>1, FS_EmptySet
  <1>3. ASSUME NEW n \in Nat, n \in N PROVE n + 1 \in N
    <2> SUFFICES ASSUME NEW s \in SUBSET S, Cardinality(s) = n + 1 PROVE s \in F
      OBVIOUS
    <2>1. s # {}
      <3>1. s = {} => Cardinality(s) = 0
        BY <1>1, FS_EmptySet
      <3> QED
        BY <3>1
    <2>2. ASSUME NEW x \in s PROVE s \ {x} \in F
      <3>1. Cardinality(s \ {x}) = Cardinality(s) - 1
        BY <1>1, FS_RemoveElement
      <3>2. Cardinality(s \ {x}) = n /\ s \ {x} \in SUBSET S
        BY <3>1
      <3>3. \A r \in SUBSET S : Cardinality(r) = n => r \in F
        BY <1>3
      <3> QED
        BY <3>2, <3>3
    <2> QED
      BY <2>1, <2>2
  <1> HIDE DEF N
  <1>4. Nat \subseteq N
    BY <1>2, <1>3, NaturalInduction
  <1> QED
    BY <1>1, <1>4 DEF N

LEMMA GreatestOfFinite ==
  ASSUME NEW S \in SUBSET Nat, IsFiniteSet(S), S # {}
  PROVE  \E n \in S : \A m \in S : n >= m
  <1> DEFINE F == {s \in SUBSET S : s # {} => \E n \in s : \A m \in s : n >= m}
  <1>1. {} \in F
    OBVIOUS
  <1>2. ASSUME NEW s \in SUBSET S, s # {}, \A x \in s : s \ {x} \in F PROVE s \in F
    <2>1. PICK x \in s : TRUE
      BY <1>2
    <2>2. CASE s \ {x} = {}
      <3>1. \A m \in s : m = x /\ x >= m
        BY <2>2
      <3> QED
        BY <3>1
    <2>3. CASE s \ {x} # {}
      <3>1. PICK y \in s \ {x} : \A m \in s \ {x} : y >= m
        BY <1>2, <2>3
      <3>2. x \in Nat /\ y \in Nat /\ s \subseteq Nat
        OBVIOUS
      <3>3. CASE x >= y
        <4>1. \A m \in s : x >= m
          BY <3>1, <3>2, <3>3
        <4> QED
          BY <4>1
      <3>4. CASE ~(x >= y)
        <4>1. \A m \in s : y >= m
          BY <3>1, <3>2, <3>4
        <4> QED
          BY <4>1
      <3> QED
        BY <3>3, <3>4
    <2> QED
      BY <2>2, <2>3
  <1> HIDE DEF F
  <1>3. \A s \in SUBSET S : s \in F
    BY <1>1, <1>2, FiniteInduction
  <1> QED
    BY <1>3 DEF F

(* A function over the subsets of a finite set that is defined from its    *)
(* values at smaller subsets exists.                                       *)
FoldOf(g, S, A, base, step, pick) ==
  /\ g \in [SUBSET S -> A]
  /\ \A s \in SUBSET S :
       g[s] = IF s = {} THEN base ELSE step[<<s, g[s \ {pick[s]}]>>]

LEMMA FoldExists ==
  ASSUME NEW S, IsFiniteSet(S), NEW A, NEW base \in A, NEW step \in [(SUBSET S) \X A -> A],
         NEW pick, \A s \in SUBSET S : s # {} => pick[s] \in s
  PROVE  \E g : FoldOf(g, S, A, base, step, pick)
  <1> DEFINE Solves(g, s) == g[s] = IF s = {} THEN base ELSE step[<<s, g[s \ {pick[s]}]>>]
             N == {n \in Nat : \E g \in [SUBSET S -> A] :
                      \A s \in SUBSET S : Cardinality(s) <= n => Solves(g, s)}
  <1>1. \A s \in SUBSET S : IsFiniteSet(s) /\ Cardinality(s) \in Nat
    BY FS_Subset, FS_CardinalityType
  <1>2. \A s \in SUBSET S : Cardinality(s) = 0 <=> s = {}
    BY <1>1, FS_EmptySet
  <1>3. 0 \in N
    <2> DEFINE g == [s \in SUBSET S |-> base]
    <2>1. g \in [SUBSET S -> A] /\ g[{}] = base
      OBVIOUS
    <2>2. \A s \in SUBSET S : Cardinality(s) <= 0 => Solves(g, s)
      BY <1>1, <1>2, <2>1
    <2> QED
      BY <2>1, <2>2
  <1>4. ASSUME NEW n \in Nat, n \in N PROVE n + 1 \in N
    <2>1. PICK g \in [SUBSET S -> A] : \A s \in SUBSET S : Cardinality(s) <= n => Solves(g, s)
      BY <1>4
    <2> DEFINE Next(s) == step[<<s, g[s \ {pick[s]}]>>]
               h == [s \in SUBSET S |-> IF Cardinality(s) <= n \/ s = {} THEN g[s] ELSE Next(s)]
    <2>2. ASSUME NEW s \in SUBSET S, s # {}
          PROVE /\ Next(s) \in A /\ s \ {pick[s]} \in SUBSET S
                /\ Cardinality(s \ {pick[s]}) = Cardinality(s) - 1
      <3>1. pick[s] \in s /\ pick[s] \in S
        BY <2>2
      <3>2. g[s \ {pick[s]}] \in A
        OBVIOUS
      <3>3. Cardinality(s \ {pick[s]}) = Cardinality(s) - 1
        BY <1>1, <3>1, FS_RemoveElement
      <3> QED
        BY <3>1, <3>2, <3>3
    <2>3. h \in [SUBSET S -> A]
      BY <2>2
    <2>4. ASSUME NEW s \in SUBSET S, Cardinality(s) <= n + 1 PROVE Solves(h, s)
      <3>1. CASE s = {}
        <4>0. Cardinality(s) <= n
          BY <1>2, <3>1
        <4>1. Solves(g, s)
          BY <2>1, <4>0
        <4>2. h[s] = g[s]
          BY <3>1
        <4> QED
          BY <3>1, <4>1, <4>2
      <3>2. CASE s # {}
        <4>0. Cardinality(s \ {pick[s]}) = Cardinality(s) - 1 /\ Cardinality(s) \in Nat
          BY <1>1, <2>2, <3>2
        <4>1. Cardinality(s \ {pick[s]}) <= n /\ s \ {pick[s]} \in SUBSET S
          BY <2>4, <4>0
        <4>2. h[s \ {pick[s]}] = g[s \ {pick[s]}]
          BY <4>1
        <4>3. h[s] = Next(s)
          <5>1. CASE Cardinality(s) <= n
            <6>1. Solves(g, s)
              BY <2>1, <5>1
            <6>2. h[s] = g[s]
              BY <5>1
            <6> QED
              BY <3>2, <6>1, <6>2
          <5>2. CASE ~(Cardinality(s) <= n)
            BY <3>2, <5>2
          <5> QED
            BY <5>1, <5>2
        <4> QED
          BY <3>2, <4>2, <4>3
      <3> QED
        BY <3>1, <3>2
    <2> HIDE DEF h
    <2>5. \E f \in [SUBSET S -> A] : \A s \in SUBSET S : Cardinality(s) <= n + 1 => Solves(f, s)
      BY <2>3, <2>4
    <2> HIDE DEF Solves
    <2> QED
      BY <2>5
  <1> HIDE DEF N
  <1>5. Nat \subseteq N
    BY <1>3, <1>4, NaturalInduction
  <1>6. Cardinality(S) \in N
    BY <1>1, <1>5
  <1>7. \A s \in SUBSET S : Cardinality(s) <= Cardinality(S)
    BY FS_Subset
  <1>8. PICK g \in [SUBSET S -> A] : \A s \in SUBSET S : Cardinality(s) <= Cardinality(S) => Solves(g, s)
    BY <1>6 DEF N
  <1> QED
    BY <1>7, <1>8 DEF FoldOf

-----------------------------------------------------------------------------
(* Sums.                                                                   *)

SumOf(f, S) == MapThenSumSet(LAMBDA x : f[x], S)

(* Adds(g, f, S): g[s] is what f makes over s, in any order.               *)
Adds(g, f, S) ==
  /\ g \in [SUBSET S -> Nat] /\ g[{}] = 0
  /\ \A s \in SUBSET S : \A x \in s : g[s] = f[x] + g[s \ {x}]

LEMMA SumAdds ==
  ASSUME NEW S, IsFiniteSet(S), NEW f \in [S -> Nat]
  PROVE  \E g : Adds(g, f, S) /\ SumOf(f, S) = g[S]
  <1> DEFINE Any(s) == CHOOSE x \in s : TRUE
             Solves(g) == g = [s \in SUBSET S |-> IF s = {} THEN 0 ELSE f[Any(s)] + g[s \ {Any(s)}]]
  <1>1. \A s \in SUBSET S : s # {} => Any(s) \in s
    OBVIOUS
  <1> HIDE DEF Any
  <1>2. \E g \in [SUBSET S -> Nat] : Solves(g)
    <2> DEFINE pick == [s \in SUBSET S |-> Any(s)]
               step == [p \in (SUBSET S) \X Nat |-> IF p[1] = {} THEN 0 ELSE f[Any(p[1])] + p[2]]
    <2>1. step \in [(SUBSET S) \X Nat -> Nat] /\ 0 \in Nat
      BY <1>1
    <2>2. \A s \in SUBSET S : s # {} => pick[s] \in s
      BY <1>1
    <2> HIDE DEF step, pick
    <2>3. PICK g : FoldOf(g, S, Nat, 0, step, pick)
      BY <2>1, <2>2, FoldExists
    <2>4. ASSUME NEW s \in SUBSET S, s # {} PROVE g[s] = f[Any(s)] + g[s \ {Any(s)}]
      <3>1. pick[s] = Any(s) /\ Any(s) \in S /\ s \ {Any(s)} \in SUBSET S
        BY <1>1, <2>4 DEF pick
      <3>2. step[<<s, g[s \ {Any(s)}]>>] = f[Any(s)] + g[s \ {Any(s)}]
        <4>1. g[s \ {Any(s)}] \in Nat
          BY <2>3, <3>1 DEF FoldOf
        <4> QED
          BY <2>4, <4>1 DEF step
      <3>3. g[s] = step[<<s, g[s \ {pick[s]}]>>]
        BY <2>3, <2>4 DEF FoldOf
      <3> QED
        BY <3>1, <3>2, <3>3
    <2> DEFINE h == [s \in SUBSET S |-> IF s = {} THEN 0 ELSE f[Any(s)] + g[s \ {Any(s)}]]
    <2>5. \A s \in SUBSET S : g[s] = h[s]
      BY <2>3, <2>4 DEF FoldOf
    <2>6. g \in [SUBSET S -> Nat] /\ g = h
      BY <2>3, <2>5 DEF FoldOf
    <2> QED
      BY <2>6
  <1> DEFINE iter == CHOOSE g : Solves(g)
  <1>3. Solves(iter)
    BY <1>2
  <1>4. SumOf(f, S) = iter[S]
    BY DEF SumOf, MapThenSumSet, MapThenFoldSet, Any
  <1> HIDE DEF iter
  <1>5. iter[{}] = 0
    BY <1>3
  <1>6. \A s \in SUBSET S : s # {} => iter[s] = f[Any(s)] + iter[s \ {Any(s)}]
    BY <1>3
  <1> DEFINE F == {s \in SUBSET S : iter[s] \in Nat
                                       /\ \A x \in s : iter[s \ {x}] \in Nat
                                                       /\ iter[s] = f[x] + iter[s \ {x}]}
  <1>7. {} \in F
    BY <1>5
  <1>8. ASSUME NEW s \in SUBSET S, s # {}, \A x \in s : s \ {x} \in F PROVE s \in F
    <2>1. Any(s) \in s /\ iter[s] = f[Any(s)] + iter[s \ {Any(s)}] /\ iter[s \ {Any(s)}] \in Nat
      BY <1>1, <1>6, <1>8
    <2>2. iter[s] \in Nat
      BY <2>1
    <2>3. ASSUME NEW x \in s, x # Any(s) PROVE iter[s] = f[x] + iter[s \ {x}]
      <3> DEFINE y == Any(s)
                 rest == (s \ {x}) \ {y}
      <3>1. y \in s \ {x} /\ x \in s \ {y} /\ rest = (s \ {y}) \ {x}
        BY <2>1, <2>3
      <3>2. s \ {x} \in F /\ s \ {y} \in F
        BY <1>8, <2>1
      <3>3. iter[s \ {x}] = f[y] + iter[rest]
        BY <3>1, <3>2
      <3>4. iter[s \ {y}] = f[x] + iter[rest]
        BY <3>1, <3>2
      <3>5. iter[rest] \in Nat
        BY <3>1, <3>2
      <3>6. f[x] \in Nat /\ f[y] \in Nat
        BY <2>1
      <3> HIDE DEF y, rest
      <3>7. iter[s] = f[y] + iter[s \ {y}]
        BY <2>1 DEF y
      <3> QED
        BY <3>3, <3>4, <3>5, <3>6, <3>7
    <2>4. ASSUME NEW x \in s PROVE iter[s] = f[x] + iter[s \ {x}]
      BY <2>1, <2>3
    <2>5. ASSUME NEW x \in s PROVE iter[s \ {x}] \in Nat
      BY <1>8
    <2> QED
      BY <2>2, <2>4, <2>5
  <1> HIDE DEF F
  <1>9. \A s \in SUBSET S : s \in F
    BY <1>7, <1>8, FiniteInduction
  <1>10. iter = [s \in SUBSET S |-> iter[s]]
    BY <1>3
  <1>11. Adds(iter, f, S)
    BY <1>5, <1>9, <1>10 DEF Adds, F
  <1> QED
    BY <1>4, <1>11

LEMMA AddsDiffer ==
  ASSUME NEW S, IsFiniteSet(S), NEW f \in [S -> Nat], NEW h \in [S -> Nat], NEW T \in SUBSET S,
         \A x \in T : f[x] = h[x], NEW g, Adds(g, f, S), NEW k, Adds(k, h, S)
  PROVE  g[T] = k[T]
  <1> DEFINE F == {s \in SUBSET T : g[s] = k[s]}
  <1>1. {} \in F
    BY DEF Adds
  <1>2. ASSUME NEW s \in SUBSET T, s # {}, \A x \in s : s \ {x} \in F PROVE s \in F
    <2>1. PICK x \in s : TRUE
      BY <1>2
    <2>2. s \in SUBSET S /\ f[x] = h[x] /\ g[s \ {x}] = k[s \ {x}]
      BY <1>2
    <2> QED
      BY <2>2 DEF Adds
  <1>3. IsFiniteSet(T)
    BY FS_Subset
  <1> HIDE DEF F
  <1>4. \A s \in SUBSET T : s \in F
    BY <1>1, <1>2, <1>3, FiniteInduction
  <1> QED
    BY <1>4 DEF F

LEMMA SumIsNat ==
  ASSUME NEW S, IsFiniteSet(S), NEW f \in [S -> Nat]
  PROVE  SumOf(f, S) \in Nat /\ \A x \in S : f[x] <= SumOf(f, S)
  <1>1. PICK g : Adds(g, f, S) /\ SumOf(f, S) = g[S]
    BY SumAdds
  <1>2. g[S] \in Nat /\ \A x \in S : g[S \ {x}] \in Nat /\ g[S] = f[x] + g[S \ {x}]
    BY <1>1 DEF Adds
  <1>3. ASSUME NEW x \in S PROVE f[x] <= g[S]
    <2>1. g[S \ {x}] \in Nat /\ g[S] = f[x] + g[S \ {x}] /\ f[x] \in Nat
      BY <1>2
    <2> QED
      BY <2>1
  <1> QED
    BY <1>1, <1>2, <1>3

(* Two functions that differ at one place.                                 *)
Alike(f, h, S, x) ==
  f \in [S -> Nat] /\ h \in [S -> Nat] /\ x \in S /\ \A y \in S : y # x => f[y] = h[y]

LEMMA SumChanges ==
  ASSUME NEW S, IsFiniteSet(S), NEW f, NEW h, NEW x, Alike(f, h, S, x)
  PROVE  SumOf(h, S) = SumOf(f, S) - f[x] + h[x]
  <1>0. f \in [S -> Nat] /\ h \in [S -> Nat] /\ x \in S /\ \A y \in S : y # x => f[y] = h[y]
    BY DEF Alike
  <1>1. PICK g : Adds(g, f, S) /\ SumOf(f, S) = g[S]
    BY <1>0, SumAdds
  <1>2. PICK k : Adds(k, h, S) /\ SumOf(h, S) = k[S]
    BY <1>0, SumAdds
  <1>3. g[S \ {x}] = k[S \ {x}]
    BY <1>0, <1>1, <1>2, AddsDiffer
  <1>4. g[S] = f[x] + g[S \ {x}] /\ k[S] = h[x] + k[S \ {x}]
    BY <1>0, <1>1, <1>2 DEF Adds
  <1>5. g[S \ {x}] \in Nat /\ f[x] \in Nat /\ h[x] \in Nat
    BY <1>0, <1>1 DEF Adds
  <1> QED
    BY <1>1, <1>2, <1>3, <1>4, <1>5

LEMMA SumIsZero ==
  ASSUME NEW S, IsFiniteSet(S), NEW f \in [S -> Nat], \A x \in S : f[x] = 0
  PROVE  SumOf(f, S) = 0
  <1>1. PICK g : Adds(g, f, S) /\ SumOf(f, S) = g[S]
    BY SumAdds
  <1> DEFINE F == {s \in SUBSET S : g[s] = 0}
  <1>2. {} \in F
    BY <1>1 DEF Adds
  <1>3. ASSUME NEW s \in SUBSET S, s # {}, \A x \in s : s \ {x} \in F PROVE s \in F
    <2>1. PICK x \in s : TRUE
      BY <1>3
    <2>2. g[s] = f[x] + g[s \ {x}] /\ g[s \ {x}] = 0 /\ f[x] = 0
      BY <1>1, <1>3 DEF Adds
    <2> QED
      BY <2>2
  <1> HIDE DEF F
  <1>4. \A s \in SUBSET S : s \in F
    BY <1>2, <1>3, FiniteInduction
  <1> QED
    BY <1>1, <1>4 DEF F

(* Two sums over the same things.                                          *)
LEMMA SumsAdd ==
  ASSUME NEW S, IsFiniteSet(S), NEW f \in [S -> Nat], NEW g \in [S -> Nat], NEW h \in [S -> Nat],
         \A x \in S : h[x] = f[x] + g[x]
  PROVE  SumOf(h, S) = SumOf(f, S) + SumOf(g, S)
  <1>1. PICK a : Adds(a, f, S) /\ SumOf(f, S) = a[S]
    BY SumAdds
  <1>2. PICK b : Adds(b, g, S) /\ SumOf(g, S) = b[S]
    BY SumAdds
  <1>3. PICK c : Adds(c, h, S) /\ SumOf(h, S) = c[S]
    BY SumAdds
  <1> DEFINE F == {s \in SUBSET S : c[s] = a[s] + b[s]}
  <1>4. {} \in F
    BY <1>1, <1>2, <1>3 DEF Adds
  <1>5. ASSUME NEW s \in SUBSET S, s # {}, \A x \in s : s \ {x} \in F PROVE s \in F
    <2>1. PICK x \in s : TRUE
      BY <1>5
    <2>2. /\ a[s] = f[x] + a[s \ {x}] /\ a[s \ {x}] \in Nat
          /\ b[s] = g[x] + b[s \ {x}] /\ b[s \ {x}] \in Nat
          /\ c[s] = h[x] + c[s \ {x}]
      BY <1>1, <1>2, <1>3 DEF Adds
    <2>3. c[s \ {x}] = a[s \ {x}] + b[s \ {x}] /\ h[x] = f[x] + g[x] /\ f[x] \in Nat /\ g[x] \in Nat
      BY <1>5
    <2>4. c[s] = a[s] + b[s]
      BY <2>2, <2>3
    <2> QED
      BY <2>4
  <1> HIDE DEF F
  <1>6. \A s \in SUBSET S : s \in F
    BY <1>4, <1>5, FiniteInduction
  <1>7. c[S] = a[S] + b[S]
    BY <1>6 DEF F
  <1> QED
    BY <1>1, <1>2, <1>3, <1>7

LEMMA SumScales ==
  ASSUME NEW S, IsFiniteSet(S), NEW m \in Nat, NEW f \in [S -> Nat], NEW h \in [S -> Nat],
         \A x \in S : h[x] = f[x] * m
  PROVE  SumOf(h, S) = SumOf(f, S) * m
  <1>1. PICK a : Adds(a, f, S) /\ SumOf(f, S) = a[S]
    BY SumAdds
  <1>2. PICK b : Adds(b, h, S) /\ SumOf(h, S) = b[S]
    BY SumAdds
  <1>3. \A i, j \in Nat : (i + j) * m = i * m + j * m
    OBVIOUS
  <1> DEFINE F == {s \in SUBSET S : b[s] = a[s] * m}
  <1>4. {} \in F
    BY <1>1, <1>2 DEF Adds
  <1>5. ASSUME NEW s \in SUBSET S, s # {}, \A x \in s : s \ {x} \in F PROVE s \in F
    <2>1. PICK x \in s : TRUE
      BY <1>5
    <2>2. /\ a[s] = f[x] + a[s \ {x}] /\ a[s \ {x}] \in Nat
          /\ b[s] = h[x] + b[s \ {x}] /\ f[x] \in Nat /\ h[x] = f[x] * m
      BY <1>1, <1>2 DEF Adds
    <2>3. b[s \ {x}] = a[s \ {x}] * m
      BY <1>5
    <2>4. b[s] = a[s] * m
      BY <1>3, <2>2, <2>3
    <2> QED
      BY <2>4
  <1> HIDE DEF F
  <1>6. \A s \in SUBSET S : s \in F
    BY <1>4, <1>5, FiniteInduction
  <1> QED
    BY <1>1, <1>2, <1>6 DEF F

(* One more to add up.                                                     *)
LEMMA SumGrows ==
  ASSUME NEW S, IsFiniteSet(S), NEW x, x \notin S, NEW f \in [S -> Nat],
         NEW h \in [S \cup {x} -> Nat], \A y \in S : h[y] = f[y]
  PROVE  /\ SumOf(h, S \cup {x}) = SumOf(f, S) + h[x]
         /\ SumOf(f, S) \in Nat
  <1> DEFINE T == S \cup {x}
  <1>1. IsFiniteSet(T)
    BY FS_AddElement
  <1>2. PICK g : Adds(g, h, T) /\ SumOf(h, T) = g[T]
    BY <1>1, SumAdds
  <1>3. PICK k : Adds(k, f, S) /\ SumOf(f, S) = k[S]
    BY SumAdds
  <1> DEFINE F == {s \in SUBSET S : g[s] = k[s]}
  <1>4. {} \in F
    BY <1>2, <1>3 DEF Adds
  <1>5. ASSUME NEW s \in SUBSET S, s # {}, \A y \in s : s \ {y} \in F PROVE s \in F
    <2>1. PICK y \in s : TRUE
      BY <1>5
    <2>2. g[s \ {y}] = k[s \ {y}] /\ h[y] = f[y]
      BY <1>5
    <2>3. g[s] = h[y] + g[s \ {y}]
      BY <1>2 DEF Adds
    <2>4. k[s] = f[y] + k[s \ {y}]
      BY <1>3 DEF Adds
    <2> QED
      BY <2>2, <2>3, <2>4
  <1> HIDE DEF F
  <1>6. \A s \in SUBSET S : s \in F
    BY <1>4, <1>5, FiniteInduction
  <1>7. g[S] = k[S]
    BY <1>6 DEF F
  <1>8. T \ {x} = S /\ x \in T
    OBVIOUS
  <1>9. g[T] = h[x] + g[S]
    BY <1>2, <1>8 DEF Adds
  <1>10. k[S] \in Nat /\ h[x] \in Nat
    BY <1>3 DEF Adds
  <1> QED
    BY <1>2, <1>3, <1>7, <1>9, <1>10

-----------------------------------------------------------------------------
(* A function over 0 .. n that is defined from its value one place before. *)
Stepwise(g, n, base, step) ==
  g = [i \in 0 .. n |-> IF i = 0 THEN base ELSE step[<<g[i - 1], i>>]]

LEMMA StepwiseExists ==
  ASSUME NEW n \in Nat, NEW A, NEW base \in A, NEW step \in [A \X (1 .. n) -> A]
  PROVE  \E g : Stepwise(g, n, base, step) /\ g \in [0 .. n -> A]
  <1> DEFINE N == {m \in Nat : m <= n => \E g : Stepwise(g, m, base, step) /\ g \in [0 .. m -> A]}
  <1>1. 0 \in N
    <2> DEFINE g == [i \in 0 .. 0 |-> base]
    <2>1. Stepwise(g, 0, base, step) /\ g \in [0 .. 0 -> A]
      BY DEF Stepwise
    <2> QED
      BY <2>1
  <1>2. ASSUME NEW m \in Nat, m \in N PROVE m + 1 \in N
    <2> SUFFICES ASSUME m + 1 <= n
                 PROVE  \E g : Stepwise(g, m + 1, base, step) /\ g \in [0 .. m + 1 -> A]
      OBVIOUS
    <2>1. PICK g : Stepwise(g, m, base, step) /\ g \in [0 .. m -> A]
      BY <1>2
    <2> DEFINE h == [i \in 0 .. m + 1 |-> IF i <= m THEN g[i] ELSE step[<<g[m], m + 1>>]]
    <2>2. step[<<g[m], m + 1>>] \in A
      BY <2>1
    <2>3. h \in [0 .. m + 1 -> A]
      BY <2>1, <2>2
    <2>4. ASSUME NEW i \in 0 .. m + 1
          PROVE  h[i] = IF i = 0 THEN base ELSE step[<<h[i - 1], i>>]
      <3>1. CASE i = 0
        <4>1. g[0] = base
          BY <2>1 DEF Stepwise
        <4> QED
          BY <3>1, <4>1
      <3>2. CASE i # 0 /\ i <= m
        <4>1. g[i] = step[<<g[i - 1], i>>]
          BY <2>1, <3>2 DEF Stepwise
        <4>2. h[i] = g[i] /\ h[i - 1] = g[i - 1]
          BY <3>2
        <4> QED
          BY <3>2, <4>1, <4>2
      <3>3. CASE i = m + 1
        <4>1. h[i] = step[<<g[m], i>>] /\ h[m] = g[m] /\ i - 1 = m /\ i # 0
          BY <3>3
        <4> HIDE DEF h
        <4>2. h[i - 1] = g[m]
          BY <4>1
        <4> QED
          BY <4>1, <4>2, Zenon
      <3> QED
        BY <3>1, <3>2, <3>3
    <2> HIDE DEF h
    <2>5. Stepwise(h, m + 1, base, step)
      BY <2>3, <2>4 DEF Stepwise
    <2> QED
      BY <2>3, <2>5
  <1> HIDE DEF N
  <1>3. n \in N
    BY <1>1, <1>2, NaturalInduction
  <1> QED
    BY <1>3 DEF N

-----------------------------------------------------------------------------
(* What the empty sequence is in, and every longer one that has its front  *)
(* in it, all sequences are in.                                            *)
LEMMA AppendInduction ==
  ASSUME NEW A, NEW S, <<>> \in S, \A s \in Seq(A), x \in A : s \in S => Append(s, x) \in S
  PROVE  Seq(A) \subseteq S
  <1> DEFINE N == {n \in Nat : \A s \in Seq(A) : Len(s) = n => s \in S}
  <1>1. 0 \in N
    OBVIOUS
  <1>2. ASSUME NEW n \in Nat, n \in N PROVE n + 1 \in N
    <2> SUFFICES ASSUME NEW s \in Seq(A), Len(s) = n + 1 PROVE s \in S
      OBVIOUS
    <2> DEFINE front == [i \in 1 .. n |-> s[i]]
    <2>1. front \in Seq(A) /\ Len(front) = n /\ s[n + 1] \in A
      OBVIOUS
    <2>2. s = Append(front, s[n + 1])
      OBVIOUS
    <2> HIDE DEF front
    <2>3. front \in S
      BY <1>2, <2>1
    <2> QED
      BY <2>1, <2>2, <2>3
  <1> HIDE DEF N
  <1>3. Nat \subseteq N
    BY <1>1, <1>2, NaturalInduction
  <1> QED
    BY <1>3 DEF N
=============================================================================
