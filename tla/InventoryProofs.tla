--------------------------- MODULE InventoryProofs ---------------------------
(***************************************************************************)
(* Theorems about the slot-level containers, for any containers,           *)
(* resources, capacities, stack limits and volumes: the audit of           *)
(* validate_invariants always passes, what was promised can be kept and    *)
(* undone, and the walks over the slots implement the ledger.              *)
(***************************************************************************)
EXTENDS Inventory, Induction, SequenceTheorems

-----------------------------------------------------------------------------
(* Sums over sequences of numbers.                                         *)

LEMMA TotalIsSum ==
  ASSUME NEW f
  PROVE  Total(f) = SumOf(f, DOMAIN f)
  BY DEF Total, SumOf

LEMMA TotalIsNat ==
  ASSUME NEW S, IsFiniteSet(S), NEW f \in [S -> Nat]
  PROVE  Total(f) \in Nat /\ \A x \in S : f[x] <= Total(f)
  <1>1. DOMAIN f = S
    OBVIOUS
  <1> QED
    BY <1>1, TotalIsSum, SumIsNat

LEMMA Places ==
  ASSUME NEW A, NEW f \in Seq(A)
  PROVE  /\ DOMAIN f = 1 .. Len(f) /\ Len(f) \in Nat /\ f \in [1 .. Len(f) -> A]
         /\ IsFiniteSet(1 .. Len(f))
  BY FS_Interval

LEMMA TotalOfSeq ==
  ASSUME NEW f \in Seq(Nat)
  PROVE  Total(f) \in Nat /\ \A i \in DOMAIN f : f[i] <= Total(f)
  <1>1. PICK S : f \in [S -> Nat] /\ IsFiniteSet(S) /\ DOMAIN f = S
    BY Places
  <1> QED
    BY <1>1, TotalIsNat

LEMMA TotalOfNone == Total(<<>>) = 0
  <1>1. SumOf(<<>>, {}) = 0
    <2>1. PICK S, f : S = {} /\ f = <<>>
      OBVIOUS
    <2>2. f \in [S -> Nat] /\ \A x \in S : f[x] = 0
      BY <2>1
    <2>3. IsFiniteSet(S)
      BY <2>1, FS_EmptySet
    <2> QED
      BY <2>1, <2>2, <2>3, SumIsZero, Zenon
  <1>2. DOMAIN <<>> = {}
    OBVIOUS
  <1> QED
    BY <1>1, <1>2, TotalIsSum

LEMMA TotalAppend ==
  ASSUME NEW f \in Seq(Nat), NEW n \in Nat
  PROVE  Total(Append(f, n)) = Total(f) + n
  <1> DEFINE g == Append(f, n)
             S == 1 .. Len(f)
             x == Len(f) + 1
  <1>1. f \in [S -> Nat] /\ DOMAIN f = S /\ IsFiniteSet(S) /\ x \notin S
    BY Places
  <1>2. g \in [S \cup {x} -> Nat] /\ DOMAIN g = S \cup {x} /\ g[x] = n /\ \A y \in S : g[y] = f[y]
    <2>1. g \in Seq(Nat) /\ Len(g) = x /\ S \cup {x} = 1 .. x
      OBVIOUS
    <2>2. g \in [S \cup {x} -> Nat] /\ DOMAIN g = S \cup {x}
      BY <2>1, Places, Zenon
    <2> QED
      BY <2>2
  <1> HIDE DEF g, S, x
  <1>3. SumOf(g, S \cup {x}) = SumOf(f, S) + g[x]
    BY <1>1, <1>2, SumGrows
  <1>4. Total(f) = SumOf(f, S) /\ Total(g) = SumOf(g, S \cup {x})
    BY <1>1, <1>2, TotalIsSum
  <1> QED
    BY <1>2, <1>3, <1>4 DEF g

LEMMA TotalConcat ==
  ASSUME NEW f \in Seq(Nat)
  PROVE  \A g \in Seq(Nat) : Total(f \o g) = Total(f) + Total(g)
  <1> DEFINE S == {g \in Seq(Nat) : Total(f \o g) = Total(f) + Total(g)}
  <1>0. Total(f) \in Nat
    BY TotalOfSeq
  <1>1. <<>> \in S
    <2>1. f \o <<>> = f
      OBVIOUS
    <2> QED
      BY <1>0, <2>1, TotalOfNone
  <1>2. ASSUME NEW g \in Seq(Nat), NEW n \in Nat, g \in S PROVE Append(g, n) \in S
    <2>1. f \o Append(g, n) = Append(f \o g, n) /\ f \o g \in Seq(Nat) /\ Append(g, n) \in Seq(Nat)
      OBVIOUS
    <2>2. Total(Append(f \o g, n)) = Total(f \o g) + n /\ Total(Append(g, n)) = Total(g) + n
      BY <2>1, TotalAppend, Zenon
    <2>3. Total(f \o g) = Total(f) + Total(g) /\ Total(g) \in Nat
      BY <1>2, TotalOfSeq
    <2>4. Total(f \o Append(g, n)) = Total(f) + Total(Append(g, n))
      BY <1>0, <2>1, <2>2, <2>3
    <2> QED
      BY <2>1, <2>4, Zenon
  <1> HIDE DEF S
  <1>3. Seq(Nat) \subseteq S
    BY <1>1, <1>2, AppendInduction
  <1> QED
    BY <1>3 DEF S

LEMMA Reversed ==
  ASSUME NEW A, NEW f \in Seq(A)
  PROVE  /\ Reverse(f) \in Seq(A) /\ Len(Reverse(f)) = Len(f)
         /\ \A i \in 1 .. Len(f) : Reverse(f)[i] = f[(Len(f) - i) + 1]
  BY DEF Reverse

LEMMA TotalReverse ==
  \A f \in Seq(Nat) : Total(Reverse(f)) = Total(f)
  <1> DEFINE S == {f \in Seq(Nat) : Total(Reverse(f)) = Total(f)}
  <1>1. <<>> \in S
    <2>1. Reverse(<<>>) = <<>>
      BY DEF Reverse
    <2> QED
      BY <2>1
  <1>2. ASSUME NEW f \in Seq(Nat), NEW n \in Nat, f \in S PROVE Append(f, n) \in S
    <2>1. Append(f, n) \in Seq(Nat) /\ <<n>> \in Seq(Nat) /\ Reverse(f) \in Seq(Nat)
      BY Reversed
    <2>2. Reverse(Append(f, n)) = <<n>> \o Reverse(f)
      <3>1. PICK r \in Seq(Nat) : /\ r = Reverse(f) /\ Len(r) = Len(f)
                                  /\ \A i \in 1 .. Len(f) : r[i] = f[(Len(f) - i) + 1]
        BY Reversed
      <3>2. PICK q \in Seq(Nat) :
              /\ q = Reverse(Append(f, n)) /\ Len(q) = Len(f) + 1
              /\ \A i \in 1 .. Len(f) + 1 : q[i] = Append(f, n)[((Len(f) + 1) - i) + 1]
        <4>1. PICK h \in Seq(Nat) : h = Append(f, n)
          BY <2>1, Zenon
        <4>2. Len(h) = Len(f) + 1
          BY <4>1
        <4>3. /\ Reverse(h) \in Seq(Nat) /\ Len(Reverse(h)) = Len(h)
              /\ \A i \in 1 .. Len(h) : Reverse(h)[i] = h[(Len(h) - i) + 1]
          BY Reversed
        <4> QED
          BY <4>1, <4>2, <4>3
      <3>3. /\ <<n>> \o r \in Seq(Nat) /\ Len(<<n>> \o r) = Len(f) + 1
            /\ \A i \in 1 .. Len(f) + 1 : (<<n>> \o r)[i] = IF i = 1 THEN n ELSE r[i - 1]
        BY <3>1
      <3>4. ASSUME NEW i \in 1 .. Len(f) + 1 PROVE q[i] = (<<n>> \o r)[i]
        <4>1. CASE i = 1
          <5>1. q[1] = Append(f, n)[((Len(f) + 1) - 1) + 1] /\ (<<n>> \o r)[1] = n
            BY <3>2, <3>3
          <5>2. Append(f, n)[((Len(f) + 1) - 1) + 1] = n
            OBVIOUS
          <5> QED
            BY <4>1, <5>1, <5>2
        <4>2. CASE i # 1
          <5>1. (<<n>> \o r)[i] = f[(Len(f) - (i - 1)) + 1]
            <6>1. (<<n>> \o r)[i] = r[i - 1] /\ i - 1 \in 1 .. Len(f)
              BY <3>3, <4>2
            <6>2. PICK k \in 1 .. Len(f) : k = i - 1
              BY <6>1
            <6>3. r[k] = f[(Len(f) - k) + 1]
              BY <3>1
            <6> QED
              BY <6>1, <6>2, <6>3, Zenon
          <5>2. q[i] = f[((Len(f) + 1) - i) + 1]
            <6>1. q[i] = Append(f, n)[((Len(f) + 1) - i) + 1] /\ ((Len(f) + 1) - i) + 1 \in 1 .. Len(f)
              BY <3>2, <4>2
            <6>2. PICK k \in 1 .. Len(f) : k = ((Len(f) + 1) - i) + 1
              BY <6>1
            <6>3. Append(f, n)[k] = f[k]
              OBVIOUS
            <6> QED
              BY <6>1, <6>2, <6>3
          <5>3. (Len(f) - (i - 1)) + 1 = ((Len(f) + 1) - i) + 1
            OBVIOUS
          <5> QED
            BY <5>1, <5>2, <5>3, Zenon
        <4> QED
          BY <4>1, <4>2, Zenon
      <3>5. q = <<n>> \o r
        <4>1. PICK p \in Seq(Nat) : p = <<n>> \o r
          BY <3>3, Zenon
        <4>2. Len(q) = Len(p) /\ \A i \in 1 .. Len(q) : q[i] = p[i]
          BY <3>2, <3>3, <3>4, <4>1
        <4> QED
          BY <4>1, <4>2, SeqEqual, Zenon
      <3> QED
        <4>1. r = Reverse(f) /\ q = Reverse(Append(f, n))
          BY <3>1, <3>2
        <4> QED
          BY <3>5, <4>1, Zenon
    <2>3. Total(<<n>>) = n
      <3>1. <<n>> = Append(<<>>, n) /\ <<>> \in Seq(Nat)
        OBVIOUS
      <3>2. Total(Append(<<>>, n)) = 0 + n
        BY <3>1, TotalAppend, TotalOfNone, Zenon
      <3> QED
        BY <3>1, <3>2
    <2>4. Total(Reverse(Append(f, n))) = n + Total(Reverse(f))
      BY <2>1, <2>2, <2>3, TotalConcat, Zenon
    <2>5. Total(Append(f, n)) = Total(f) + n /\ Total(f) \in Nat /\ Total(Reverse(f)) = Total(f)
      BY <1>2, TotalAppend, TotalOfSeq
    <2>6. Total(Reverse(Append(f, n))) = Total(Append(f, n))
      BY <2>4, <2>5
    <2> QED
      BY <2>1, <2>6
  <1> HIDE DEF S
  <1>3. Seq(Nat) \subseteq S
    BY <1>1, <1>2, AppendInduction
  <1> QED
    BY <1>3 DEF S

(* A sum of numbers that are in each place the sum of two others, or so    *)
(* many times another.                                                     *)
LEMMA TotalsAdd ==
  ASSUME NEW f \in Seq(Nat), NEW g \in Seq(Nat), NEW h \in Seq(Nat),
         DOMAIN g = DOMAIN f, DOMAIN h = DOMAIN f, \A i \in DOMAIN f : h[i] = f[i] + g[i]
  PROVE  Total(h) = Total(f) + Total(g)
  <1>1. PICK S : S = DOMAIN f
    OBVIOUS
  <1>2. f \in [S -> Nat] /\ g \in [S -> Nat] /\ h \in [S -> Nat] /\ IsFiniteSet(S)
    BY <1>1, Places, Zenon
  <1>3. \A i \in S : h[i] = f[i] + g[i]
    BY <1>1
  <1>4. SumOf(h, S) = SumOf(f, S) + SumOf(g, S)
    <2>1. \A F, G, H \in [S -> Nat] :
            (\A i \in S : H[i] = F[i] + G[i]) => SumOf(H, S) = SumOf(F, S) + SumOf(G, S)
      BY <1>2, SumsAdd, Zenon
    <2> QED
      BY <1>2, <1>3, <2>1, Zenon
  <1>5. Total(f) = SumOf(f, S) /\ Total(g) = SumOf(g, S) /\ Total(h) = SumOf(h, S)
    BY <1>1, TotalIsSum
  <1> QED
    BY <1>4, <1>5, Zenon

LEMMA TotalScales ==
  ASSUME NEW f \in Seq(Nat), NEW h \in Seq(Nat), NEW m \in Nat,
         DOMAIN h = DOMAIN f, \A i \in DOMAIN f : h[i] = f[i] * m
  PROVE  Total(h) = Total(f) * m
  <1>1. PICK S : S = DOMAIN f
    OBVIOUS
  <1>2. f \in [S -> Nat] /\ h \in [S -> Nat] /\ IsFiniteSet(S)
    BY <1>1, Places, Zenon
  <1>3. \A i \in S : h[i] = f[i] * m
    BY <1>1
  <1>4. SumOf(h, S) = SumOf(f, S) * m
    BY <1>2, <1>3, SumScales, Zenon
  <1> QED
    BY <1>1, <1>4, TotalIsSum

-----------------------------------------------------------------------------
(* The walk: shares are within the room there is, and add up to the amount *)
(* or to all of the room.                                                  *)
Shared(room, amount, share) ==
  /\ share \in Seq(Nat) /\ DOMAIN share = DOMAIN room
  /\ \A i \in DOMAIN room : share[i] <= room[i]
  /\ Total(share) = Least(amount, Total(room))

LEMMA LeastFacts ==
  ASSUME NEW a \in Nat, NEW b \in Nat
  PROVE  /\ Least(a, b) \in Nat /\ Least(a, b) <= a /\ Least(a, b) <= b
         /\ a - Least(a, b) \in Nat
         /\ Least(a, b) = a \/ Least(a, b) = b
  BY DEF Least

LEMMA SpreadShares ==
  ASSUME NEW room \in Seq(Nat), NEW amount \in Nat
  PROVE  Shared(room, amount, Spread(room, amount))
  <1> DEFINE n == Len(room)
             Solves(left) == left = [i \in 0 .. n |-> IF i = 0 THEN amount ELSE
                                        left[i - 1] - Least(left[i - 1], room[i])]
             step == [p \in Nat \X (1 .. n) |-> p[1] - Least(p[1], room[p[2]])]
  <1>1. n \in Nat /\ DOMAIN room = 1 .. n /\ \A i \in 1 .. n : room[i] \in Nat
    OBVIOUS
  <1> HIDE DEF n
  <1>2. step \in [Nat \X (1 .. n) -> Nat]
    BY <1>1, LeastFacts, Zenon
  <1>3. \E left : Solves(left)
    <2>1. PICK g : Stepwise(g, n, amount, step) /\ g \in [0 .. n -> Nat]
      <3> HIDE DEF step
      <3> QED
        BY <1>1, <1>2, StepwiseExists, Zenon
    <2>2. g = [i \in 0 .. n |-> IF i = 0 THEN amount ELSE step[<<g[i - 1], i>>]]
      BY <2>1, Zenon DEF Stepwise
    <2>3. ASSUME NEW i \in 0 .. n, i # 0
          PROVE  step[<<g[i - 1], i>>] = g[i - 1] - Least(g[i - 1], room[i])
      <3>1. g[i - 1] \in Nat /\ i \in 1 .. n
        BY <1>1, <2>1, <2>3
      <3> QED
        BY <3>1
    <2> HIDE DEF step
    <2>4. Solves(g)
      BY <2>2, <2>3, Zenon
    <2> QED
      BY <2>4, Zenon
  <1> HIDE DEF step
  <1> DEFINE left == CHOOSE left : Solves(left)
  <1>4. Solves(left)
    BY <1>3, Zenon
  <1>5. Spread(room, amount) = [i \in 1 .. n |-> Least(left[i - 1], room[i])]
    BY <1>1 DEF Spread, n
  <1> HIDE DEF left, Solves
  <1>6. left[0] = amount /\ \A i \in 1 .. n : left[i] = left[i - 1] - Least(left[i - 1], room[i])
    BY <1>1, <1>4 DEF Solves
  <1>7. PICK share : share = Spread(room, amount)
    OBVIOUS
  <1> DEFINE First(f, i) == [j \in 1 .. i |-> f[j]]
             N == {i \in Nat : i <= n =>
                     /\ left[i] \in Nat
                     /\ First(share, i) \in Seq(Nat) /\ First(room, i) \in Seq(Nat)
                     /\ amount = left[i] + Total(First(share, i))
                     /\ \/ left[i] = 0 /\ Total(First(share, i)) <= Total(First(room, i))
                        \/ Total(First(share, i)) = Total(First(room, i))}
  <1>8. 0 \in N
    <2>1. First(share, 0) = <<>> /\ First(room, 0) = <<>>
      OBVIOUS
    <2> QED
      BY <1>6, <2>1, TotalOfNone
  <1>9. ASSUME NEW i \in Nat, i \in N PROVE i + 1 \in N
    <2> SUFFICES ASSUME i + 1 <= n PROVE i + 1 \in N
      OBVIOUS
    <2>1. i + 1 \in 1 .. n /\ i <= n /\ room[i + 1] \in Nat /\ (i + 1) - 1 = i
      BY <1>1
    <2>2. PICK a \in Nat, b \in Nat : a = left[i] /\ b = room[i + 1]
      BY <1>9, <2>1
    <2>3. share[i + 1] = Least(a, b) /\ left[i + 1] = a - Least(a, b)
      BY <1>5, <1>6, <1>7, <2>1, <2>2
    <2>4. /\ First(share, i + 1) = Append(First(share, i), Least(a, b))
          /\ First(room, i + 1) = Append(First(room, i), b)
      BY <2>2, <2>3
    <2>5. First(share, i) \in Seq(Nat) /\ First(room, i) \in Seq(Nat)
      BY <1>9, <2>1
    <2>6. PICK s \in Nat, t \in Nat : s = Total(First(share, i)) /\ t = Total(First(room, i))
      BY <2>5, TotalOfSeq, Zenon
    <2>7. amount = a + s /\ ((a = 0 /\ s <= t) \/ s = t)
      BY <1>9, <2>1, <2>2, <2>6
    <2> HIDE DEF First
    <2>8. /\ First(share, i + 1) \in Seq(Nat) /\ First(room, i + 1) \in Seq(Nat)
          /\ Total(First(share, i + 1)) = s + Least(a, b) /\ Total(First(room, i + 1)) = t + b
      <3>1. PICK f \in Seq(Nat), h \in Seq(Nat), k \in Nat :
              f = First(share, i) /\ h = First(room, i) /\ k = Least(a, b)
        BY <2>5, LeastFacts, Zenon
      <3>2. Total(Append(f, k)) = s + k /\ Total(Append(h, b)) = t + b
        BY <2>6, <3>1, TotalAppend, Zenon
      <3>3. Append(f, k) \in Seq(Nat) /\ Append(h, b) \in Seq(Nat)
        OBVIOUS
      <3> QED
        BY <2>4, <3>1, <3>2, <3>3, Zenon
    <2>9. /\ a - Least(a, b) \in Nat /\ amount = (a - Least(a, b)) + (s + Least(a, b))
          /\ \/ a - Least(a, b) = 0 /\ s + Least(a, b) <= t + b
             \/ s + Least(a, b) = t + b
      BY <2>7 DEF Least
    <2> QED
      BY <2>3, <2>8, <2>9
  <1> HIDE DEF N
  <1>10. n \in N
    BY <1>1, <1>8, <1>9, NaturalInduction, Zenon
  <1>11. ASSUME NEW i \in 1 .. n PROVE share[i] \in Nat /\ share[i] <= room[i]
    <2>0. Nat \subseteq N
      BY <1>8, <1>9, NaturalInduction, Zenon
    <2>1. i - 1 \in Nat /\ i - 1 <= n /\ i - 1 \in N
      BY <1>1, <2>0
    <2>2. left[i - 1] \in Nat
      BY <2>1 DEF N
    <2> QED
      BY <1>1, <1>5, <1>7, <2>2, LeastFacts, Zenon
  <1>12. share \in Seq(Nat) /\ DOMAIN share = 1 .. n
    BY <1>1, <1>5, <1>7, <1>11
  <1>13. First(share, n) = share /\ First(room, n) = room
    BY <1>1, <1>5, <1>7, <1>12
  <1>14. Total(share) = Least(amount, Total(room))
    <2> HIDE DEF First
    <2>1. PICK a \in Nat, s \in Nat, t \in Nat : a = left[n] /\ s = Total(share) /\ t = Total(room)
      BY <1>1, <1>10, <1>12, TotalOfSeq DEF N
    <2>2. amount = a + s /\ ((a = 0 /\ s <= t) \/ s = t)
      BY <1>1, <1>10, <1>13, <2>1 DEF N
    <2> QED
      BY <2>1, <2>2 DEF Least
  <1> QED
    BY <1>1, <1>7, <1>11, <1>12, <1>14 DEF Shared

LEMMA SpreadFromTheBack ==
  ASSUME NEW room \in Seq(Nat), NEW amount \in Nat
  PROVE  Shared(room, amount, Reverse(Spread(Reverse(room), amount)))
  <1>1. PICK r \in Seq(Nat) : r = Reverse(room)
    BY Reversed
  <1>2. /\ Len(r) = Len(room) /\ Total(r) = Total(room)
        /\ \A i \in 1 .. Len(room) : r[i] = room[(Len(room) - i) + 1]
    BY <1>1, Reversed, TotalReverse, Zenon
  <1>3. PICK s \in Seq(Nat) : s = Spread(r, amount)
    BY SpreadShares DEF Shared
  <1>4. Len(s) = Len(room) /\ (\A i \in 1 .. Len(room) : s[i] <= r[i]) /\ Total(s) = Least(amount, Total(r))
    <2>1. Shared(r, amount, s)
      BY <1>3, SpreadShares
    <2>2. DOMAIN s = 1 .. Len(s) /\ DOMAIN r = 1 .. Len(r) /\ Len(s) \in Nat /\ Len(r) \in Nat
      OBVIOUS
    <2>3. /\ 1 .. Len(s) = 1 .. Len(r) /\ \A i \in 1 .. Len(r) : s[i] <= r[i]
          /\ Total(s) = Least(amount, Total(r))
      BY <2>1, <2>2, Zenon DEF Shared
    <2>4. Len(s) = Len(r)
      <3>1. PICK k \in Nat, l \in Nat : k = Len(s) /\ l = Len(r)
        BY <2>2, Zenon
      <3>2. 1 .. k = 1 .. l => k = l
        <4>1. (k \in 1 .. k /\ l \in 1 .. l) \/ k = 0 \/ l = 0
          OBVIOUS
        <4>2. k # 0 => 1 \in 1 .. k
          OBVIOUS
        <4>3. l # 0 => 1 \in 1 .. l
          OBVIOUS
        <4> QED
          BY <4>1, <4>2, <4>3
      <3> QED
        BY <2>3, <3>1, <3>2
    <2> QED
      BY <1>2, <2>3, <2>4
  <1>5. PICK t \in Seq(Nat) : t = Reverse(s)
    BY Reversed
  <1>6. /\ Len(t) = Len(room) /\ Total(t) = Total(s)
        /\ \A i \in 1 .. Len(room) : t[i] = s[(Len(room) - i) + 1]
    <2>1. /\ Len(Reverse(s)) = Len(s) /\ Total(Reverse(s)) = Total(s)
          /\ \A i \in 1 .. Len(s) : Reverse(s)[i] = s[(Len(s) - i) + 1]
      BY Reversed, TotalReverse
    <2> QED
      BY <1>4, <1>5, <2>1, Zenon
  <1>7. ASSUME NEW i \in 1 .. Len(room) PROVE t[i] <= room[i]
    <2>1. PICK j \in 1 .. Len(room) : j = (Len(room) - i) + 1
      <3>1. Len(room) \in Nat
        OBVIOUS
      <3>2. (Len(room) - i) + 1 \in 1 .. Len(room)
        BY <3>1
      <3> QED
        BY <3>2, Zenon
    <2>2. t[i] = s[j] /\ s[j] <= r[j] /\ r[j] = room[(Len(room) - j) + 1]
      BY <1>2, <1>4, <1>6, <2>1, Zenon
    <2>3. (Len(room) - j) + 1 = i
      BY <2>1
    <2> QED
      BY <2>2, <2>3, Zenon
  <1>8. DOMAIN t = 1 .. Len(room) /\ DOMAIN room = 1 .. Len(room)
    BY <1>6
  <1>9. Shared(room, amount, t)
    BY <1>2, <1>4, <1>6, <1>7, <1>8 DEF Shared
  <1> QED
    BY <1>1, <1>3, <1>5, <1>9

-----------------------------------------------------------------------------
(* Slots, and what can be added up over them.                              *)
Slot == [resource : Resource, quantity : Nat, reserved : Nat]

Of(m, s) == [i \in DOMAIN s |-> m[s[i]]]

Measured(m, s) == Total(Of(m, s))

LEMMA OfIsSeq ==
  ASSUME NEW A, NEW m \in [A -> Nat], NEW s \in Seq(A)
  PROVE  /\ Of(m, s) \in Seq(Nat) /\ DOMAIN Of(m, s) = DOMAIN s
         /\ Measured(m, s) \in Nat
         /\ \A i \in DOMAIN s : m[s[i]] <= Measured(m, s)
  <1>1. Of(m, s) \in Seq(Nat) /\ DOMAIN Of(m, s) = DOMAIN s /\ \A i \in DOMAIN s : Of(m, s)[i] = m[s[i]]
    BY DEF Of
  <1> QED
    BY <1>1, TotalOfSeq DEF Measured

LEMMA MeasuredNone ==
  ASSUME NEW m
  PROVE  Measured(m, <<>>) = 0
  <1>1. Of(m, <<>>) = <<>>
    BY DEF Of
  <1> QED
    BY <1>1, TotalOfNone DEF Measured

LEMMA MeasuredAppend ==
  ASSUME NEW A, NEW m \in [A -> Nat], NEW s \in Seq(A), NEW x \in A
  PROVE  Measured(m, Append(s, x)) = Measured(m, s) + m[x]
  <1>1. Of(m, Append(s, x)) = Append(Of(m, s), m[x])
    BY DEF Of
  <1>2. PICK f \in Seq(Nat), n \in Nat : f = Of(m, s) /\ n = m[x]
    BY OfIsSeq
  <1>3. Total(Append(f, n)) = Total(f) + n
    BY TotalAppend
  <1> QED
    BY <1>1, <1>2, <1>3, Zenon DEF Measured

LEMMA MeasuredConcat ==
  ASSUME NEW A, NEW m \in [A -> Nat], NEW s \in Seq(A), NEW t \in Seq(A)
  PROVE  Measured(m, s \o t) = Measured(m, s) + Measured(m, t)
  <1>2. PICK f \in Seq(Nat), g \in Seq(Nat) : f = Of(m, s) /\ g = Of(m, t)
    BY OfIsSeq, Zenon
  <1>1. Of(m, s \o t) = f \o g
    <2>1. /\ f \o g \in Seq(Nat) /\ s \o t \in Seq(A) /\ Len(f) = Len(s) /\ Len(g) = Len(t)
          /\ \A i \in 1 .. Len(s) : f[i] = m[s[i]]
          /\ \A i \in 1 .. Len(t) : g[i] = m[t[i]]
      <3>1. DOMAIN f = DOMAIN s /\ DOMAIN g = DOMAIN t
        BY <1>2 DEF Of
      <3>2. f = [i \in DOMAIN s |-> m[s[i]]] /\ g = [i \in DOMAIN t |-> m[t[i]]]
        BY <1>2 DEF Of
      <3>3. s \o t \in Seq(A) /\ f \o g \in Seq(Nat) /\ Len(f) = Len(s) /\ Len(g) = Len(t)
        BY <3>1
      <3> QED
        BY <3>2, <3>3
    <2>2. /\ Len(f \o g) = Len(s) + Len(t) /\ Len(s \o t) = Len(s) + Len(t)
          /\ \A i \in 1 .. Len(s) + Len(t) : (s \o t)[i] = IF i <= Len(s) THEN s[i] ELSE t[i - Len(s)]
          /\ \A i \in 1 .. Len(s) + Len(t) : (f \o g)[i] = IF i <= Len(s) THEN f[i] ELSE g[i - Len(s)]
      <3>1. PICK S : S = Nat
        BY Zenon
      <3>2. f \in Seq(S) /\ g \in Seq(S)
        BY <3>1
      <3>3. /\ Len(f \o g) = Len(f) + Len(g)
            /\ \A i \in 1 .. Len(f) + Len(g) : (f \o g)[i] = IF i <= Len(f) THEN f[i] ELSE g[i - Len(f)]
        BY <3>2, ConcatProperties
      <3>4. /\ Len(s \o t) = Len(s) + Len(t)
            /\ \A i \in 1 .. Len(s) + Len(t) : (s \o t)[i] = IF i <= Len(s) THEN s[i] ELSE t[i - Len(s)]
        BY ConcatProperties
      <3> QED
        BY <2>1, <3>3, <3>4, Zenon
    <2>3. ASSUME NEW i \in 1 .. Len(s) + Len(t) PROVE (f \o g)[i] = m[(s \o t)[i]]
      <3>1. CASE i <= Len(s)
        BY <2>1, <2>2, <3>1
      <3>2. CASE ~(i <= Len(s))
        <4>1. i - Len(s) \in 1 .. Len(t)
          BY <3>2
        <4> QED
          BY <2>1, <2>2, <3>2, <4>1, Zenon
      <3> QED
        BY <3>1, <3>2, Zenon
    <2>4. Of(m, s \o t) \in Seq(Nat) /\ Len(Of(m, s \o t)) = Len(s) + Len(t)
          /\ \A i \in 1 .. Len(s) + Len(t) : Of(m, s \o t)[i] = m[(s \o t)[i]]
      <3>1. PICK u \in Seq(A) : u = s \o t
        BY <2>1, Zenon
      <3>2. Of(m, u) \in Seq(Nat) /\ DOMAIN Of(m, u) = DOMAIN u /\ \A i \in DOMAIN u : Of(m, u)[i] = m[u[i]]
        BY OfIsSeq DEF Of
      <3>3. DOMAIN u = 1 .. Len(s) + Len(t) /\ Len(Of(m, u)) = Len(u)
        BY <2>2, <3>1, <3>2
      <3> QED
        BY <2>2, <3>1, <3>2, <3>3, Zenon
    <2> QED
      <3>1. PICK p \in Seq(Nat) : p = Of(m, s \o t)
        BY <2>4
      <3>2. PICK q \in Seq(Nat) : q = f \o g
        BY <2>1, Zenon
      <3>3. Len(p) = Len(q) /\ \A i \in 1 .. Len(p) : p[i] = q[i]
        BY <2>2, <2>3, <2>4, <3>1, <3>2, Zenon
      <3> QED
        BY <3>1, <3>2, <3>3, SeqEqual, Zenon
  <1>3. Total(f \o g) = Total(f) + Total(g)
    BY TotalConcat
  <1> QED
    BY <1>1, <1>2, <1>3, Zenon DEF Measured

(* What is one in every place makes the length.                            *)
LEMMA Counted ==
  ASSUME NEW A, NEW m \in [A -> Nat], NEW o \in [A -> Nat], \A x \in A : m[x] + o[x] = 1
  PROVE  \A s \in Seq(A) : Len(s) = Measured(m, s) + Measured(o, s)
  <1> DEFINE S == {s \in Seq(A) : Len(s) = Measured(m, s) + Measured(o, s)}
  <1>1. <<>> \in S
    BY MeasuredNone
  <1>2. ASSUME NEW s \in Seq(A), NEW x \in A, s \in S PROVE Append(s, x) \in S
    <2>1. Measured(m, Append(s, x)) = Measured(m, s) + m[x] /\ Measured(o, Append(s, x)) = Measured(o, s) + o[x]
      BY MeasuredAppend, Zenon
    <2>2. Measured(m, s) \in Nat /\ Measured(o, s) \in Nat /\ m[x] \in Nat /\ o[x] \in Nat /\ m[x] + o[x] = 1
      BY OfIsSeq, Zenon
    <2>3. Len(Append(s, x)) = Len(s) + 1 /\ Len(s) = Measured(m, s) + Measured(o, s)
      BY <1>2
    <2>4. Len(Append(s, x)) = Measured(m, Append(s, x)) + Measured(o, Append(s, x))
      BY <2>1, <2>2, <2>3
    <2> QED
      BY <2>4
  <1> HIDE DEF S
  <1>3. Seq(A) \subseteq S
    BY <1>1, <1>2, AppendInduction, Zenon
  <1> QED
    BY <1>3 DEF S

(* Slot by slot so much more, and so much more in all.                     *)
Raised(A, m, s, t, more) ==
  /\ m \in [A -> Nat] /\ s \in Seq(A) /\ t \in Seq(A) /\ more \in Seq(Nat)
  /\ DOMAIN t = DOMAIN s /\ DOMAIN more = DOMAIN s
  /\ \A i \in DOMAIN s : m[t[i]] = m[s[i]] + more[i]

LEMMA MeasuredMore ==
  ASSUME NEW A, NEW m, NEW s, NEW t, NEW more, Raised(A, m, s, t, more)
  PROVE  Measured(m, t) = Measured(m, s) + Total(more)
  <1> USE DEF Raised
  <1>1. PICK f \in Seq(Nat), h \in Seq(Nat) : f = Of(m, s) /\ h = Of(m, t)
    BY OfIsSeq
  <1>2. DOMAIN more = DOMAIN f /\ DOMAIN h = DOMAIN f /\ \A i \in DOMAIN f : h[i] = f[i] + more[i]
    BY <1>1 DEF Of
  <1>3. Total(h) = Total(f) + Total(more)
    BY <1>2, TotalsAdd
  <1> QED
    BY <1>1, <1>3 DEF Measured

LEMMA MeasuredSame ==
  ASSUME NEW m, NEW s, NEW t, DOMAIN t = DOMAIN s, \A i \in DOMAIN s : m[t[i]] = m[s[i]]
  PROVE  Measured(m, t) = Measured(m, s)
  BY DEF Measured, Of

(* Dropping empty slots: whatever empty slots do not count for stays what  *)
(* it was, and nothing grows.                                              *)
Kept(T, s, k) ==
  /\ k \in Seq(T)
  /\ \A m \in [T -> Nat] :
       /\ Measured(m, k) <= Measured(m, s)
       /\ (\A x \in T : x.quantity = 0 /\ x.reserved = 0 => m[x] = 0) =>
            Measured(m, k) = Measured(m, s)

LEMMA KeptGrows ==
  ASSUME NEW T, T \subseteq Slot, NEW s \in Seq(T), NEW k, Kept(T, s, k), NEW x \in T
  PROVE  /\ Kept(T, Append(s, x), Append(k, x))
         /\ x.quantity = 0 /\ x.reserved = 0 => Kept(T, Append(s, x), k)
  <1>1. k \in Seq(T) /\ Append(k, x) \in Seq(T)
    BY DEF Kept
  <1>2. ASSUME NEW m \in [T -> Nat]
        PROVE  /\ Measured(m, Append(s, x)) = Measured(m, s) + m[x]
               /\ Measured(m, Append(k, x)) = Measured(m, k) + m[x]
               /\ Measured(m, s) \in Nat /\ Measured(m, k) \in Nat /\ m[x] \in Nat
               /\ Measured(m, k) <= Measured(m, s)
               /\ (\A y \in T : y.quantity = 0 /\ y.reserved = 0 => m[y] = 0) =>
                    Measured(m, k) = Measured(m, s)
    BY <1>1, MeasuredAppend, OfIsSeq, Zenon DEF Kept
  <1>3. ASSUME NEW m \in [T -> Nat]
        PROVE  /\ Measured(m, Append(k, x)) <= Measured(m, Append(s, x))
               /\ (\A y \in T : y.quantity = 0 /\ y.reserved = 0 => m[y] = 0) =>
                    Measured(m, Append(k, x)) = Measured(m, Append(s, x))
    BY <1>2
  <1>4. ASSUME NEW m \in [T -> Nat], x.quantity = 0, x.reserved = 0
        PROVE  /\ Measured(m, k) <= Measured(m, Append(s, x))
               /\ (\A y \in T : y.quantity = 0 /\ y.reserved = 0 => m[y] = 0) =>
                    Measured(m, k) = Measured(m, Append(s, x))
    <2>1. (\A y \in T : y.quantity = 0 /\ y.reserved = 0 => m[y] = 0) => m[x] = 0
      BY <1>4
    <2> QED
      BY <1>2, <2>1
  <1> QED
    BY <1>1, <1>3, <1>4 DEF Kept

LEMMA DropEmptyKeeps ==
  ASSUME NEW T, T \subseteq Slot, NEW s \in Seq(T)
  PROVE  Kept(T, s, DropEmpty(s))
  <1> DEFINE n == Len(s)
             Full(x) == x.quantity # 0 \/ x.reserved # 0
             Solves(kept) == kept = [i \in 0 .. n |->
                 IF i = 0 THEN <<>>
                 ELSE IF s[i].quantity # 0 \/ s[i].reserved # 0 THEN Append(kept[i - 1], s[i])
                 ELSE kept[i - 1]]
             step == [p \in Seq(T) \X (1 .. n) |-> IF Full(s[p[2]]) THEN Append(p[1], s[p[2]]) ELSE p[1]]
  <1>1. n \in Nat /\ DOMAIN s = 1 .. n /\ \A i \in 1 .. n : s[i] \in T
    OBVIOUS
  <1> HIDE DEF n, Full
  <1>2. step \in [Seq(T) \X (1 .. n) -> Seq(T)]
    BY <1>1
  <1>3. \E kept : Solves(kept)
    <2>1. PICK g : Stepwise(g, n, <<>>, step) /\ g \in [0 .. n -> Seq(T)]
      <3>1. <<>> \in Seq(T)
        OBVIOUS
      <3> HIDE DEF step
      <3> QED
        BY <1>1, <1>2, <3>1, StepwiseExists, Zenon
    <2>2. g = [i \in 0 .. n |-> IF i = 0 THEN <<>> ELSE step[<<g[i - 1], i>>]]
      BY <2>1, Zenon DEF Stepwise
    <2>3. ASSUME NEW i \in 0 .. n, i # 0
          PROVE  step[<<g[i - 1], i>>] =
                   IF s[i].quantity # 0 \/ s[i].reserved # 0 THEN Append(g[i - 1], s[i]) ELSE g[i - 1]
      <3>1. g[i - 1] \in Seq(T) /\ i \in 1 .. n
        BY <1>1, <2>1, <2>3
      <3> QED
        BY <3>1 DEF Full
    <2> HIDE DEF step
    <2>4. Solves(g)
      BY <2>2, <2>3, Zenon
    <2> QED
      BY <2>4, Zenon
  <1> HIDE DEF step
  <1> DEFINE kept == CHOOSE kept : Solves(kept)
  <1>4. Solves(kept)
    BY <1>3, Zenon
  <1>5. DropEmpty(s) = kept[n]
    BY DEF DropEmpty, n
  <1> HIDE DEF kept
  <1>6. kept[0] = <<>> /\ \A i \in 1 .. n :
          kept[i] = IF s[i].quantity # 0 \/ s[i].reserved # 0 THEN Append(kept[i - 1], s[i]) ELSE kept[i - 1]
    <2>1. \A i \in 1 .. n : i \in 0 .. n /\ i # 0
      OBVIOUS
    <2>2. 0 \in 0 .. n
      BY <1>1
    <2> QED
      BY <1>4, <2>1, <2>2, Zenon
  <1> HIDE DEF Solves
  <1> DEFINE First(i) == [j \in 1 .. i |-> s[j]]
             N == {i \in Nat : i <= n => Kept(T, First(i), kept[i])}
  <1>7. 0 \in N
    <2>1. First(0) = <<>> /\ <<>> \in Seq(T)
      OBVIOUS
    <2>2. \A m \in [T -> Nat] : Measured(m, <<>>) = 0
      BY MeasuredNone
    <2>3. Kept(T, <<>>, <<>>)
      BY <2>1, <2>2 DEF Kept
    <2> QED
      BY <1>6, <2>1, <2>3
  <1>8. ASSUME NEW i \in Nat, i \in N PROVE i + 1 \in N
    <2> SUFFICES ASSUME i + 1 <= n PROVE Kept(T, First(i + 1), kept[i + 1])
      OBVIOUS
    <2>1. i + 1 \in 1 .. n /\ i <= n /\ s[i + 1] \in T /\ (i + 1) - 1 = i
      BY <1>1
    <2>2. First(i + 1) = Append(First(i), s[i + 1]) /\ First(i) \in Seq(T)
      BY <1>1, <2>1
    <2>3. Kept(T, First(i), kept[i])
      BY <1>8, <2>1
    <2> HIDE DEF First
    <2>4. PICK x \in T, p \in Seq(T), k \in {kept[i]} : x = s[i + 1] /\ p = First(i)
      BY <2>1, <2>2
    <2>5. /\ Kept(T, Append(p, x), Append(k, x))
          /\ x.quantity = 0 /\ x.reserved = 0 => Kept(T, Append(p, x), k)
      BY <2>3, <2>4, KeptGrows
    <2>6. kept[i + 1] = IF x.quantity # 0 \/ x.reserved # 0 THEN Append(k, x) ELSE k
      BY <1>6, <2>1, <2>4
    <2> QED
      BY <2>2, <2>4, <2>5, <2>6, Zenon
  <1> HIDE DEF N
  <1>9. n \in N
    BY <1>1, <1>7, <1>8, NaturalInduction
  <1>10. First(n) = s
    BY <1>1
  <1> QED
    BY <1>1, <1>5, <1>9, <1>10 DEF N

-----------------------------------------------------------------------------
(* What a slot counts for: units and locked units of r, volume, and one of *)
(* the slots that are r's or one of the others.                            *)
Qty(r) == [x \in Slot |-> IF x.resource = r THEN x.quantity ELSE 0]
Res(r) == [x \in Slot |-> IF x.resource = r THEN x.reserved ELSE 0]
Vol == [x \in Slot |-> x.quantity * UnitVolume[x.resource]]
Its(r) == [x \in Slot |-> IF x.resource = r THEN 1 ELSE 0]
Others(r) == [x \in Slot |-> IF x.resource = r THEN 0 ELSE 1]

(* The slots container c can have, and what it can be sent.                *)
Takes(c, r) == c \in Silo => r \in RawMineral

Fitting(c) ==
  {x \in Slot : /\ x.reserved <= x.quantity
                /\ x.quantity <= StackLimit[x.resource]
                /\ Takes(c, x.resource)}

LEMMA Measures ==
  ASSUME NEW r \in Resource
  PROVE  /\ Qty(r) \in [Slot -> Nat] /\ Res(r) \in [Slot -> Nat] /\ Vol \in [Slot -> Nat]
         /\ Its(r) \in [Slot -> Nat] /\ Others(r) \in [Slot -> Nat]
         /\ \A x \in Slot : Its(r)[x] + Others(r)[x] = 1
  <1>1. Qty(r) \in [Slot -> Nat] /\ Res(r) \in [Slot -> Nat]
    BY DEF Qty, Res, Slot
  <1>2. ASSUME NEW x \in Slot PROVE x.quantity * UnitVolume[x.resource] \in Nat
    <2>1. x.quantity \in Nat /\ UnitVolume[x.resource] \in Nat
      BY ResourceAssumption DEF Slot
    <2>2. \A m \in Nat, n \in Nat : m * n \in Nat
      OBVIOUS
    <2> QED
      BY <2>1, <2>2
  <1>3. Vol \in [Slot -> Nat]
    BY <1>2 DEF Vol
  <1>4. Its(r) \in [Slot -> Nat] /\ Others(r) \in [Slot -> Nat]
    BY DEF Its, Others
  <1>5. \A x \in Slot : Its(r)[x] + Others(r)[x] = 1
    BY DEF Its, Others
  <1> QED
    BY <1>1, <1>3, <1>4, <1>5

LEMMA FittingIsSlot ==
  ASSUME NEW c \in Container, NEW s \in Seq(Fitting(c))
  PROVE  /\ Fitting(c) \subseteq Slot /\ s \in Seq(Slot)
         /\ \A i \in DOMAIN s : s[i] \in Fitting(c) /\ s[i] \in Slot
  BY DEF Fitting

(* The totals of the model in terms of the measures.                       *)
LEMMA TotalsMeasure ==
  ASSUME NEW s \in Seq(Slot), NEW r \in Resource
  PROVE  /\ TotalQuantity(s, r) = Measured(Qty(r), s)
         /\ ReservedQuantity(s, r) = Measured(Res(r), s)
         /\ Volume(s) = Measured(Vol, s)
         /\ Len(s) = Measured(Its(r), s) + Measured(Others(r), s)
         /\ TotalQuantity(s, r) \in Nat /\ ReservedQuantity(s, r) \in Nat /\ Volume(s) \in Nat
         /\ Measured(Its(r), s) \in Nat /\ Measured(Others(r), s) \in Nat /\ Len(s) \in Nat
  <1>1. \A i \in DOMAIN s : s[i] \in Slot
    OBVIOUS
  <1>2. Quantities(s, r) = Of(Qty(r), s)
    BY <1>1 DEF Quantities, Of, Qty
  <1>3. Locked(s, r) = Of(Res(r), s)
    BY <1>1 DEF Locked, Of, Res
  <1>4. [i \in DOMAIN s |-> s[i].quantity * UnitVolume[s[i].resource]] = Of(Vol, s)
    BY <1>1 DEF Of, Vol
  <1>5. /\ TotalQuantity(s, r) = Measured(Qty(r), s)
        /\ ReservedQuantity(s, r) = Measured(Res(r), s)
        /\ Volume(s) = Measured(Vol, s)
    BY <1>2, <1>3, <1>4 DEF TotalQuantity, ReservedQuantity, Volume, Measured
  <1>6. Len(s) = Measured(Its(r), s) + Measured(Others(r), s)
    BY Measures, Counted, Zenon
  <1>7. /\ Measured(Qty(r), s) \in Nat /\ Measured(Res(r), s) \in Nat /\ Measured(Vol, s) \in Nat
        /\ Measured(Its(r), s) \in Nat /\ Measured(Others(r), s) \in Nat
    <2>1. PICK A : A = Slot
      OBVIOUS
    <2>2. \A m \in [A -> Nat] : Measured(m, s) \in Nat
      BY <2>1, OfIsSeq
    <2> QED
      <3>1. /\ Qty(r) \in [A -> Nat] /\ Res(r) \in [A -> Nat] /\ Vol \in [A -> Nat]
            /\ Its(r) \in [A -> Nat] /\ Others(r) \in [A -> Nat]
        BY <2>1, Measures
      <3> QED
        BY <2>2, <3>1, Zenon
  <1> QED
    BY <1>5, <1>6, <1>7

LEMMA RoomsAreSeqs ==
  ASSUME NEW c \in Container, NEW s \in Seq(Fitting(c)), NEW r \in Resource
  PROVE  /\ Quantities(s, r) \in Seq(Nat) /\ Locked(s, r) \in Seq(Nat)
         /\ Free(s, r) \in Seq(Nat) /\ Headroom(s, r) \in Seq(Nat)
         /\ DOMAIN Quantities(s, r) = DOMAIN s /\ DOMAIN Locked(s, r) = DOMAIN s
         /\ DOMAIN Free(s, r) = DOMAIN s /\ DOMAIN Headroom(s, r) = DOMAIN s
  <1>1. \A i \in DOMAIN s : s[i] \in Fitting(c) /\ s[i] \in Slot
    BY FittingIsSlot
  <1>2. \A i \in DOMAIN s : /\ s[i].quantity \in Nat /\ s[i].reserved \in Nat
                            /\ s[i].quantity - s[i].reserved \in Nat
                            /\ s[i].resource = r => StackLimit[r] - s[i].quantity \in Nat
    BY <1>1, ResourceAssumption DEF Fitting, Slot
  <1>3. Quantities(s, r) \in Seq(Nat) /\ DOMAIN Quantities(s, r) = DOMAIN s
    <2>1. \A i \in DOMAIN s : (IF s[i].resource = r THEN s[i].quantity ELSE 0) \in Nat
      BY <1>2
    <2> QED
      BY <2>1 DEF Quantities
  <1>4. Locked(s, r) \in Seq(Nat) /\ DOMAIN Locked(s, r) = DOMAIN s
    BY <1>2 DEF Locked
  <1>5. Free(s, r) \in Seq(Nat) /\ DOMAIN Free(s, r) = DOMAIN s
    BY <1>2 DEF Free
  <1>6. Headroom(s, r) \in Seq(Nat) /\ DOMAIN Headroom(s, r) = DOMAIN s
    <2>1. \A i \in DOMAIN s : (IF s[i].resource = r THEN StackLimit[r] - s[i].quantity ELSE 0) \in Nat
      BY <1>2
    <2> QED
      BY <2>1 DEF Headroom
  <1> QED
    BY <1>3, <1>4, <1>5, <1>6

(* What is free is what is not locked, and what is not headroom is filled. *)
LEMMA FreeAndLocked ==
  ASSUME NEW c \in Container, NEW s \in Seq(Fitting(c)), NEW r \in Resource
  PROVE  /\ AvailableQuantity(s, r) \in Nat
         /\ TotalQuantity(s, r) = AvailableQuantity(s, r) + ReservedQuantity(s, r)
  <1>1. PICK f \in Seq(Nat), g \in Seq(Nat), h \in Seq(Nat) :
          f = Free(s, r) /\ g = Locked(s, r) /\ h = Quantities(s, r)
    BY RoomsAreSeqs
  <1>2. DOMAIN f = DOMAIN s /\ DOMAIN g = DOMAIN f /\ DOMAIN h = DOMAIN f
    BY <1>1, RoomsAreSeqs
  <1>3. \A i \in DOMAIN s : s[i].quantity \in Nat /\ s[i].reserved \in Nat
    BY FittingIsSlot DEF Slot
  <1>4. \A i \in DOMAIN f : h[i] = f[i] + g[i]
    BY <1>1, <1>2, <1>3 DEF Free, Locked, Quantities
  <1>5. Total(h) = Total(f) + Total(g) /\ Total(f) \in Nat
    BY <1>2, <1>4, TotalsAdd, TotalOfSeq
  <1> QED
    BY <1>1, <1>5 DEF AvailableQuantity, TotalQuantity, ReservedQuantity

LEMMA HeadroomIsRest ==
  ASSUME NEW c \in Container, NEW s \in Seq(Fitting(c)), NEW r \in Resource
  PROVE  /\ Total(Headroom(s, r)) \in Nat
         /\ Total(Headroom(s, r)) + TotalQuantity(s, r) = Measured(Its(r), s) * StackLimit[r]
  <1>0. PICK sl \in Seq(Slot) : sl = s
    BY FittingIsSlot
  <1>1. PICK f \in Seq(Nat), g \in Seq(Nat), o \in Seq(Nat) :
          f = Headroom(s, r) /\ g = Quantities(s, r) /\ o = Of(Its(r), s)
    BY <1>0, RoomsAreSeqs, Measures, OfIsSeq, Zenon
  <1>2. DOMAIN f = DOMAIN s /\ DOMAIN g = DOMAIN s /\ DOMAIN o = DOMAIN s
    BY <1>1, RoomsAreSeqs DEF Of
  <1>3. PICK m \in Nat : m = StackLimit[r]
    BY ResourceAssumption
  <1> DEFINE h == [i \in DOMAIN s |-> o[i] * m]
  <1>4. \A i \in DOMAIN s : o[i] = 0 \/ o[i] = 1
    BY <1>0, <1>1 DEF Of, Its
  <1>5. h \in Seq(Nat) /\ DOMAIN h = DOMAIN s /\ \A i \in DOMAIN s : h[i] = o[i] * m
    <2>1. ASSUME NEW k \in {0, 1} PROVE k * m \in Nat
      <3>1. k = 0 \/ k = 1
        OBVIOUS
      <3> QED
        BY <3>1
    <2>2. \A i \in DOMAIN s : o[i] * m \in Nat
      <3>1. \A i \in DOMAIN s : o[i] \in {0, 1}
        BY <1>4
      <3> QED
        BY <2>1, <3>1, Zenon
    <2>3. DOMAIN s = 1 .. Len(s) /\ Len(s) \in Nat
      BY <1>0
    <2> QED
      BY <2>2, <2>3
  <1> HIDE DEF h
  <1>6. \A i \in DOMAIN s : h[i] = f[i] + g[i]
    <2>1. \A i \in DOMAIN s : s[i].quantity \in Nat /\ s[i] \in Slot
      BY FittingIsSlot DEF Slot
    <2>2. ASSUME NEW i \in DOMAIN s PROVE h[i] = f[i] + g[i]
      <3>1. CASE s[i].resource = r
        <4>1. o[i] = 1 /\ f[i] = m - s[i].quantity /\ g[i] = s[i].quantity
          BY <1>1, <1>3, <2>1, <3>1 DEF Of, Its, Headroom, Quantities
        <4>2. h[i] = 1 * m
          BY <1>5, <4>1, Zenon
        <4>3. s[i].quantity \in Nat
          BY <2>1
        <4> QED
          BY <4>1, <4>2, <4>3
      <3>2. CASE s[i].resource # r
        <4>1. o[i] = 0 /\ f[i] = 0 /\ g[i] = 0
          BY <1>1, <2>1, <3>2 DEF Of, Its, Headroom, Quantities
        <4>2. h[i] = 0 * m
          BY <1>5, <4>1, Zenon
        <4> QED
          BY <4>1, <4>2
      <3> QED
        BY <3>1, <3>2
    <2> QED
      BY <2>2
  <1>7. Total(h) = Total(f) + Total(g)
    BY <1>2, <1>5, <1>6, TotalsAdd
  <1>8. Total(h) = Total(o) * m
    BY <1>2, <1>5, TotalScales
  <1>9. Total(f) \in Nat
    BY TotalOfSeq
  <1> QED
    BY <1>1, <1>3, <1>7, <1>8, <1>9 DEF TotalQuantity, Measured

-----------------------------------------------------------------------------
(* t is s with more[i] units and locks[i] locks more in every slot of r.   *)
More(s, t, r, more, locks) ==
  /\ more \in Seq(Nat) /\ locks \in Seq(Nat)
  /\ DOMAIN t = DOMAIN s /\ DOMAIN more = DOMAIN s /\ DOMAIN locks = DOMAIN s
  /\ \A i \in DOMAIN s :
       /\ t[i].resource = s[i].resource
       /\ t[i].quantity = s[i].quantity + more[i]
       /\ t[i].reserved = s[i].reserved + locks[i]
       /\ s[i].resource # r => more[i] = 0 /\ locks[i] = 0

(* t has n units of r, l locked units of r and n volumes more than s.      *)
Differ(s, t, r, n, l) ==
  /\ \A x \in Resource :
       /\ TotalQuantity(t, x) = TotalQuantity(s, x) + (IF x = r THEN n ELSE 0)
       /\ ReservedQuantity(t, x) = ReservedQuantity(s, x) + (IF x = r THEN l ELSE 0)
  /\ Volume(t) = Volume(s) + n * UnitVolume[r]

(* The slots of a kind are as many.                                        *)
SameKinds(s, t) ==
  /\ Len(t) = Len(s)
  /\ \A x \in Resource : /\ Measured(Its(x), t) = Measured(Its(x), s)
                         /\ Measured(Others(x), t) = Measured(Others(x), s)

Nought(s) == [i \in DOMAIN s |-> 0]

LEMMA NoughtIsZero ==
  ASSUME NEW A, NEW s \in Seq(A)
  PROVE  /\ Nought(s) \in Seq(Nat) /\ DOMAIN Nought(s) = DOMAIN s
         /\ \A i \in DOMAIN s : Nought(s)[i] = 0
         /\ Total(Nought(s)) = 0
  <1>1. PICK S, f : S = DOMAIN s /\ f = Nought(s)
    OBVIOUS
  <1>2. IsFiniteSet(S)
    BY <1>1, Places
  <1>3. f \in [S -> Nat] /\ \A x \in S : f[x] = 0
    BY <1>1 DEF Nought
  <1>4. SumOf(f, S) = 0 /\ DOMAIN f = S
    BY <1>2, <1>3, SumIsZero
  <1>5. Total(f) = 0
    BY <1>4, TotalIsSum
  <1>6. Nought(s) \in Seq(Nat) /\ DOMAIN Nought(s) = DOMAIN s
    BY DEF Nought
  <1> QED
    BY <1>1, <1>3, <1>5, <1>6

LEMMA MoreDiffers ==
  ASSUME NEW s \in Seq(Slot), NEW t \in Seq(Slot), NEW r \in Resource,
         NEW more, NEW locks, More(s, t, r, more, locks)
  PROVE  /\ Differ(s, t, r, Total(more), Total(locks)) /\ SameKinds(s, t)
         /\ Total(more) \in Nat /\ Total(locks) \in Nat
  <1>1. /\ more \in Seq(Nat) /\ locks \in Seq(Nat)
        /\ DOMAIN t = DOMAIN s /\ DOMAIN more = DOMAIN s /\ DOMAIN locks = DOMAIN s
    BY DEF More
  <1>2. \A i \in DOMAIN s : /\ s[i] \in Slot /\ t[i] \in Slot /\ s[i].resource \in Resource
                            /\ more[i] \in Nat /\ locks[i] \in Nat
                            /\ s[i].quantity \in Nat /\ s[i].reserved \in Nat
    <2>1. \A i \in DOMAIN s : s[i] \in Slot
      OBVIOUS
    <2>2. \A i \in DOMAIN t : t[i] \in Slot
      OBVIOUS
    <2>3. \A i \in DOMAIN s : more[i] \in Nat
      BY <1>1
    <2>4. \A i \in DOMAIN s : locks[i] \in Nat
      BY <1>1
    <2>5. \A x \in Slot : x.resource \in Resource /\ x.quantity \in Nat /\ x.reserved \in Nat
      BY DEF Slot
    <2> QED
      BY <1>1, <2>1, <2>2, <2>3, <2>4, <2>5, Zenon
  <1>3. \A i \in DOMAIN s :
          /\ t[i].resource = s[i].resource
          /\ t[i].quantity = s[i].quantity + more[i]
          /\ t[i].reserved = s[i].reserved + locks[i]
          /\ s[i].resource # r => more[i] = 0 /\ locks[i] = 0
    BY DEF More
  <1>4. Total(more) \in Nat /\ Total(locks) \in Nat
    BY <1>1, TotalOfSeq
  <1>5. ASSUME NEW x \in Resource
        PROVE  TotalQuantity(t, x) = TotalQuantity(s, x) + (IF x = r THEN Total(more) ELSE 0)
    <2>0. TotalQuantity(s, x) \in Nat
      BY TotalsMeasure
    <2>1. CASE x = r
      <3>1. \A i \in DOMAIN s : Qty(r)[t[i]] = Qty(r)[s[i]] + more[i]
        BY <1>2, <1>3 DEF Qty
      <3>2. Raised(Slot, Qty(r), s, t, more)
        BY <1>1, <3>1, Measures DEF Raised
      <3> QED
        BY <2>1, <3>2, MeasuredMore, TotalsMeasure
    <2>2. CASE x # r
      <3>1. \A i \in DOMAIN s : Qty(x)[t[i]] = Qty(x)[s[i]]
        BY <1>2, <1>3, <2>2 DEF Qty
      <3>2. Measured(Qty(x), t) = Measured(Qty(x), s)
        BY <1>1, <3>1, MeasuredSame, Zenon
      <3>3. TotalQuantity(t, x) = Measured(Qty(x), t) /\ TotalQuantity(s, x) = Measured(Qty(x), s)
        BY TotalsMeasure
      <3> QED
        BY <2>0, <2>2, <3>2, <3>3
    <2> QED
      BY <1>4, <2>0, <2>1, <2>2
  <1>6. ASSUME NEW x \in Resource
        PROVE  ReservedQuantity(t, x) = ReservedQuantity(s, x) + (IF x = r THEN Total(locks) ELSE 0)
    <2>0. ReservedQuantity(s, x) \in Nat
      BY TotalsMeasure
    <2>1. CASE x = r
      <3>1. \A i \in DOMAIN s : Res(r)[t[i]] = Res(r)[s[i]] + locks[i]
        BY <1>2, <1>3 DEF Res
      <3>2. Raised(Slot, Res(r), s, t, locks)
        BY <1>1, <3>1, Measures DEF Raised
      <3> QED
        BY <2>1, <3>2, MeasuredMore, TotalsMeasure
    <2>2. CASE x # r
      <3>1. \A i \in DOMAIN s : Res(x)[t[i]] = Res(x)[s[i]]
        BY <1>2, <1>3, <2>2 DEF Res
      <3>2. Measured(Res(x), t) = Measured(Res(x), s)
        BY <1>1, <3>1, MeasuredSame, Zenon
      <3>3. ReservedQuantity(t, x) = Measured(Res(x), t) /\ ReservedQuantity(s, x) = Measured(Res(x), s)
        BY TotalsMeasure
      <3> QED
        BY <2>0, <2>2, <3>2, <3>3
    <2> QED
      BY <1>4, <2>0, <2>1, <2>2
  <1>7. Volume(t) = Volume(s) + Total(more) * UnitVolume[r]
    <2>1. PICK u \in Nat : u = UnitVolume[r]
      BY ResourceAssumption
    <2> DEFINE h == [i \in DOMAIN s |-> more[i] * u]
    <2>2. h \in Seq(Nat) /\ DOMAIN h = DOMAIN s /\ \A i \in DOMAIN s : h[i] = more[i] * u
      <3>1. \A i \in DOMAIN s : more[i] * u \in Nat
        <4>1. \A k \in Nat : k * u \in Nat
          OBVIOUS
        <4> QED
          BY <1>2, <4>1, Zenon
      <3>2. DOMAIN s = 1 .. Len(s) /\ Len(s) \in Nat
        OBVIOUS
      <3> QED
        BY <3>1, <3>2
    <2> HIDE DEF h
    <2>3. Total(h) = Total(more) * u
      BY <1>1, <2>2, TotalScales
    <2>4. ASSUME NEW i \in DOMAIN s PROVE Vol[t[i]] = Vol[s[i]] + h[i]
      <3>1. CASE s[i].resource = r
        <4>1. Vol[t[i]] = (s[i].quantity + more[i]) * u /\ Vol[s[i]] = s[i].quantity * u /\ h[i] = more[i] * u
          BY <1>2, <1>3, <2>1, <2>2, <3>1, Zenon DEF Vol
        <4>2. \A a \in Nat, b \in Nat : (a + b) * u = a * u + b * u
          OBVIOUS
        <4> QED
          BY <1>2, <4>1, <4>2
      <3>2. CASE s[i].resource # r
        <4>1. more[i] = 0
          BY <1>3, <3>2
        <4>2. t[i].quantity = s[i].quantity /\ t[i].resource = s[i].resource
          BY <1>2, <1>3, <4>1
        <4>3. Vol[t[i]] = Vol[s[i]] /\ Vol[s[i]] \in Nat
          BY <1>2, <4>2, Measures, Zenon DEF Vol
        <4>4. h[i] = 0 * u
          BY <2>2, <4>1, Zenon
        <4> QED
          BY <4>3, <4>4
      <3> QED
        BY <3>1, <3>2
    <2>5. Measured(Vol, t) = Measured(Vol, s) + Total(h)
      <3>1. Raised(Slot, Vol, s, t, h)
        BY <1>1, <2>2, <2>4, Measures DEF Raised
      <3> QED
        BY <3>1, MeasuredMore
    <2> QED
      BY <2>1, <2>3, <2>5, TotalsMeasure, Zenon
  <1>8. SameKinds(s, t)
    <2>1. ASSUME NEW x \in Resource
          PROVE  Measured(Its(x), t) = Measured(Its(x), s) /\ Measured(Others(x), t) = Measured(Others(x), s)
      <3>1. \A i \in DOMAIN s : Its(x)[t[i]] = Its(x)[s[i]] /\ Others(x)[t[i]] = Others(x)[s[i]]
        BY <1>2, <1>3 DEF Its, Others
      <3> QED
        BY <1>1, <3>1, MeasuredSame, Zenon
    <2>2. Len(t) = Len(s)
      BY <2>1, TotalsMeasure
    <2> QED
      BY <2>1, <2>2 DEF SameKinds
  <1> QED
    BY <1>4, <1>5, <1>6, <1>7, <1>8 DEF Differ

-----------------------------------------------------------------------------
(* Opening new slots.                                                      *)

LEMMA ProductsGrow ==
  ASSUME NEW a \in Nat, NEW b \in Nat, NEW m \in Nat, a <= b
  PROVE  a * m <= b * m /\ a * m \in Nat
  <1>1. PICK d \in Nat : d = b - a
    OBVIOUS
  <1>2. b * m = a * m + d * m
    BY <1>1
  <1>3. d * m \in Nat /\ a * m \in Nat
    OBVIOUS
  <1> QED
    BY <1>2, <1>3

LEMMA CeilDivBounds ==
  ASSUME NEW a \in Nat, NEW m \in Nat \ {0}
  PROVE  /\ CeilDiv(a, m) \in Nat
         /\ a <= CeilDiv(a, m) * m
         /\ \A j \in Nat : a <= j * m => CeilDiv(a, m) <= j
  <1>1. PICK q \in Int, p \in Int : q = CeilDiv(a, m) /\ p = (a + m - 1) % m
    BY DEF CeilDiv
  <1>2. a + m - 1 = m * q + p /\ 0 <= p /\ p < m
    BY <1>1 DEF CeilDiv
  <1>3. q >= 0
    <2> SUFFICES ASSUME q <= -1 PROVE FALSE
      OBVIOUS
    <2>1. PICK d \in Nat : q = -1 - d
      <3>1. -1 - q \in Nat /\ q = -1 - (-1 - q)
        OBVIOUS
      <3> QED
        BY <3>1
    <2>2. m * q = -m - m * d /\ m * d \in Nat
      BY <2>1
    <2> QED
      BY <1>2, <2>2
  <1>4. q * m = m * q
    OBVIOUS
  <1>5. a <= q * m
    BY <1>2, <1>4
  <1>6. ASSUME NEW j \in Nat, a <= j * m, j < q PROVE FALSE
    <2>1. (j + 1) * m <= q * m
      BY <1>3, <1>6, ProductsGrow
    <2>2. (j + 1) * m = j * m + m /\ j * m \in Nat
      OBVIOUS
    <2> QED
      BY <1>2, <1>4, <1>6, <2>1, <2>2
  <1> QED
    BY <1>1, <1>3, <1>5, <1>6

(* What the new slots get, one after the other.                            *)
Portions(amount, m, k) == [j \in 1 .. k |-> Least(m, amount - (j - 1) * m)]

LEMMA PortionsAddUp ==
  ASSUME NEW amount \in Nat, NEW m \in Nat \ {0}
  PROVE  /\ Portions(amount, m, CeilDiv(amount, m)) \in Seq(Nat)
         /\ \A i \in 1 .. CeilDiv(amount, m) : Portions(amount, m, CeilDiv(amount, m))[i] <= m
         /\ Total(Portions(amount, m, CeilDiv(amount, m))) = amount
  <1>1. PICK c \in Nat : /\ c = CeilDiv(amount, m) /\ amount <= c * m
                         /\ \A j \in Nat : amount <= j * m => c <= j
    BY CeilDivBounds, Zenon
  <1> DEFINE P(k) == Portions(amount, m, k)
             N == {k \in Nat : k <= c => P(k) \in Seq(Nat) /\ Total(P(k)) = Least(k * m, amount)}
  <1>2. 0 \in N
    <2>1. P(0) = <<>>
      BY DEF Portions
    <2>2. Least(0 * m, amount) = 0
      BY DEF Least
    <2>3. P(0) \in Seq(Nat) /\ Total(P(0)) = Least(0 * m, amount)
      <3>1. <<>> \in Seq(Nat)
        OBVIOUS
      <3> QED
        BY <2>1, <2>2, <3>1, TotalOfNone, Zenon
    <2> QED
      BY <2>3
  <1>3. ASSUME NEW k \in Nat, k \in N PROVE k + 1 \in N
    <2> SUFFICES ASSUME k + 1 <= c PROVE P(k + 1) \in Seq(Nat) /\ Total(P(k + 1)) = Least((k + 1) * m, amount)
      OBVIOUS
    <2>1. PICK w \in Nat : w = k * m
      OBVIOUS
    <2>2. w < amount
      <3>1. ~(c <= k)
        OBVIOUS
      <3> QED
        BY <1>1, <2>1, <3>1
    <2>3. P(k) \in Seq(Nat) /\ Total(P(k)) = w
      BY <1>3, <2>1, <2>2 DEF Least
    <2>4. PICK x \in Nat : x = Least(m, amount - w) /\ x <= m
      <3>1. PICK d \in Nat : d = amount - w
        BY <2>2
      <3>2. Least(m, d) \in Nat /\ Least(m, d) <= m
        BY DEF Least
      <3> QED
        BY <3>1, <3>2
    <2>5. P(k + 1) = Append(P(k), x)
      BY <2>1, <2>4 DEF Portions
    <2> HIDE DEF P
    <2>6. P(k + 1) \in Seq(Nat) /\ Total(P(k + 1)) = w + x
      <3>1. PICK f \in Seq(Nat) : f = P(k)
        BY <2>3
      <3>2. Total(Append(f, x)) = Total(f) + x /\ Append(f, x) \in Seq(Nat)
        BY TotalAppend
      <3> QED
        BY <2>3, <2>5, <3>1, <3>2, Zenon
    <2>7. (k + 1) * m = w + m
      BY <2>1
    <2> QED
      BY <2>2, <2>4, <2>6, <2>7 DEF Least
  <1> HIDE DEF P, N
  <1>4. c \in N
    BY <1>2, <1>3, NaturalInduction
  <1>5. P(c) \in Seq(Nat) /\ Total(P(c)) = Least(c * m, amount)
    BY <1>4 DEF N
  <1>6. Least(c * m, amount) = amount
    BY <1>1 DEF Least
  <1>7. ASSUME NEW i \in 1 .. c PROVE P(c)[i] <= m
    <2>1. P(c)[i] = Least(m, amount - (i - 1) * m)
      BY DEF P, Portions
    <2>2. PICK w \in Int : w = amount - (i - 1) * m
      OBVIOUS
    <2> QED
      BY <2>1, <2>2 DEF Least
  <1> QED
    BY <1>1, <1>5, <1>6, <1>7 DEF P

LEMMA NewSlotsHold ==
  ASSUME NEW c \in Container, NEW r \in Resource, NEW amount \in Nat, Takes(c, r)
  PROVE  LET new == NewSlots(r, amount) IN
           /\ new \in Seq(Fitting(c)) /\ Len(new) = CeilDiv(amount, StackLimit[r])
           /\ \A x \in Resource :
                /\ TotalQuantity(new, x) = IF x = r THEN amount ELSE 0
                /\ ReservedQuantity(new, x) = 0
           /\ Volume(new) = amount * UnitVolume[r]
  <1>1. PICK m \in Nat \ {0} : m = StackLimit[r]
    BY ResourceAssumption
  <1>2. PICK n \in Nat : n = CeilDiv(amount, m)
    BY CeilDivBounds
  <1>3. PICK p \in Seq(Nat) : /\ p = Portions(amount, m, n) /\ Total(p) = amount
                              /\ \A i \in 1 .. n : p[i] <= m
    BY <1>2, PortionsAddUp, Zenon
  <1>4. DOMAIN p = 1 .. n /\ \A i \in 1 .. n : p[i] = Least(m, amount - (i - 1) * m) /\ p[i] \in Nat
    <2>1. DOMAIN p = 1 .. n /\ \A i \in 1 .. n : p[i] = Least(m, amount - (i - 1) * m)
      BY <1>3 DEF Portions
    <2>2. \A i \in DOMAIN p : p[i] \in Nat
      OBVIOUS
    <2> QED
      BY <2>1, <2>2
  <1>5. PICK new : new = NewSlots(r, amount)
    OBVIOUS
  <1>6. new = [i \in 1 .. n |-> [resource |-> r, reserved |-> 0, quantity |-> p[i]]]
    BY <1>1, <1>2, <1>4, <1>5 DEF NewSlots
  <1>7. \A i \in 1 .. n : [resource |-> r, reserved |-> 0, quantity |-> p[i]] \in Fitting(c)
    BY <1>1, <1>3, <1>4 DEF Fitting, Slot
  <1>8. new \in Seq(Fitting(c)) /\ Len(new) = n /\ DOMAIN new = 1 .. n
    BY <1>6, <1>7
  <1>9. \A i \in 1 .. n : new[i].resource = r /\ new[i].quantity = p[i] /\ new[i].reserved = 0
    BY <1>6
  <1>10. Total(Nought(new)) = 0
    BY <1>8, NoughtIsZero
  <1>11. ASSUME NEW x \in Resource PROVE ReservedQuantity(new, x) = 0
    <2>1. Locked(new, x) = Nought(new)
      BY <1>8, <1>9 DEF Locked, Nought
    <2> QED
      BY <1>10, <2>1 DEF ReservedQuantity
  <1>12. ASSUME NEW x \in Resource PROVE TotalQuantity(new, x) = IF x = r THEN amount ELSE 0
    <2>1. CASE x = r
      <3>1. Quantities(new, x) = p
        BY <1>4, <1>8, <1>9, <2>1 DEF Quantities
      <3> QED
        BY <1>3, <2>1, <3>1 DEF TotalQuantity
    <2>2. CASE x # r
      <3>1. Quantities(new, x) = Nought(new)
        BY <1>8, <1>9, <2>2 DEF Quantities, Nought
      <3> QED
        BY <1>10, <2>2, <3>1 DEF TotalQuantity
    <2> QED
      BY <2>1, <2>2
  <1>13. Volume(new) = amount * UnitVolume[r]
    <2>1. PICK u \in Nat : u = UnitVolume[r]
      BY ResourceAssumption
    <2> DEFINE h == [i \in DOMAIN new |-> new[i].quantity * UnitVolume[new[i].resource]]
    <2>2. DOMAIN h = 1 .. n /\ \A i \in 1 .. n : h[i] = p[i] * u
      BY <1>8, <1>9, <2>1
    <2>3. h \in Seq(Nat)
      <3>1. \A i \in 1 .. n : p[i] * u \in Nat
        <4>1. \A k \in Nat : k * u \in Nat
          OBVIOUS
        <4> QED
          BY <1>4, <4>1, Zenon
      <3>2. h = [i \in 1 .. n |-> h[i]]
        BY <2>2
      <3> QED
        BY <2>2, <3>1, <3>2
    <2>4. Volume(new) = Total(h)
      BY DEF Volume
    <2> HIDE DEF h
    <2>5. Total(h) = Total(p) * u
      BY <1>4, <2>2, <2>3, TotalScales
    <2> QED
      BY <1>3, <2>1, <2>4, <2>5
  <1> QED
    BY <1>1, <1>2, <1>5, <1>8, <1>11, <1>12, <1>13

-----------------------------------------------------------------------------
(* The five walks.                                                         *)

LEMMA ConcatTotals ==
  ASSUME NEW s \in Seq(Slot), NEW t \in Seq(Slot)
  PROVE  /\ s \o t \in Seq(Slot) /\ Len(s \o t) = Len(s) + Len(t)
         /\ Volume(s \o t) = Volume(s) + Volume(t)
         /\ \A x \in Resource :
              /\ TotalQuantity(s \o t, x) = TotalQuantity(s, x) + TotalQuantity(t, x)
              /\ ReservedQuantity(s \o t, x) = ReservedQuantity(s, x) + ReservedQuantity(t, x)
  <1>1. PICK u \in Seq(Slot) : u = s \o t
    BY ConcatProperties, Zenon
  <1>2. Len(u) = Len(s) + Len(t)
    BY <1>1
  <1>3. ASSUME NEW m \in [Slot -> Nat] PROVE Measured(m, u) = Measured(m, s) + Measured(m, t)
    BY <1>1, MeasuredConcat, Zenon
  <1>4. ASSUME NEW x \in Resource
        PROVE  /\ TotalQuantity(u, x) = TotalQuantity(s, x) + TotalQuantity(t, x)
               /\ ReservedQuantity(u, x) = ReservedQuantity(s, x) + ReservedQuantity(t, x)
    <2>1. /\ Measured(Qty(x), u) = Measured(Qty(x), s) + Measured(Qty(x), t)
          /\ Measured(Res(x), u) = Measured(Res(x), s) + Measured(Res(x), t)
      BY <1>3, Measures
    <2> QED
      BY <2>1, TotalsMeasure
  <1>5. Volume(u) = Volume(s) + Volume(t)
    <2>1. CASE Resource = {}
      <3>1. Slot = {}
        BY <2>1 DEF Slot
      <3>2. s = <<>> /\ t = <<>> /\ u = <<>>
        BY <1>1, <3>1
      <3>3. Volume(<<>>) = 0
        <4>1. [i \in DOMAIN <<>> |-> <<>>[i].quantity * UnitVolume[<<>>[i].resource]] = <<>>
          OBVIOUS
        <4> QED
          BY <4>1, TotalOfNone DEF Volume
      <3> QED
        BY <3>2, <3>3
    <2>2. CASE Resource # {}
      <3>1. PICK x \in Resource : TRUE
        BY <2>2
      <3>2. Measured(Vol, u) = Measured(Vol, s) + Measured(Vol, t)
        BY <1>3, <3>1, Measures
      <3> QED
        BY <3>1, <3>2, TotalsMeasure
    <2> QED
      BY <2>1, <2>2
  <1> QED
    BY <1>1, <1>2, <1>4, <1>5

(* The slots c can have after something was taken out of s: n units of r,  *)
(* l of them locked, and never a slot more.                                *)
Leaves(c, s, k, r, n, l) ==
  /\ k \in Seq(Fitting(c)) /\ Differ(k, s, r, n, l) /\ Len(k) <= Len(s)
  /\ Measured(Others(r), k) <= Measured(Others(r), s)

LEMMA DropWorks ==
  ASSUME NEW c \in Container, NEW s \in Seq(Fitting(c)), NEW t \in Seq(Fitting(c)), NEW r \in Resource,
         NEW more, NEW locks, More(t, s, r, more, locks)
  PROVE  Leaves(c, s, DropEmpty(t), r, Total(more), Total(locks))
  <1>1. PICK k : k = DropEmpty(t)
    OBVIOUS
  <1>2. s \in Seq(Slot) /\ t \in Seq(Slot) /\ Fitting(c) \subseteq Slot
    BY FittingIsSlot
  <1>3. Kept(Fitting(c), t, k) /\ Kept(Slot, t, k)
    <2>1. PICK T, S : T = Fitting(c) /\ S = Slot
      OBVIOUS
    <2>2. Kept(T, t, k) /\ Kept(S, t, k)
      BY <1>1, <1>2, <2>1, DropEmptyKeeps
    <2> QED
      BY <2>1, <2>2
  <1>4. k \in Seq(Fitting(c)) /\ k \in Seq(Slot)
    BY <1>3 DEF Kept
  <1>5. ASSUME NEW x \in Resource
        PROVE  /\ TotalQuantity(k, x) = TotalQuantity(t, x) /\ ReservedQuantity(k, x) = ReservedQuantity(t, x)
               /\ Volume(k) = Volume(t)
               /\ Measured(Its(x), k) <= Measured(Its(x), t)
               /\ Measured(Others(x), k) <= Measured(Others(x), t)
    <2>1. \A m \in [Slot -> Nat] :
            /\ Measured(m, k) <= Measured(m, t)
            /\ (\A y \in Slot : y.quantity = 0 /\ y.reserved = 0 => m[y] = 0) => Measured(m, k) = Measured(m, t)
      BY <1>3 DEF Kept
    <2>2. \A y \in Slot : y.quantity = 0 /\ y.reserved = 0 => Qty(x)[y] = 0 /\ Res(x)[y] = 0
      BY DEF Qty, Res
    <2>3. ASSUME NEW y \in Slot, y.quantity = 0 PROVE Vol[y] = 0
      <3>1. UnitVolume[y.resource] \in Nat
        BY ResourceAssumption DEF Slot
      <3>2. Vol[y] = 0 * UnitVolume[y.resource]
        BY <2>3 DEF Vol
      <3> QED
        BY <3>1, <3>2
    <2>4. /\ Measured(Qty(x), k) = Measured(Qty(x), t) /\ Measured(Res(x), k) = Measured(Res(x), t)
          /\ Measured(Vol, k) = Measured(Vol, t)
          /\ Measured(Its(x), k) <= Measured(Its(x), t)
          /\ Measured(Others(x), k) <= Measured(Others(x), t)
      BY <2>1, <2>2, <2>3, Measures, Zenon
    <2> QED
      BY <1>2, <1>4, <2>4, TotalsMeasure
  <1>6. Differ(t, s, r, Total(more), Total(locks)) /\ SameKinds(t, s)
    BY <1>2, MoreDiffers
  <1>7. Differ(k, s, r, Total(more), Total(locks))
    BY <1>5, <1>6 DEF Differ
  <1>8. Len(k) <= Len(s) /\ Measured(Others(r), k) <= Measured(Others(r), s)
    <2>1. /\ Len(k) = Measured(Its(r), k) + Measured(Others(r), k)
          /\ Len(t) = Measured(Its(r), t) + Measured(Others(r), t)
          /\ Measured(Its(r), k) \in Nat /\ Measured(Others(r), k) \in Nat
          /\ Measured(Its(r), t) \in Nat /\ Measured(Others(r), t) \in Nat
      BY <1>2, <1>4, TotalsMeasure
    <2>2. Len(s) = Len(t) /\ Measured(Others(r), s) = Measured(Others(r), t)
      BY <1>6 DEF SameKinds
    <2> QED
      BY <1>5, <2>1, <2>2
  <1> QED
    BY <1>1, <1>4, <1>7, <1>8 DEF Leaves

(* A slot that is changed within its stack and its locks is a slot of c.   *)
StillFits(s, t, i) ==
  /\ t[i] = [resource |-> s[i].resource, quantity |-> t[i].quantity, reserved |-> t[i].reserved]
  /\ t[i].quantity \in Nat /\ t[i].reserved \in Nat
  /\ t[i].reserved <= t[i].quantity
  /\ t[i].quantity <= StackLimit[s[i].resource]

LEMMA SlotsFit ==
  ASSUME NEW c \in Container, NEW s \in Seq(Fitting(c)), NEW t, t = [i \in DOMAIN s |-> t[i]],
         \A i \in DOMAIN s : StillFits(s, t, i)
  PROVE  t \in Seq(Fitting(c)) /\ DOMAIN t = DOMAIN s /\ \A i \in DOMAIN s : t[i].resource = s[i].resource
  <1>1. ASSUME NEW i \in DOMAIN s PROVE t[i] \in Fitting(c) /\ t[i].resource = s[i].resource
    <2>1. s[i] \in Fitting(c)
      BY FittingIsSlot
    <2>2. PICK x \in Resource, q \in Nat, p \in Nat :
            x = s[i].resource /\ q = t[i].quantity /\ p = t[i].reserved
      BY <2>1 DEF Fitting, Slot, StillFits
    <2>3. t[i] = [resource |-> x, quantity |-> q, reserved |-> p] /\ p <= q /\ q <= StackLimit[x]
      BY <2>2 DEF StillFits
    <2>4. x \in Resource /\ Takes(c, x)
      BY <2>1, <2>2 DEF Fitting, Slot
    <2> QED
      BY <2>2, <2>3, <2>4 DEF Fitting, Slot
  <1>2. DOMAIN s = 1 .. Len(s) /\ Len(s) \in Nat
    OBVIOUS
  <1> QED
    BY <1>1, <1>2

(* The shares of a walk over what the slots have of r.                     *)
Walked(s, r, amount, room, share) ==
  /\ Shared(room, amount, share)
  /\ room = Free(s, r) \/ room = Locked(s, r) \/ room = Headroom(s, r)

IsShare(s, r, room, share, i) ==
  /\ s[i] \in Slot /\ s[i].quantity \in Nat /\ s[i].reserved \in Nat
  /\ s[i].reserved <= s[i].quantity /\ s[i].quantity <= StackLimit[s[i].resource]
  /\ StackLimit[s[i].resource] \in Nat
  /\ share[i] \in Nat
  /\ s[i].resource # r => share[i] = 0
  /\ room = Free(s, r) => s[i].reserved + share[i] <= s[i].quantity
  /\ room = Locked(s, r) => share[i] <= s[i].reserved
  /\ room = Headroom(s, r) => s[i].quantity + share[i] <= StackLimit[s[i].resource]

LEMMA ShareAt ==
  ASSUME NEW c \in Container, NEW s \in Seq(Fitting(c)), NEW r \in Resource, NEW amount \in Nat,
         NEW room, NEW share, Walked(s, r, amount, room, share)
  PROVE  /\ share \in Seq(Nat) /\ DOMAIN share = DOMAIN s
         /\ Total(share) = Least(amount, Total(room)) /\ Total(room) \in Nat
         /\ \A i \in DOMAIN s : IsShare(s, r, room, share, i)
  <1>1. room \in Seq(Nat) /\ DOMAIN room = DOMAIN s
    BY RoomsAreSeqs DEF Walked
  <1>2. share \in Seq(Nat) /\ DOMAIN share = DOMAIN s /\ Total(share) = Least(amount, Total(room))
    BY <1>1 DEF Walked, Shared
  <1>3. \A i \in DOMAIN share : share[i] \in Nat
    BY <1>2
  <1>4. \A i \in DOMAIN room : share[i] <= room[i]
    BY DEF Walked, Shared
  <1>5. ASSUME NEW i \in DOMAIN s
        PROVE  /\ s[i] \in Slot /\ s[i].quantity \in Nat /\ s[i].reserved \in Nat
               /\ s[i].reserved <= s[i].quantity /\ s[i].quantity <= StackLimit[s[i].resource]
               /\ StackLimit[s[i].resource] \in Nat
    <2>1. s[i] \in Fitting(c)
      BY FittingIsSlot
    <2>2. \A x \in Fitting(c) :
            /\ x \in Slot /\ x.quantity \in Nat /\ x.reserved \in Nat
            /\ x.reserved <= x.quantity /\ x.quantity <= StackLimit[x.resource]
            /\ x.resource \in Resource
      BY DEF Fitting, Slot
    <2> QED
      BY <2>1, <2>2, ResourceAssumption
  <1>6. ASSUME NEW i \in DOMAIN s
        PROVE  /\ share[i] \in Nat
               /\ s[i].resource # r => share[i] = 0
               /\ room = Free(s, r) => s[i].reserved + share[i] <= s[i].quantity
               /\ room = Locked(s, r) => share[i] <= s[i].reserved
               /\ room = Headroom(s, r) => s[i].quantity + share[i] <= StackLimit[s[i].resource]
    <2>1. PICK k \in Nat, q \in Nat, p \in Nat, m \in Nat :
            /\ k = share[i] /\ q = s[i].quantity /\ p = s[i].reserved /\ m = StackLimit[s[i].resource]
            /\ p <= q /\ q <= m /\ k <= room[i]
      BY <1>1, <1>2, <1>3, <1>4, <1>5, Zenon
    <2>2. CASE s[i].resource = r
      <3>1. /\ room = Free(s, r) => room[i] = q - p
            /\ room = Locked(s, r) => room[i] = p
            /\ room = Headroom(s, r) => room[i] = m - q
        BY <2>1, <2>2 DEF Free, Locked, Headroom
      <3> QED
        BY <2>1, <2>2, <3>1
    <2>3. CASE s[i].resource # r
      <3>1. room[i] = 0
        BY <2>3 DEF Walked, Free, Locked, Headroom
      <3>2. k = 0
        BY <2>1, <3>1
      <3> QED
        BY <2>1, <3>2
    <2> QED
      BY <2>2, <2>3
  <1>7. Total(room) \in Nat
    BY <1>1, TotalOfSeq
  <1> QED
    BY <1>2, <1>5, <1>6, <1>7, Zenon DEF IsShare

MoreAt(s, t, r, more, locks, i) ==
  /\ t[i].resource = s[i].resource
  /\ t[i].quantity = s[i].quantity + more[i]
  /\ t[i].reserved = s[i].reserved + locks[i]
  /\ s[i].resource # r => more[i] = 0 /\ locks[i] = 0

LEMMA FillWorks ==
  ASSUME NEW c \in Container, NEW s \in Seq(Fitting(c)), NEW r \in Resource, NEW n \in Nat
  PROVE  /\ Fill(s, r, n) \in Seq(Fitting(c)) /\ Len(Fill(s, r, n)) = Len(s)
         /\ Unplaced(s, r, n) \in Nat /\ Unplaced(s, r, n) <= n
         /\ Unplaced(s, r, n) = 0 \/ Unplaced(s, r, n) = n - Total(Headroom(s, r))
         /\ Differ(s, Fill(s, r, n), r, n - Unplaced(s, r, n), 0)
  <1>1. PICK share, room : share = Spread(Headroom(s, r), n) /\ room = Headroom(s, r)
    OBVIOUS
  <1>2. Walked(s, r, n, room, share)
    <2>1. room \in Seq(Nat) /\ Shared(room, n, share)
      BY <1>1, RoomsAreSeqs, SpreadShares, Zenon
    <2> QED
      BY <1>1, <2>1 DEF Walked
  <1>3. /\ share \in Seq(Nat) /\ DOMAIN share = DOMAIN s
        /\ Total(share) = Least(n, Total(room)) /\ Total(room) \in Nat
    BY <1>2, ShareAt
  <1>5. PICK t : t = [i \in DOMAIN s |-> [s[i] EXCEPT !.quantity = @ + share[i]]]
    BY Zenon
  <1>6. PICK z \in Seq(Nat) : /\ z = Nought(s) /\ DOMAIN z = DOMAIN s /\ Total(z) = 0
                              /\ \A i \in DOMAIN s : z[i] = 0
    BY NoughtIsZero
  <1>7. ASSUME NEW i \in DOMAIN s PROVE StillFits(s, t, i) /\ MoreAt(s, t, r, share, z, i)
    <2>1. PICK k \in Nat, q \in Nat, p \in Nat, m \in Nat :
            /\ k = share[i] /\ q = s[i].quantity /\ p = s[i].reserved /\ m = StackLimit[s[i].resource]
            /\ s[i] \in Slot /\ p <= q /\ q <= m
            /\ s[i].resource # r => k = 0
            /\ q + k <= m
      <3>1. /\ s[i] \in Slot /\ s[i].quantity \in Nat /\ s[i].reserved \in Nat
            /\ s[i].reserved <= s[i].quantity /\ s[i].quantity <= StackLimit[s[i].resource]
            /\ StackLimit[s[i].resource] \in Nat
            /\ share[i] \in Nat
            /\ s[i].resource # r => share[i] = 0
            /\ s[i].quantity + share[i] <= StackLimit[s[i].resource]
        <4>1. IsShare(s, r, room, share, i)
          BY <1>2, ShareAt
        <4> QED
          BY <1>1, <4>1, Zenon DEF IsShare
      <3> QED
        BY <3>1, Zenon
    <2>2. t[i] = [resource |-> s[i].resource, quantity |-> q + k, reserved |-> p]
      <3>1. t[i] = [s[i] EXCEPT !.quantity = @ + share[i]]
        BY <1>5, Zenon
      <3>2. PICK x \in Slot : x = s[i]
        BY <2>1
      <3> QED
        BY <2>1, <3>1, <3>2, Zenon DEF Slot
    <2>3. /\ t[i].resource = s[i].resource /\ t[i].quantity = q + k /\ t[i].reserved = p
      BY <2>2
    <2>4. q + k \in Nat /\ p \in Nat /\ p <= q + k /\ q + k <= m
      <3>1. q + k <= m /\ p <= q /\ q <= m
        BY <2>1
      <3> QED
        BY <3>1
    <2>5. StillFits(s, t, i)
      BY <2>1, <2>2, <2>3, <2>4, Zenon DEF StillFits
    <2>6. DOMAIN t = DOMAIN s /\ z[i] = 0
      BY <1>5, <1>6
    <2>7. MoreAt(s, t, r, share, z, i)
      <3>1. q + k = q + k /\ p = p + 0
        OBVIOUS
      <3>2. /\ t[i].resource = s[i].resource
            /\ t[i].quantity = s[i].quantity + share[i] /\ t[i].reserved = s[i].reserved + z[i]
        BY <2>1, <2>3, <2>6, <3>1, Zenon
      <3>3. s[i].resource # r => share[i] = 0 /\ z[i] = 0
        BY <2>1, <2>6, Zenon
      <3> QED
        BY <2>3, <3>2, <3>3, Zenon DEF MoreAt
    <2> QED
      BY <2>5, <2>7
  <1>8. t \in Seq(Fitting(c)) /\ DOMAIN t = DOMAIN s
    <2>1. t = [i \in DOMAIN s |-> t[i]]
      BY <1>5
    <2> QED
      BY <1>7, <2>1, SlotsFit, Zenon
  <1>9. More(s, t, r, share, z)
    BY <1>3, <1>6, <1>7, <1>8 DEF More, MoreAt
  <1>10. Differ(s, t, r, Total(share), 0) /\ Len(t) = Len(s)
    BY <1>6, <1>8, <1>9, FittingIsSlot, MoreDiffers DEF SameKinds
  <1>11. t = Fill(s, r, n) /\ Unplaced(s, r, n) = n - Total(share)
    BY <1>1, <1>5 DEF Fill, Unplaced
  <1>12. PICK k \in Nat, h \in Nat : k = Total(share) /\ h = Total(room) /\ k = Least(n, h)
    BY <1>3, LeastFacts
  <1>13. n - k \in Nat /\ n - k <= n /\ (n - k = 0 \/ n - k = n - h) /\ k = n - (n - k)
    BY <1>12 DEF Least
  <1> QED
    BY <1>1, <1>8, <1>10, <1>11, <1>12, <1>13

LEMMA LockWorks ==
  ASSUME NEW c \in Container, NEW s \in Seq(Fitting(c)), NEW r \in Resource, NEW n \in Nat,
         n <= AvailableQuantity(s, r)
  PROVE  /\ Lock(s, r, n) \in Seq(Fitting(c)) /\ Len(Lock(s, r, n)) = Len(s)
         /\ Differ(s, Lock(s, r, n), r, 0, n)
  <1>1. PICK share, room : share = Spread(Free(s, r), n) /\ room = Free(s, r)
    OBVIOUS
  <1>2. Walked(s, r, n, room, share)
    <2>1. room \in Seq(Nat) /\ Shared(room, n, share)
      BY <1>1, RoomsAreSeqs, SpreadShares
    <2> QED
      BY <1>1, <2>1 DEF Walked
  <1>3. /\ share \in Seq(Nat) /\ DOMAIN share = DOMAIN s
        /\ Total(share) = Least(n, Total(room)) /\ Total(room) \in Nat
    BY <1>2, ShareAt
  <1>4. Total(share) = n
    BY <1>1, <1>3 DEF Least, AvailableQuantity
  <1>5. PICK t : t = [i \in DOMAIN s |-> [s[i] EXCEPT !.reserved = @ + share[i]]]
    BY Zenon
  <1>6. PICK z \in Seq(Nat) : /\ z = Nought(s) /\ DOMAIN z = DOMAIN s /\ Total(z) = 0
                              /\ \A i \in DOMAIN s : z[i] = 0
    BY NoughtIsZero
  <1>7. ASSUME NEW i \in DOMAIN s PROVE StillFits(s, t, i) /\ MoreAt(s, t, r, z, share, i)
    <2>1. PICK k \in Nat, q \in Nat, p \in Nat, m \in Nat :
            /\ k = share[i] /\ q = s[i].quantity /\ p = s[i].reserved /\ m = StackLimit[s[i].resource]
            /\ s[i] \in Slot /\ p <= q /\ q <= m
            /\ s[i].resource # r => k = 0
            /\ p + k <= q
      <3>1. /\ s[i] \in Slot /\ s[i].quantity \in Nat /\ s[i].reserved \in Nat
            /\ s[i].reserved <= s[i].quantity /\ s[i].quantity <= StackLimit[s[i].resource]
            /\ StackLimit[s[i].resource] \in Nat
            /\ share[i] \in Nat
            /\ s[i].resource # r => share[i] = 0
            /\ s[i].reserved + share[i] <= s[i].quantity
        <4>1. IsShare(s, r, room, share, i)
          BY <1>2, ShareAt
        <4> QED
          BY <1>1, <4>1, Zenon DEF IsShare
      <3> QED
        BY <3>1, Zenon
    <2>2. t[i] = [resource |-> s[i].resource, quantity |-> q, reserved |-> p + k]
      <3>1. t[i] = [s[i] EXCEPT !.reserved = @ + share[i]]
        BY <1>5, Zenon
      <3>2. PICK x \in Slot : x = s[i]
        BY <2>1
      <3> QED
        BY <2>1, <3>1, <3>2, Zenon DEF Slot
    <2>3. /\ t[i].resource = s[i].resource /\ t[i].quantity = q /\ t[i].reserved = p + k
      BY <2>2
    <2>4. q \in Nat /\ p + k \in Nat /\ p + k <= q /\ q <= m
      <3>1. p + k <= q /\ p <= q /\ q <= m
        BY <2>1
      <3> QED
        BY <3>1
    <2>5. StillFits(s, t, i)
      BY <2>1, <2>2, <2>3, <2>4, Zenon DEF StillFits
    <2>6. DOMAIN t = DOMAIN s /\ z[i] = 0
      BY <1>5, <1>6
    <2>7. MoreAt(s, t, r, z, share, i)
      <3>1. q = q + 0 /\ p + k = p + k
        OBVIOUS
      <3>2. /\ t[i].resource = s[i].resource
            /\ t[i].quantity = s[i].quantity + z[i] /\ t[i].reserved = s[i].reserved + share[i]
        BY <2>1, <2>3, <2>6, <3>1, Zenon
      <3>3. s[i].resource # r => z[i] = 0 /\ share[i] = 0
        BY <2>1, <2>6, Zenon
      <3> QED
        BY <2>3, <3>2, <3>3, Zenon DEF MoreAt
    <2> QED
      BY <2>5, <2>7
  <1>8. t \in Seq(Fitting(c)) /\ DOMAIN t = DOMAIN s
    <2>1. t = [i \in DOMAIN s |-> t[i]]
      BY <1>5
    <2> QED
      BY <1>7, <2>1, SlotsFit, Zenon
  <1>9. More(s, t, r, z, share)
    BY <1>3, <1>6, <1>7, <1>8 DEF More, MoreAt
  <1>10. Differ(s, t, r, 0, n) /\ Len(t) = Len(s)
    BY <1>4, <1>6, <1>8, <1>9, FittingIsSlot, MoreDiffers DEF SameKinds
  <1>11. t = Lock(s, r, n)
    BY <1>1, <1>5 DEF Lock
  <1> QED
    BY <1>8, <1>10, <1>11

LEMMA UnlockWorks ==
  ASSUME NEW c \in Container, NEW s \in Seq(Fitting(c)), NEW r \in Resource, NEW n \in Nat,
         n <= ReservedQuantity(s, r)
  PROVE  /\ Unlock(s, r, n) \in Seq(Fitting(c)) /\ Len(Unlock(s, r, n)) = Len(s)
         /\ Differ(Unlock(s, r, n), s, r, 0, n)
  <1>1. PICK share, room : share = Spread(Locked(s, r), n) /\ room = Locked(s, r)
    OBVIOUS
  <1>2. Walked(s, r, n, room, share)
    <2>1. room \in Seq(Nat) /\ Shared(room, n, share)
      BY <1>1, RoomsAreSeqs, SpreadShares
    <2> QED
      BY <1>1, <2>1 DEF Walked
  <1>3. /\ share \in Seq(Nat) /\ DOMAIN share = DOMAIN s
        /\ Total(share) = Least(n, Total(room)) /\ Total(room) \in Nat
    BY <1>2, ShareAt
  <1>4. Total(share) = n
    BY <1>1, <1>3 DEF Least, ReservedQuantity
  <1>5. PICK t : t = [i \in DOMAIN s |-> [s[i] EXCEPT !.reserved = @ - share[i]]]
    BY Zenon
  <1>6. PICK z \in Seq(Nat) : /\ z = Nought(s) /\ DOMAIN z = DOMAIN s /\ Total(z) = 0
                              /\ \A i \in DOMAIN s : z[i] = 0
    BY NoughtIsZero
  <1>7. ASSUME NEW i \in DOMAIN s PROVE StillFits(s, t, i) /\ MoreAt(t, s, r, z, share, i)
    <2>1. PICK k \in Nat, q \in Nat, p \in Nat, m \in Nat :
            /\ k = share[i] /\ q = s[i].quantity /\ p = s[i].reserved /\ m = StackLimit[s[i].resource]
            /\ s[i] \in Slot /\ p <= q /\ q <= m
            /\ s[i].resource # r => k = 0
            /\ k <= p
      <3>1. /\ s[i] \in Slot /\ s[i].quantity \in Nat /\ s[i].reserved \in Nat
            /\ s[i].reserved <= s[i].quantity /\ s[i].quantity <= StackLimit[s[i].resource]
            /\ StackLimit[s[i].resource] \in Nat
            /\ share[i] \in Nat
            /\ s[i].resource # r => share[i] = 0
            /\ share[i] <= s[i].reserved
        <4>1. IsShare(s, r, room, share, i)
          BY <1>2, ShareAt
        <4> QED
          BY <1>1, <4>1, Zenon DEF IsShare
      <3> QED
        BY <3>1, Zenon
    <2>2. t[i] = [resource |-> s[i].resource, quantity |-> q, reserved |-> p - k]
      <3>1. t[i] = [s[i] EXCEPT !.reserved = @ - share[i]]
        BY <1>5, Zenon
      <3>2. PICK x \in Slot : x = s[i]
        BY <2>1
      <3> QED
        BY <2>1, <3>1, <3>2, Zenon DEF Slot
    <2>3. /\ t[i].resource = s[i].resource /\ t[i].quantity = q /\ t[i].reserved = p - k
      BY <2>2
    <2>4. q \in Nat /\ p - k \in Nat /\ p - k <= q /\ q <= m
      <3>1. k <= p /\ p <= q /\ q <= m
        BY <2>1
      <3> QED
        BY <3>1
    <2>5. StillFits(s, t, i)
      BY <2>1, <2>2, <2>3, <2>4, Zenon DEF StillFits
    <2>6. DOMAIN t = DOMAIN s /\ z[i] = 0
      BY <1>5, <1>6
    <2>7. MoreAt(t, s, r, z, share, i)
      <3>1. q = q + 0 /\ p = (p - k) + k
        OBVIOUS
      <3>2. /\ t[i].resource = s[i].resource
            /\ s[i].quantity = t[i].quantity + z[i] /\ s[i].reserved = t[i].reserved + share[i]
        BY <2>1, <2>3, <2>6, <3>1, Zenon
      <3>3. s[i].resource # r => z[i] = 0 /\ share[i] = 0
        BY <2>1, <2>6, Zenon
      <3> QED
        BY <2>3, <3>2, <3>3, Zenon DEF MoreAt
    <2> QED
      BY <2>5, <2>7
  <1>8. t \in Seq(Fitting(c)) /\ DOMAIN t = DOMAIN s
    <2>1. t = [i \in DOMAIN s |-> t[i]]
      BY <1>5
    <2> QED
      BY <1>7, <2>1, SlotsFit, Zenon
  <1>9. More(t, s, r, z, share)
    BY <1>3, <1>6, <1>7, <1>8 DEF More, MoreAt
  <1>10. Differ(t, s, r, 0, n) /\ Len(t) = Len(s)
    BY <1>4, <1>6, <1>8, <1>9, FittingIsSlot, MoreDiffers DEF SameKinds
  <1>11. t = Unlock(s, r, n)
    BY <1>1, <1>5 DEF Unlock
  <1> QED
    BY <1>8, <1>10, <1>11

LEMMA RemoveWorks ==
  ASSUME NEW c \in Container, NEW s \in Seq(Fitting(c)), NEW r \in Resource, NEW n \in Nat,
         n <= AvailableQuantity(s, r)
  PROVE  Leaves(c, s, RemoveFrom(s, r, n), r, n, 0)
  <1>1. PICK share, room : share = Reverse(Spread(Reverse(Free(s, r)), n)) /\ room = Free(s, r)
    OBVIOUS
  <1>2. Walked(s, r, n, room, share)
    <2>1. room \in Seq(Nat) /\ Shared(room, n, share)
      BY <1>1, RoomsAreSeqs, SpreadFromTheBack
    <2> QED
      BY <1>1, <2>1 DEF Walked
  <1>3. /\ share \in Seq(Nat) /\ DOMAIN share = DOMAIN s
        /\ Total(share) = Least(n, Total(room)) /\ Total(room) \in Nat
    BY <1>2, ShareAt
  <1>4. Total(share) = n
    BY <1>1, <1>3 DEF Least, AvailableQuantity
  <1>5. PICK t : t = [i \in DOMAIN s |-> [s[i] EXCEPT !.quantity = @ - share[i]]]
    BY Zenon
  <1>6. PICK z \in Seq(Nat) : /\ z = Nought(s) /\ DOMAIN z = DOMAIN s /\ Total(z) = 0
                              /\ \A i \in DOMAIN s : z[i] = 0
    BY NoughtIsZero
  <1>7. ASSUME NEW i \in DOMAIN s PROVE StillFits(s, t, i) /\ MoreAt(t, s, r, share, z, i)
    <2>1. PICK k \in Nat, q \in Nat, p \in Nat, m \in Nat :
            /\ k = share[i] /\ q = s[i].quantity /\ p = s[i].reserved /\ m = StackLimit[s[i].resource]
            /\ s[i] \in Slot /\ p <= q /\ q <= m
            /\ s[i].resource # r => k = 0
            /\ p + k <= q
      <3>1. /\ s[i] \in Slot /\ s[i].quantity \in Nat /\ s[i].reserved \in Nat
            /\ s[i].reserved <= s[i].quantity /\ s[i].quantity <= StackLimit[s[i].resource]
            /\ StackLimit[s[i].resource] \in Nat
            /\ share[i] \in Nat
            /\ s[i].resource # r => share[i] = 0
            /\ s[i].reserved + share[i] <= s[i].quantity
        <4>1. IsShare(s, r, room, share, i)
          BY <1>2, ShareAt
        <4> QED
          BY <1>1, <4>1, Zenon DEF IsShare
      <3> QED
        BY <3>1, Zenon
    <2>2. t[i] = [resource |-> s[i].resource, quantity |-> q - k, reserved |-> p]
      <3>1. t[i] = [s[i] EXCEPT !.quantity = @ - share[i]]
        BY <1>5, Zenon
      <3>2. PICK x \in Slot : x = s[i]
        BY <2>1
      <3> QED
        BY <2>1, <3>1, <3>2, Zenon DEF Slot
    <2>3. /\ t[i].resource = s[i].resource /\ t[i].quantity = q - k /\ t[i].reserved = p
      BY <2>2
    <2>4. q - k \in Nat /\ p \in Nat /\ p <= q - k /\ q - k <= m
      <3>1. p + k <= q /\ p <= q /\ q <= m
        BY <2>1
      <3> QED
        BY <3>1
    <2>5. StillFits(s, t, i)
      BY <2>1, <2>2, <2>3, <2>4, Zenon DEF StillFits
    <2>6. DOMAIN t = DOMAIN s /\ z[i] = 0
      BY <1>5, <1>6
    <2>7. MoreAt(t, s, r, share, z, i)
      <3>1. q = (q - k) + k /\ p = p + 0
        OBVIOUS
      <3>2. /\ t[i].resource = s[i].resource
            /\ s[i].quantity = t[i].quantity + share[i] /\ s[i].reserved = t[i].reserved + z[i]
        BY <2>1, <2>3, <2>6, <3>1, Zenon
      <3>3. s[i].resource # r => share[i] = 0 /\ z[i] = 0
        BY <2>1, <2>6, Zenon
      <3> QED
        BY <2>3, <3>2, <3>3, Zenon DEF MoreAt
    <2> QED
      BY <2>5, <2>7
  <1>8. t \in Seq(Fitting(c)) /\ DOMAIN t = DOMAIN s
    <2>1. t = [i \in DOMAIN s |-> t[i]]
      BY <1>5
    <2> QED
      BY <1>7, <2>1, SlotsFit, Zenon
  <1>9. More(t, s, r, share, z)
    BY <1>3, <1>6, <1>7, <1>8 DEF More, MoreAt
  <1>10. Leaves(c, s, DropEmpty(t), r, n, 0)
    BY <1>4, <1>6, <1>8, <1>9, DropWorks
  <1>11. DropEmpty(t) = RemoveFrom(s, r, n)
    BY <1>1, <1>5 DEF RemoveFrom
  <1> QED
    BY <1>10, <1>11

LEMMA DeductWorks ==
  ASSUME NEW c \in Container, NEW s \in Seq(Fitting(c)), NEW r \in Resource, NEW n \in Nat,
         n <= ReservedQuantity(s, r)
  PROVE  Leaves(c, s, Deduct(s, r, n), r, n, n)
  <1>1. PICK share, room : share = Spread(Locked(s, r), n) /\ room = Locked(s, r)
    OBVIOUS
  <1>2. Walked(s, r, n, room, share)
    <2>1. room \in Seq(Nat) /\ Shared(room, n, share)
      BY <1>1, RoomsAreSeqs, SpreadShares
    <2> QED
      BY <1>1, <2>1 DEF Walked
  <1>3. /\ share \in Seq(Nat) /\ DOMAIN share = DOMAIN s
        /\ Total(share) = Least(n, Total(room)) /\ Total(room) \in Nat
    BY <1>2, ShareAt
  <1>4. Total(share) = n
    BY <1>1, <1>3 DEF Least, ReservedQuantity
  <1>5. PICK t : t = [i \in DOMAIN s |-> [s[i] EXCEPT !.reserved = @ - share[i], !.quantity = @ - share[i]]]
    BY Zenon
  <1>6. PICK z \in Seq(Nat) : /\ z = Nought(s) /\ DOMAIN z = DOMAIN s /\ Total(z) = 0
                              /\ \A i \in DOMAIN s : z[i] = 0
    BY NoughtIsZero
  <1>7. ASSUME NEW i \in DOMAIN s PROVE StillFits(s, t, i) /\ MoreAt(t, s, r, share, share, i)
    <2>1. PICK k \in Nat, q \in Nat, p \in Nat, m \in Nat :
            /\ k = share[i] /\ q = s[i].quantity /\ p = s[i].reserved /\ m = StackLimit[s[i].resource]
            /\ s[i] \in Slot /\ p <= q /\ q <= m
            /\ s[i].resource # r => k = 0
            /\ k <= p
      <3>1. /\ s[i] \in Slot /\ s[i].quantity \in Nat /\ s[i].reserved \in Nat
            /\ s[i].reserved <= s[i].quantity /\ s[i].quantity <= StackLimit[s[i].resource]
            /\ StackLimit[s[i].resource] \in Nat
            /\ share[i] \in Nat
            /\ s[i].resource # r => share[i] = 0
            /\ share[i] <= s[i].reserved
        <4>1. IsShare(s, r, room, share, i)
          BY <1>2, ShareAt
        <4> QED
          BY <1>1, <4>1, Zenon DEF IsShare
      <3> QED
        BY <3>1, Zenon
    <2>2. t[i] = [resource |-> s[i].resource, quantity |-> q - k, reserved |-> p - k]
      <3>1. t[i] = [s[i] EXCEPT !.reserved = @ - share[i], !.quantity = @ - share[i]]
        BY <1>5, Zenon
      <3>2. PICK x \in Slot : x = s[i]
        BY <2>1
      <3> QED
        BY <2>1, <3>1, <3>2, Zenon DEF Slot
    <2>3. /\ t[i].resource = s[i].resource /\ t[i].quantity = q - k /\ t[i].reserved = p - k
      BY <2>2
    <2>4. q - k \in Nat /\ p - k \in Nat /\ p - k <= q - k /\ q - k <= m
      <3>1. k <= p /\ p <= q /\ q <= m
        BY <2>1
      <3>2. k <= q /\ p - k \in Nat
        BY <3>1
      <3>3. q - k \in Nat /\ p - k <= q - k /\ q - k <= m
        BY <3>1, <3>2
      <3> QED
        BY <3>2, <3>3
    <2>5. StillFits(s, t, i)
      BY <2>1, <2>2, <2>3, <2>4, Zenon DEF StillFits
    <2>6. DOMAIN t = DOMAIN s /\ z[i] = 0
      BY <1>5, <1>6, Zenon
    <2>7. MoreAt(t, s, r, share, share, i)
      <3>1. q = (q - k) + k /\ p = (p - k) + k
        OBVIOUS
      <3>2. /\ t[i].resource = s[i].resource
            /\ s[i].quantity = t[i].quantity + share[i] /\ s[i].reserved = t[i].reserved + share[i]
        BY <2>1, <2>3, <2>6, <3>1, Zenon
      <3>3. s[i].resource # r => share[i] = 0 /\ share[i] = 0
        BY <2>1, <2>6, Zenon
      <3> QED
        BY <2>3, <3>2, <3>3, Zenon DEF MoreAt
    <2> QED
      BY <2>5, <2>7
  <1>8. t \in Seq(Fitting(c)) /\ DOMAIN t = DOMAIN s
    <2>1. t = [i \in DOMAIN s |-> t[i]]
      BY <1>5, Zenon
    <2> QED
      BY <1>7, <2>1, SlotsFit, Zenon
  <1>9. More(t, s, r, share, share)
    BY <1>3, <1>6, <1>7, <1>8 DEF More, MoreAt
  <1>10. Leaves(c, s, DropEmpty(t), r, n, n)
    BY <1>4, <1>6, <1>8, <1>9, DropWorks
  <1>11. DropEmpty(t) = Deduct(s, r, n)
    BY <1>1, <1>5, Zenon DEF Deduct
  <1> QED
    BY <1>10, <1>11

-----------------------------------------------------------------------------
(* What container c can have in its slots.                                 *)
Stock(c) == {s \in Seq(Fitting(c)) : Len(s) <= MaxSlots[c] /\ Volume(s) <= MaxVolume[c]}

LEMMA ProductsAreNat ==
  \A a \in Nat, b \in Nat, m \in Nat : a * m \in Nat /\ (a + b) * m = a * m + b * m
  OBVIOUS

LEMMA AddWorks ==
  ASSUME NEW c \in Container, NEW s \in Stock(c), NEW r \in Resource, NEW n \in Amount,
         CanAccept(c, s, r, n)
  PROVE  AddTo(s, r, n) \in Stock(c) /\ Differ(s, AddTo(s, r, n), r, n, 0)
  <1>1. /\ s \in Seq(Fitting(c)) /\ s \in Seq(Slot) /\ Len(s) \in Nat
        /\ Len(s) <= MaxSlots[c] /\ n \in Nat /\ n # 0
    BY FittingIsSlot DEF Stock, Amount
  <1>2. PICK left \in Nat, p \in Nat : left = Unplaced(s, r, n) /\ p = n - left
    <2>1. Unplaced(s, r, n) \in Nat /\ Unplaced(s, r, n) <= n
      BY <1>1, FillWorks
    <2> QED
      BY <1>1, <2>1
  <1>3. PICK u \in Nat, m \in Nat \ {0}, k \in Nat :
          /\ u = UnitVolume[r] /\ m = StackLimit[r] /\ k = CeilDiv(left, m)
          /\ left = 0 => k = 0
    <2>1. PICK m \in Nat \ {0} : m = StackLimit[r]
      BY ResourceAssumption
    <2>2. CeilDiv(left, m) \in Nat /\ (left <= 0 * m => CeilDiv(left, m) <= 0)
      BY CeilDivBounds
    <2> QED
      BY <2>1, <2>2, ResourceAssumption
  <1>4. /\ Takes(c, r) /\ Volume(s) + n * u <= MaxVolume[c]
        /\ left = 0 \/ Len(s) + k <= MaxSlots[c]
    BY <1>1, <1>2, <1>3 DEF CanAccept, Takes
  <1>5. PICK f \in Seq(Fitting(c)) : f = Fill(s, r, n) /\ Len(f) = Len(s) /\ Differ(s, f, r, p, 0)
    BY <1>1, <1>2, FillWorks
  <1>6. PICK g \in Seq(Fitting(c)) :
          /\ g = NewSlots(r, left) /\ Len(g) = k
          /\ \A x \in Resource : /\ TotalQuantity(g, x) = (IF x = r THEN left ELSE 0)
                                 /\ ReservedQuantity(g, x) = 0
          /\ Volume(g) = left * u
    BY <1>3, <1>4, NewSlotsHold, Zenon
  <1>7. f \in Seq(Slot) /\ g \in Seq(Slot)
    BY FittingIsSlot
  <1>8. PICK t : t = f \o g
    BY Zenon
  <1>9. /\ t \in Seq(Fitting(c)) /\ Len(t) = Len(f) + Len(g) /\ Volume(t) = Volume(f) + Volume(g)
        /\ \A x \in Resource :
             /\ TotalQuantity(t, x) = TotalQuantity(f, x) + TotalQuantity(g, x)
             /\ ReservedQuantity(t, x) = ReservedQuantity(f, x) + ReservedQuantity(g, x)
    <2>1. PICK F : F = Fitting(c)
      OBVIOUS
    <2>2. f \o g \in Seq(F)
      BY <2>1, ConcatProperties
    <2> QED
      BY <1>7, <1>8, <2>1, <2>2, ConcatTotals
  <1>10. /\ \A x \in Resource :
              /\ TotalQuantity(f, x) = TotalQuantity(s, x) + (IF x = r THEN p ELSE 0)
              /\ ReservedQuantity(f, x) = ReservedQuantity(s, x) + (IF x = r THEN 0 ELSE 0)
         /\ Volume(f) = Volume(s) + p * u
    BY <1>3, <1>5 DEF Differ
  <1>11. p * u + left * u = n * u /\ p * u \in Nat /\ left * u \in Nat /\ p + left = n
    <2>1. p + left = n
      BY <1>1, <1>2
    <2> QED
      BY <2>1, ProductsAreNat
  <1>12. /\ Volume(s) \in Nat
         /\ \A x \in Resource : TotalQuantity(s, x) \in Nat /\ ReservedQuantity(s, x) \in Nat
    BY <1>1, TotalsMeasure
  <1>13. Volume(t) = Volume(s) + n * u
    BY <1>6, <1>9, <1>10, <1>11, <1>12
  <1>14. ASSUME NEW x \in Resource
         PROVE  /\ TotalQuantity(t, x) = TotalQuantity(s, x) + (IF x = r THEN n ELSE 0)
                /\ ReservedQuantity(t, x) = ReservedQuantity(s, x) + (IF x = r THEN 0 ELSE 0)
    <2>1. /\ TotalQuantity(f, x) = TotalQuantity(s, x) + (IF x = r THEN p ELSE 0)
          /\ ReservedQuantity(f, x) = ReservedQuantity(s, x) + (IF x = r THEN 0 ELSE 0)
          /\ TotalQuantity(t, x) = TotalQuantity(f, x) + TotalQuantity(g, x)
          /\ ReservedQuantity(t, x) = ReservedQuantity(f, x) + ReservedQuantity(g, x)
          /\ TotalQuantity(g, x) = (IF x = r THEN left ELSE 0)
          /\ ReservedQuantity(g, x) = 0
      BY <1>6, <1>9, <1>10
    <2>2. PICK a \in Nat, b \in Nat : a = TotalQuantity(s, x) /\ b = ReservedQuantity(s, x)
      BY <1>12
    <2>3. a + p + left = a + n
      BY <1>11
    <2>4. CASE x = r
      BY <2>1, <2>2, <2>3, <2>4
    <2>5. CASE x # r
      BY <2>1, <2>2, <2>5
    <2> QED
      BY <2>4, <2>5
  <1>15. Len(t) <= MaxSlots[c]
    BY <1>1, <1>3, <1>4, <1>5, <1>6, <1>9
  <1>16. t = AddTo(s, r, n)
    BY <1>2, <1>5, <1>6, <1>8 DEF AddTo
  <1>17. t \in Stock(c)
    BY <1>3, <1>4, <1>9, <1>13, <1>15, Zenon DEF Stock
  <1>18. Differ(s, t, r, n, 0)
    BY <1>3, <1>13, <1>14 DEF Differ
  <1> QED
    BY <1>16, <1>17, <1>18

(* What leaves leaves room for its return: the slots of r that were given  *)
(* up hold as much as does not fit in those that are left.                 *)
LEMMA RoomToReturn ==
  ASSUME NEW c \in Container, NEW s \in Stock(c), NEW r \in Resource, NEW n \in Amount, NEW l \in Nat,
         NEW k, Leaves(c, s, k, r, n, l)
  PROVE  k \in Stock(c) /\ CanAccept(c, k, r, n)
  <1>1. /\ s \in Seq(Fitting(c)) /\ s \in Seq(Slot) /\ Len(s) \in Nat
        /\ Len(s) <= MaxSlots[c] /\ Volume(s) <= MaxVolume[c] /\ n \in Nat /\ n # 0
    BY FittingIsSlot DEF Stock, Amount
  <1>2. /\ k \in Seq(Fitting(c)) /\ k \in Seq(Slot) /\ Len(k) \in Nat /\ Len(k) <= Len(s)
        /\ Measured(Others(r), k) <= Measured(Others(r), s)
    BY FittingIsSlot DEF Leaves
  <1>3. PICK u \in Nat, m \in Nat \ {0} : u = UnitVolume[r] /\ m = StackLimit[r]
    BY ResourceAssumption
  <1>4. TotalQuantity(s, r) = TotalQuantity(k, r) + n /\ Volume(s) = Volume(k) + n * u
    BY <1>3 DEF Leaves, Differ
  <1>5. Takes(c, r)
    <2>1. TotalQuantity(s, r) # 0
      <3>1. PICK t \in Nat : t = TotalQuantity(k, r)
        BY <1>2, TotalsMeasure
      <3>2. t + n # 0
        BY <1>1
      <3> QED
        BY <1>4, <3>1, <3>2
    <2>2. PICK i \in DOMAIN s : s[i].resource = r
      <3> SUFFICES ASSUME \A i \in DOMAIN s : s[i].resource # r PROVE FALSE
        OBVIOUS
      <3>1. Quantities(s, r) = Nought(s)
        BY DEF Quantities, Nought
      <3>2. Total(Nought(s)) = 0
        BY <1>1, NoughtIsZero
      <3> QED
        BY <2>1, <3>1, <3>2 DEF TotalQuantity
    <2>3. s[i] \in Fitting(c)
      BY <1>1, FittingIsSlot
    <2> QED
      BY <2>2, <2>3 DEF Fitting
  <1>6. k \in Stock(c) /\ Volume(k) + n * u <= MaxVolume[c]
    <2>1. n * u \in Nat /\ Volume(k) \in Nat /\ Volume(s) \in Nat
      BY <1>1, <1>2, <1>3, TotalsMeasure, ProductsAreNat, Zenon
    <2>2. MaxSlots[c] \in Nat /\ MaxVolume[c] \in Nat
      BY ResourceAssumption
    <2> QED
      BY <1>1, <1>2, <1>4, <2>1, <2>2 DEF Stock
  <1>7. PICK left \in Nat : left = Unplaced(k, r, n) /\ (left = 0 \/ left = n - Total(Headroom(k, r)))
    BY <1>1, <1>2, FillWorks
  <1>8. left = 0 \/ Len(k) + CeilDiv(left, m) <= MaxSlots[c]
    <2> SUFFICES ASSUME left # 0 PROVE Len(k) + CeilDiv(left, m) <= MaxSlots[c]
      OBVIOUS
    <2>1. PICK a \in Nat, b \in Nat, p \in Nat, q \in Nat :
            /\ a = Measured(Its(r), s) /\ b = Measured(Its(r), k)
            /\ p = Measured(Others(r), s) /\ q = Measured(Others(r), k)
            /\ Len(s) = a + p /\ Len(k) = b + q
      <3>1. /\ Measured(Its(r), s) \in Nat /\ Measured(Others(r), s) \in Nat
            /\ Len(s) = Measured(Its(r), s) + Measured(Others(r), s)
        BY <1>1, TotalsMeasure
      <3>2. /\ Measured(Its(r), k) \in Nat /\ Measured(Others(r), k) \in Nat
            /\ Len(k) = Measured(Its(r), k) + Measured(Others(r), k)
        BY <1>2, TotalsMeasure
      <3> QED
        BY <3>1, <3>2, Zenon
    <2>2. PICK hs \in Nat, hk \in Nat :
            /\ hs + TotalQuantity(s, r) = a * m /\ hk + TotalQuantity(k, r) = b * m
            /\ left = n - hk
      <3>1. /\ Total(Headroom(s, r)) \in Nat /\ Total(Headroom(s, r)) + TotalQuantity(s, r) = a * m
            /\ Total(Headroom(k, r)) \in Nat /\ Total(Headroom(k, r)) + TotalQuantity(k, r) = b * m
        BY <1>1, <1>2, <1>3, <2>1, HeadroomIsRest, Zenon
      <3> QED
        BY <1>7, <3>1
    <2>3. PICK x \in Nat, y \in Nat, t \in Nat : x = a * m /\ y = b * m /\ t = TotalQuantity(k, r)
      BY <1>2, TotalsMeasure, ProductsAreNat, Zenon
    <2>4. hs + (t + n) = x /\ hk + t = y /\ left = n - hk
      BY <1>4, <2>2, <2>3, Zenon
    <2>5. y + left <= x
      <3>1. x = hs + (t + n) /\ y = hk + t /\ left = n - hk
        BY <2>4
      <3>2. (hk + t) + (n - hk) <= hs + (t + n)
        BY <1>1
      <3> QED
        BY <3>1, <3>2, Zenon
    <2>6. b <= a
      <3> SUFFICES ASSUME a <= b PROVE a = b
        OBVIOUS
      <3>1. x <= y
        BY <2>3, ProductsGrow
      <3> QED
        BY <2>5, <3>1
    <2>7. PICK d \in Nat : d = a - b /\ left <= d * m
      <3>1. PICK d \in Nat : d = a - b
        BY <2>6
      <3>2. a * m = b * m + d * m /\ d * m \in Nat
        <4>1. a = b + d
          BY <3>1
        <4> QED
          BY <4>1, ProductsAreNat
      <3>3. left <= d * m
        BY <2>3, <2>5, <3>2
      <3> QED
        BY <3>1, <3>3
    <2>8. CeilDiv(left, m) \in Nat /\ CeilDiv(left, m) <= d
      BY <2>7, CeilDivBounds
    <2>9. q <= p
      BY <1>2, <2>1
    <2>10. MaxSlots[c] \in Nat
      BY ResourceAssumption
    <2>11. PICK e \in Nat : e = CeilDiv(left, m) /\ e <= d
      BY <2>8
    <2>12. Len(k) + e <= Len(s)
      <3>1. (b + q) + e <= a + p
        BY <2>7, <2>9, <2>11
      <3> QED
        BY <2>1, <3>1, Zenon
    <2> QED
      BY <1>1, <2>10, <2>11, <2>12, <1>2
  <1> QED
    BY <1>3, <1>5, <1>6, <1>7, <1>8 DEF CanAccept, Takes

-----------------------------------------------------------------------------
(* Reservations, and what they lock of a resource all together.            *)
Promise == [resource : Resource, amount : Amount]

Promises(f) ==
  f = [id \in DOMAIN f |-> f[id]] /\ DOMAIN f \subseteq Id /\ \A id \in DOMAIN f : f[id] \in Promise

Promised(f, r) ==
  Total([id \in {id \in DOMAIN f : f[id].resource = r} |-> f[id].amount])

LEMMA PromisedIsNat ==
  ASSUME NEW f, Promises(f), NEW r
  PROVE  Promised(f, r) \in Nat /\ IsFiniteSet({id \in DOMAIN f : f[id].resource = r})
  <1>1. PICK S : S = {id \in DOMAIN f : f[id].resource = r}
    BY Zenon
  <1>2. IsFiniteSet(Id) /\ S \subseteq Id
    <2>1. PICK m \in Nat : m = MaxId
      BY ResourceAssumption
    <2>2. IsFiniteSet(1 .. m)
      BY FS_Interval
    <2> QED
      BY <1>1, <2>1, <2>2 DEF Promises, Id
  <1>3. IsFiniteSet(S)
    BY <1>2, FS_Subset
  <1>4. PICK g : g = [id \in S |-> f[id].amount]
    BY Zenon
  <1>5. g \in [S -> Nat]
    BY <1>1, <1>4 DEF Promises, Promise, Amount
  <1>6. Total(g) \in Nat
    BY <1>3, <1>5, TotalIsNat
  <1> QED
    BY <1>1, <1>3, <1>4, <1>6 DEF Promised

LEMMA PromisesGrow ==
  ASSUME NEW f, Promises(f), NEW id \in Id, id \notin DOMAIN f, NEW p \in Promise
  PROVE  /\ Promises(With(f, id, p))
         /\ \A r \in Resource :
              Promised(With(f, id, p), r) = Promised(f, r) + (IF r = p.resource THEN p.amount ELSE 0)
  <1>1. PICK g : g = With(f, id, p)
    OBVIOUS
  <1>2. DOMAIN g = DOMAIN f \cup {id} /\ g[id] = p /\ \A x \in DOMAIN f : g[x] = f[x]
    BY <1>1 DEF With
  <1>3. Promises(g)
    <2>1. g = [x \in DOMAIN g |-> g[x]]
      BY <1>1 DEF With
    <2>2. DOMAIN g \subseteq Id /\ \A x \in DOMAIN g : g[x] \in Promise
      BY <1>2 DEF Promises
    <2> QED
      BY <2>1, <2>2 DEF Promises
  <1>4. ASSUME NEW r \in Resource
        PROVE  Promised(g, r) = Promised(f, r) + (IF r = p.resource THEN p.amount ELSE 0)
    <2>1. PICK S, T : /\ S = {x \in DOMAIN f : f[x].resource = r}
                      /\ T = {x \in DOMAIN g : g[x].resource = r}
      BY Zenon
    <2>2. PICK a, b : a = [x \in S |-> f[x].amount] /\ b = [x \in T |-> g[x].amount]
      BY Zenon
    <2>3. Promised(f, r) = Total(a) /\ Promised(g, r) = Total(b)
      BY <2>1, <2>2 DEF Promised
    <2>4. IsFiniteSet(S) /\ Total(a) \in Nat
      BY <2>1, <2>3, PromisedIsNat
    <2>5. CASE r = p.resource
      <3>1. T = S \cup {id} /\ id \notin S
        BY <1>2, <2>1, <2>5
      <3>2. a \in [S -> Nat] /\ b \in [S \cup {id} -> Nat] /\ b[id] = p.amount
        <4>1. \A x \in S : f[x].amount \in Nat
          BY <2>1 DEF Promises, Promise, Amount
        <4>2. \A x \in T : g[x].amount \in Nat
          BY <1>3, <2>1 DEF Promises, Promise, Amount
        <4> QED
          BY <1>2, <2>2, <3>1, <4>1, <4>2
      <3>3. \A x \in S : b[x] = a[x]
        BY <1>2, <2>1, <2>2, <3>1
      <3>4. SumOf(b, S \cup {id}) = SumOf(a, S) + b[id]
        BY <2>4, <3>1, <3>2, <3>3, SumGrows
      <3>5. Total(a) = SumOf(a, S) /\ Total(b) = SumOf(b, S \cup {id})
        BY <2>2, <3>1, TotalIsSum
      <3> QED
        BY <2>3, <2>5, <3>2, <3>4, <3>5
    <2>6. CASE r # p.resource
      <3>1. T = S
        BY <1>2, <2>1, <2>6
      <3>2. a = b
        BY <1>2, <2>1, <2>2, <3>1
      <3> QED
        BY <2>3, <2>4, <2>6, <3>2
    <2> QED
      BY <2>5, <2>6
  <1> QED
    BY <1>1, <1>3, <1>4

LEMMA PromisesShrink ==
  ASSUME NEW f, Promises(f), NEW id \in DOMAIN f
  PROVE  /\ Promises(Without(f, id)) /\ f[id] \in Promise
         /\ \A r \in Resource :
              Promised(f, r) = Promised(Without(f, id), r) + (IF r = f[id].resource THEN f[id].amount ELSE 0)
         /\ f[id].amount <= Promised(f, f[id].resource)
  <1>1. PICK g : g = Without(f, id)
    OBVIOUS
  <1>2. DOMAIN g = DOMAIN f \ {id} /\ \A x \in DOMAIN g : g[x] = f[x]
    BY <1>1 DEF Without
  <1>3. Promises(g)
    <2>1. g = [x \in DOMAIN g |-> g[x]]
      BY <1>1 DEF Without
    <2>2. DOMAIN g \subseteq Id /\ \A x \in DOMAIN g : g[x] \in Promise
      BY <1>2 DEF Promises
    <2> QED
      BY <2>1, <2>2 DEF Promises
  <1>4. PICK p \in Promise : p = f[id]
    BY DEF Promises
  <1>5. f = With(g, id, p)
    <2>1. f = [x \in DOMAIN f |-> f[x]]
      BY DEF Promises
    <2>2. DOMAIN f = DOMAIN g \cup {id}
      BY <1>2
    <2>3. \A x \in DOMAIN f : f[x] = IF x = id THEN p ELSE g[x]
      BY <1>2, <1>4
    <2> QED
      BY <2>1, <2>2, <2>3 DEF With
  <1>6. id \in Id /\ id \notin DOMAIN g
    BY <1>2 DEF Promises
  <1>7. \A r \in Resource : Promised(With(g, id, p), r) = Promised(g, r) + (IF r = p.resource THEN p.amount ELSE 0)
    BY <1>3, <1>6, PromisesGrow
  <1>8. p.resource \in Resource /\ p.amount \in Nat /\ Promised(g, p.resource) \in Nat
    <2>1. PICK x : x = p.resource
      OBVIOUS
    <2>2. Promised(g, x) \in Nat
      BY <1>3, PromisedIsNat, Zenon
    <2> QED
      BY <2>1, <2>2 DEF Promise, Amount
  <1>9. \A r \in Resource : Promised(f, r) = Promised(g, r) + (IF r = p.resource THEN p.amount ELSE 0)
    BY <1>5, <1>7, Zenon
  <1>10. p.amount <= Promised(f, p.resource)
    BY <1>8, <1>9
  <1> QED
    BY <1>1, <1>3, <1>4, <1>9, <1>10

-----------------------------------------------------------------------------
(* A container in order: what it has in its slots, and as many units of a  *)
(* resource locked in them as its reservations ask for.                    *)
Ordered(c, s, f) ==
  /\ s \in Stock(c) /\ Promises(f)
  /\ \A r \in Resource : ReservedQuantity(s, r) = Promised(f, r)

(* t is s after n more units and l more locks of r, negative for less.     *)
Booked(s, t, r, n, l) ==
  \A x \in Resource :
    /\ TotalQuantity(t, x) = TotalQuantity(s, x) + (IF x = r THEN n ELSE 0)
    /\ ReservedQuantity(t, x) = ReservedQuantity(s, x) + (IF x = r THEN l ELSE 0)

LEMMA StockIsSlots ==
  ASSUME NEW c \in Container, NEW s \in Stock(c)
  PROVE  /\ s \in Seq(Fitting(c)) /\ s \in Seq(Slot)
         /\ \A r \in Resource : TotalQuantity(s, r) \in Nat /\ ReservedQuantity(s, r) \in Nat
  <1>1. s \in Seq(Fitting(c))
    BY DEF Stock
  <1>2. s \in Seq(Slot)
    BY <1>1, FittingIsSlot
  <1> QED
    BY <1>1, <1>2, TotalsMeasure

LEMMA BookedBack ==
  ASSUME NEW c \in Container, NEW s \in Stock(c), NEW k \in Stock(c), NEW r \in Resource,
         NEW n \in Nat, NEW l \in Nat, Differ(k, s, r, n, l)
  PROVE  Booked(s, k, r, -n, -l)
  <1>1. ASSUME NEW x \in Resource
        PROVE  /\ TotalQuantity(k, x) = TotalQuantity(s, x) + (IF x = r THEN -n ELSE 0)
               /\ ReservedQuantity(k, x) = ReservedQuantity(s, x) + (IF x = r THEN -l ELSE 0)
    <2>1. PICK a \in Nat, b \in Nat, d \in Nat, e \in Nat :
            /\ a = TotalQuantity(s, x) /\ b = ReservedQuantity(s, x)
            /\ d = TotalQuantity(k, x) /\ e = ReservedQuantity(k, x)
      BY StockIsSlots, Zenon
    <2>2. a = d + (IF x = r THEN n ELSE 0) /\ b = e + (IF x = r THEN l ELSE 0)
      BY <2>1 DEF Differ
    <2>3. d = a + (IF x = r THEN -n ELSE 0) /\ e = b + (IF x = r THEN -l ELSE 0)
      BY <2>2
    <2> QED
      BY <2>1, <2>3
  <1> QED
    BY <1>1 DEF Booked

LEMMA OrderedAdd ==
  ASSUME NEW c \in Container, NEW s, NEW f, Ordered(c, s, f), NEW r \in Resource, NEW n \in Amount,
         CanAccept(c, s, r, n)
  PROVE  Ordered(c, AddTo(s, r, n), f) /\ Booked(s, AddTo(s, r, n), r, n, 0)
  <1>1. PICK t \in Stock(c) : t = AddTo(s, r, n) /\ Differ(s, t, r, n, 0)
    BY AddWorks DEF Ordered
  <1>2. Booked(s, t, r, n, 0)
    BY <1>1 DEF Booked, Differ
  <1>3. \A x \in Resource : ReservedQuantity(t, x) = ReservedQuantity(s, x)
    <2>1. \A x \in Resource : ReservedQuantity(s, x) \in Nat
      BY StockIsSlots DEF Ordered
    <2> QED
      BY <1>2, <2>1 DEF Booked
  <1> QED
    BY <1>1, <1>2, <1>3 DEF Ordered

LEMMA OrderedRemove ==
  ASSUME NEW c \in Container, NEW s, NEW f, Ordered(c, s, f), NEW r \in Resource, NEW n \in Amount,
         n <= AvailableQuantity(s, r)
  PROVE  Ordered(c, RemoveFrom(s, r, n), f) /\ Booked(s, RemoveFrom(s, r, n), r, -n, 0)
  <1>1. PICK k : k = RemoveFrom(s, r, n)
    OBVIOUS
  <1>2. s \in Stock(c) /\ s \in Seq(Fitting(c)) /\ n \in Nat
    BY StockIsSlots DEF Ordered, Amount
  <1>3. Leaves(c, s, k, r, n, 0)
    BY <1>1, <1>2, RemoveWorks
  <1>4. k \in Stock(c) /\ Differ(k, s, r, n, 0)
    BY <1>2, <1>3, RoomToReturn DEF Leaves
  <1>5. Booked(s, k, r, -n, 0)
    BY <1>2, <1>4, BookedBack
  <1>6. \A x \in Resource : ReservedQuantity(k, x) = ReservedQuantity(s, x)
    BY <1>2, <1>5, StockIsSlots DEF Booked
  <1> QED
    BY <1>1, <1>4, <1>5, <1>6 DEF Ordered

LEMMA OrderedLock ==
  ASSUME NEW c \in Container, NEW s, NEW f, Ordered(c, s, f), NEW r \in Resource, NEW n \in Amount,
         n <= AvailableQuantity(s, r), NEW id \in Id, id \notin DOMAIN f
  PROVE  /\ Ordered(c, Lock(s, r, n), With(f, id, [resource |-> r, amount |-> n]))
         /\ Booked(s, Lock(s, r, n), r, 0, n)
  <1>0. PICK p \in Promise : p = [resource |-> r, amount |-> n]
    BY Zenon DEF Promise
  <1>1. PICK t, g : t = Lock(s, r, n) /\ g = With(f, id, p)
    OBVIOUS
  <1>2. s \in Stock(c) /\ s \in Seq(Fitting(c)) /\ n \in Nat
    BY StockIsSlots DEF Ordered, Amount
  <1>3. t \in Seq(Fitting(c)) /\ Len(t) = Len(s) /\ Differ(s, t, r, 0, n)
    BY <1>1, <1>2, LockWorks
  <1>4. Booked(s, t, r, 0, n)
    BY <1>3 DEF Booked, Differ
  <1>5. t \in Stock(c)
    <2>1. PICK u \in Nat : u = UnitVolume[r]
      BY ResourceAssumption
    <2>2. Volume(t) = Volume(s) + 0 * u /\ Volume(s) \in Nat
      BY <1>2, <1>3, <2>1, StockIsSlots, TotalsMeasure DEF Differ
    <2> QED
      BY <1>2, <1>3, <2>2 DEF Stock
  <1>6. /\ Promises(g)
        /\ \A x \in Resource : Promised(g, x) = Promised(f, x) + (IF x = r THEN n ELSE 0)
    <2>1. p.resource = r /\ p.amount = n
      BY <1>0
    <2> QED
      BY <1>1, <2>1, PromisesGrow DEF Ordered
  <1>7. \A x \in Resource : ReservedQuantity(t, x) = Promised(g, x)
    BY <1>4, <1>6 DEF Booked, Ordered
  <1> QED
    BY <1>0, <1>1, <1>4, <1>5, <1>6, <1>7 DEF Ordered

(* A reservation is covered by the locks there are.                        *)
LEMMA Covered ==
  ASSUME NEW c \in Container, NEW s, NEW f, Ordered(c, s, f), NEW id \in DOMAIN f
  PROVE  /\ f[id].resource \in Resource /\ f[id].amount \in Amount /\ f[id].amount \in Nat
         /\ f[id].amount <= ReservedQuantity(s, f[id].resource)
  <1>1. f[id] \in Promise /\ f[id].amount <= Promised(f, f[id].resource)
    BY PromisesShrink DEF Ordered
  <1>2. f[id].resource \in Resource /\ f[id].amount \in Amount /\ f[id].amount \in Nat
    BY <1>1 DEF Promise, Amount
  <1> QED
    BY <1>1, <1>2 DEF Ordered

LEMMA OrderedRelease ==
  ASSUME NEW c \in Container, NEW s, NEW f, Ordered(c, s, f), NEW id \in DOMAIN f
  PROVE  LET t == Unlock(s, f[id].resource, f[id].amount) IN
           Ordered(c, t, Without(f, id)) /\ Booked(s, t, f[id].resource, 0, -f[id].amount)
  <1>1. PICK r \in Resource, n \in Nat : r = f[id].resource /\ n = f[id].amount /\ n <= ReservedQuantity(s, r)
    BY Covered
  <1>2. PICK t, g : t = Unlock(s, r, n) /\ g = Without(f, id)
    OBVIOUS
  <1>3. s \in Stock(c) /\ s \in Seq(Fitting(c))
    BY StockIsSlots DEF Ordered
  <1>4. t \in Seq(Fitting(c)) /\ Len(t) = Len(s) /\ Differ(t, s, r, 0, n)
    BY <1>1, <1>2, <1>3, UnlockWorks
  <1>5. t \in Stock(c)
    <2>1. PICK u \in Nat : u = UnitVolume[r]
      BY ResourceAssumption
    <2>2. Volume(s) = Volume(t) + 0 * u /\ Volume(t) \in Nat
      BY <1>4, <2>1, FittingIsSlot, TotalsMeasure DEF Differ
    <2> QED
      BY <1>3, <1>4, <2>2 DEF Stock
  <1>6. Booked(s, t, r, 0, -n)
    BY <1>3, <1>4, <1>5, BookedBack
  <1>7. /\ Promises(g)
        /\ \A x \in Resource : Promised(f, x) = Promised(g, x) + (IF x = r THEN n ELSE 0)
    BY <1>1, <1>2, PromisesShrink DEF Ordered
  <1>8. ASSUME NEW x \in Resource PROVE ReservedQuantity(t, x) = Promised(g, x)
    <2>1. ReservedQuantity(s, x) = Promised(f, x) /\ Promised(g, x) \in Nat
      BY <1>7, PromisedIsNat, Zenon DEF Ordered
    <2> QED
      BY <1>6, <1>7, <2>1 DEF Booked
  <1> QED
    BY <1>1, <1>2, <1>5, <1>6, <1>7, <1>8 DEF Ordered

LEMMA OrderedDeduct ==
  ASSUME NEW c \in Container, NEW s, NEW f, Ordered(c, s, f), NEW id \in DOMAIN f
  PROVE  LET k == Deduct(s, f[id].resource, f[id].amount) IN
           /\ Ordered(c, k, Without(f, id))
           /\ Booked(s, k, f[id].resource, -f[id].amount, -f[id].amount)
           /\ CanAccept(c, k, f[id].resource, f[id].amount)
  <1>1. PICK r \in Resource, n \in Nat :
          r = f[id].resource /\ n = f[id].amount /\ n <= ReservedQuantity(s, r) /\ n \in Amount
    BY Covered
  <1>2. PICK k, g : k = Deduct(s, r, n) /\ g = Without(f, id)
    OBVIOUS
  <1>3. s \in Stock(c) /\ s \in Seq(Fitting(c))
    BY StockIsSlots DEF Ordered
  <1>4. Leaves(c, s, k, r, n, n)
    BY <1>1, <1>2, <1>3, DeductWorks
  <1>5. k \in Stock(c) /\ Differ(k, s, r, n, n) /\ CanAccept(c, k, r, n)
    BY <1>1, <1>3, <1>4, RoomToReturn DEF Leaves
  <1>6. Booked(s, k, r, -n, -n)
    BY <1>3, <1>5, BookedBack
  <1>7. /\ Promises(g)
        /\ \A x \in Resource : Promised(f, x) = Promised(g, x) + (IF x = r THEN n ELSE 0)
    BY <1>1, <1>2, PromisesShrink DEF Ordered
  <1>8. ASSUME NEW x \in Resource PROVE ReservedQuantity(k, x) = Promised(g, x)
    <2>1. ReservedQuantity(s, x) = Promised(f, x) /\ Promised(g, x) \in Nat
      BY <1>7, PromisedIsNat, Zenon DEF Ordered
    <2> QED
      BY <1>6, <1>7, <2>1 DEF Booked
  <1> QED
    BY <1>1, <1>2, <1>5, <1>6, <1>7, <1>8 DEF Ordered

-----------------------------------------------------------------------------
(* All containers in order.                                                *)
AllOrdered(s, f) ==
  /\ s = [c \in Container |-> s[c]] /\ f = [c \in Container |-> f[c]]
  /\ \A c \in Container : Ordered(c, s[c], f[c])

(* The inductive invariant.                                                *)
InOrder == AllOrdered(slots, reservations)

Put(f, c, v) == [f EXCEPT ![c] = v]

LEMMA PutOrdered ==
  ASSUME NEW s, NEW f, AllOrdered(s, f), NEW c \in Container, NEW t, NEW g, Ordered(c, t, g)
  PROVE  /\ AllOrdered(Put(s, c, t), Put(f, c, g))
         /\ Put(s, c, t)[c] = t /\ Put(f, c, g)[c] = g
         /\ \A d \in Container : d # c => Put(s, c, t)[d] = s[d] /\ Put(f, c, g)[d] = f[d]
         /\ Put(f, c, f[c]) = f
  <1>1. DOMAIN s = Container /\ DOMAIN f = Container
    BY DEF AllOrdered
  <1>2. \A d \in Container : /\ Put(s, c, t)[d] = IF d = c THEN t ELSE s[d]
                             /\ Put(f, c, g)[d] = IF d = c THEN g ELSE f[d]
    BY <1>1 DEF Put
  <1>3. /\ Put(s, c, t) = [d \in Container |-> Put(s, c, t)[d]]
        /\ Put(f, c, g) = [d \in Container |-> Put(f, c, g)[d]]
    BY <1>1, Zenon DEF Put
  <1>4. ASSUME NEW d \in Container PROVE Ordered(d, Put(s, c, t)[d], Put(f, c, g)[d])
    <2>1. CASE d = c
      BY <1>2, <2>1
    <2>2. CASE d # c
      BY <1>2, <2>2 DEF AllOrdered
    <2> QED
      BY <2>1, <2>2
  <1>5. Put(f, c, f[c]) = f
    BY DEF Put, AllOrdered
  <1> QED
    BY <1>2, <1>3, <1>4, <1>5 DEF AllOrdered

(* The ledger's view of the slots.                                         *)
QtyOf(s) == [c \in Container |-> [r \in Resource |-> TotalQuantity(s[c], r)]]
ResOf(s) == [c \in Container |-> [r \in Resource |-> ReservedQuantity(s[c], r)]]
Plus(q, c, r, n) == [q EXCEPT ![c][r] = @ + n]

LEMMA ViewIsNat ==
  ASSUME NEW s, NEW f, AllOrdered(s, f)
  PROVE  /\ QtyOf(s) \in [Container -> [Resource -> Nat]] /\ ResOf(s) \in [Container -> [Resource -> Nat]]
         /\ \A c \in Container, r \in Resource : Plus(QtyOf(s), c, r, 0) = QtyOf(s) /\ Plus(ResOf(s), c, r, 0) = ResOf(s)
  <1>1. \A c \in Container, r \in Resource : TotalQuantity(s[c], r) \in Nat /\ ReservedQuantity(s[c], r) \in Nat
    BY StockIsSlots DEF AllOrdered, Ordered
  <1>2. QtyOf(s) \in [Container -> [Resource -> Nat]] /\ ResOf(s) \in [Container -> [Resource -> Nat]]
    BY <1>1 DEF QtyOf, ResOf
  <1>3. ASSUME NEW q \in [Container -> [Resource -> Nat]], NEW c \in Container, NEW r \in Resource
        PROVE  Plus(q, c, r, 0) = q
    BY DEF Plus
  <1> QED
    BY <1>2, <1>3

LEMMA BooksFollow ==
  ASSUME NEW s, NEW f, AllOrdered(s, f), NEW c \in Container, NEW t, NEW r \in Resource,
         NEW n \in Int, NEW l \in Int, Booked(s[c], t, r, n, l)
  PROVE  /\ QtyOf(Put(s, c, t)) = Plus(QtyOf(s), c, r, n)
         /\ ResOf(Put(s, c, t)) = Plus(ResOf(s), c, r, l)
  <1>1. DOMAIN s = Container
    BY DEF AllOrdered
  <1>2. \A d \in Container : Put(s, c, t)[d] = IF d = c THEN t ELSE s[d]
    BY <1>1 DEF Put
  <1>3. \A d \in Container, x \in Resource : TotalQuantity(s[d], x) \in Nat /\ ReservedQuantity(s[d], x) \in Nat
    BY StockIsSlots DEF AllOrdered, Ordered
  <1>4. ASSUME NEW d \in Container, NEW x \in Resource
        PROVE  /\ TotalQuantity(Put(s, c, t)[d], x) = TotalQuantity(s[d], x) + (IF d = c /\ x = r THEN n ELSE 0)
               /\ ReservedQuantity(Put(s, c, t)[d], x) = ReservedQuantity(s[d], x) + (IF d = c /\ x = r THEN l ELSE 0)
    <2>1. CASE d = c
      BY <1>2, <2>1 DEF Booked
    <2>2. CASE d # c
      BY <1>2, <1>3, <2>2
    <2> QED
      BY <2>1, <2>2
  <1>5. PICK q \in [Container -> [Resource -> Nat]], p \in [Container -> [Resource -> Nat]] :
          q = QtyOf(s) /\ p = ResOf(s)
    BY ViewIsNat
  <1>6. \A d \in Container, x \in Resource : TotalQuantity(s[d], x) = q[d][x] /\ ReservedQuantity(s[d], x) = p[d][x]
    BY <1>5 DEF QtyOf, ResOf
  <1>7. \A d \in Container, x \in Resource :
          /\ TotalQuantity(Put(s, c, t)[d], x) = q[d][x] + (IF d = c /\ x = r THEN n ELSE 0)
          /\ ReservedQuantity(Put(s, c, t)[d], x) = p[d][x] + (IF d = c /\ x = r THEN l ELSE 0)
    BY <1>4, <1>6
  <1>8. /\ QtyOf(Put(s, c, t)) = [d \in Container |-> [x \in Resource |-> q[d][x] + (IF d = c /\ x = r THEN n ELSE 0)]]
        /\ ResOf(Put(s, c, t)) = [d \in Container |-> [x \in Resource |-> p[d][x] + (IF d = c /\ x = r THEN l ELSE 0)]]
    BY <1>7, Zenon DEF QtyOf, ResOf
  <1>9. ASSUME NEW v \in [Container -> [Resource -> Nat]], NEW m \in Int
        PROVE  Plus(v, c, r, m) =
                 [d \in Container |-> [x \in Resource |-> v[d][x] + (IF d = c /\ x = r THEN m ELSE 0)]]
    <2>1. PICK row : row = [v[c] EXCEPT ![r] = @ + m]
      BY Zenon
    <2>2. Plus(v, c, r, m) = [d \in Container |-> IF d = c THEN row ELSE v[d]]
      BY <2>1, Zenon DEF Plus
    <2>3. row = [x \in Resource |-> v[c][x] + (IF c = c /\ x = r THEN m ELSE 0)]
      <3>1. PICK w \in [Resource -> Nat] : w = v[c]
        OBVIOUS
      <3>2. row = [x \in Resource |-> IF x = r THEN w[x] + m ELSE w[x]]
        BY <2>1, <3>1, Zenon
      <3>3. \A x \in Resource : (IF x = r THEN w[x] + m ELSE w[x]) = w[x] + (IF c = c /\ x = r THEN m ELSE 0)
        OBVIOUS
      <3> QED
        BY <3>1, <3>2, <3>3
    <2>4. ASSUME NEW d \in Container
          PROVE  (IF d = c THEN row ELSE v[d]) = [x \in Resource |-> v[d][x] + (IF d = c /\ x = r THEN m ELSE 0)]
      <3>1. CASE d = c
        BY <2>3, <3>1
      <3>2. CASE d # c
        <4>1. PICK w \in [Resource -> Nat] : w = v[d]
          OBVIOUS
        <4>2. \A x \in Resource : w[x] = w[x] + (IF d = c /\ x = r THEN m ELSE 0)
          BY <3>2
        <4>3. w = [x \in Resource |-> w[x] + (IF d = c /\ x = r THEN m ELSE 0)]
          BY <4>2
        <4> QED
          BY <3>2, <4>1, <4>3
      <3> QED
        BY <3>1, <3>2
    <2> QED
      BY <2>2, <2>4
  <1> QED
    BY <1>5, <1>8, <1>9, Zenon

LEMMA EmptyOrdered ==
  ASSUME NEW c \in Container
  PROVE  Ordered(c, <<>>, NoReservations)
  <1>1. PICK s : s = <<>>
    OBVIOUS
  <1>2. s \in Seq(Fitting(c)) /\ Len(s) = 0
    BY <1>1
  <1>3. Volume(s) = 0 /\ \A r \in Resource : ReservedQuantity(s, r) = 0
    <2>1. Nought(s) = s /\ [i \in DOMAIN s |-> s[i].quantity * UnitVolume[s[i].resource]] = s
      BY <1>1 DEF Nought
    <2>2. \A r \in Resource : Locked(s, r) = s
      BY <1>1 DEF Locked
    <2> QED
      BY <1>1, <2>1, <2>2, TotalOfNone DEF Volume, ReservedQuantity
  <1>4. s \in Stock(c)
    BY <1>2, <1>3, ResourceAssumption DEF Stock
  <1>5. PICK f : f = NoReservations
    OBVIOUS
  <1>6. f = [id \in DOMAIN f |-> f[id]] /\ DOMAIN f = {}
    BY <1>5 DEF NoReservations
  <1>7. Promises(f)
    BY <1>6 DEF Promises
  <1>8. ASSUME NEW r \in Resource PROVE Promised(f, r) = 0
    <2>1. PICK S, a : S = {id \in DOMAIN f : f[id].resource = r} /\ a = [id \in S |-> f[id].amount]
      BY Zenon
    <2>2. a \in [S -> Nat] /\ (\A x \in S : a[x] = 0) /\ DOMAIN a = S
      BY <1>6, <2>1
    <2>3. IsFiniteSet(S)
      BY <1>7, <2>1, PromisedIsNat, Zenon
    <2>4. SumOf(a, S) = 0
      BY <2>2, <2>3, SumIsZero
    <2> QED
      BY <2>1, <2>2, <2>4, TotalIsSum DEF Promised
  <1> QED
    BY <1>1, <1>3, <1>4, <1>5, <1>7, <1>8 DEF Ordered

LEMMA InitInOrder == Init => InOrder
  <1> SUFFICES ASSUME Init PROVE InOrder
    OBVIOUS
  <1>1. \A c \in Container : slots[c] = <<>> /\ reservations[c] = NoReservations
    BY DEF Init
  <1>2. slots = [c \in Container |-> slots[c]] /\ reservations = [c \in Container |-> reservations[c]]
    BY DEF Init
  <1> QED
    BY <1>1, <1>2, EmptyOrdered, Zenon DEF InOrder, AllOrdered

LEMMA NothingStored ==
  ASSUME NEW r \in Resource
  PROVE  TotalQuantity(<<>>, r) = 0 /\ ReservedQuantity(<<>>, r) = 0
  <1>1. PICK s : s = <<>>
    OBVIOUS
  <1>2. Quantities(s, r) = s /\ Locked(s, r) = s
    BY <1>1 DEF Quantities, Locked
  <1> QED
    BY <1>1, <1>2, TotalOfNone DEF TotalQuantity, ReservedQuantity

-----------------------------------------------------------------------------
(* What each action does to the containers and to the ledger's view.       *)
Becomes(q, p, f) ==
  /\ AllOrdered(slots', reservations')
  /\ QtyOf(slots') = q /\ ResOf(slots') = p /\ reservations' = f

LEMMA AddStep ==
  ASSUME InOrder, NEW c \in Container, NEW r \in Resource, NEW n \in Amount, Add(c, r, n)
  PROVE  Becomes(Plus(QtyOf(slots), c, r, n), ResOf(slots), reservations)
  <1>1. PICK t : t = AddTo(slots[c], r, n)
    OBVIOUS
  <1>2. slots' = Put(slots, c, t) /\ reservations' = reservations
    BY <1>1 DEF Add, Put
  <1>3. Ordered(c, t, reservations[c]) /\ Booked(slots[c], t, r, n, 0)
    BY <1>1, OrderedAdd DEF Add, InOrder, AllOrdered
  <1>4. /\ AllOrdered(Put(slots, c, t), Put(reservations, c, reservations[c]))
        /\ Put(reservations, c, reservations[c]) = reservations
    BY <1>3, PutOrdered DEF InOrder
  <1>5. /\ QtyOf(Put(slots, c, t)) = Plus(QtyOf(slots), c, r, n)
        /\ ResOf(Put(slots, c, t)) = Plus(ResOf(slots), c, r, 0)
    BY <1>3, BooksFollow DEF InOrder, Amount
  <1> QED
    BY <1>2, <1>4, <1>5, ViewIsNat DEF Becomes, InOrder

LEMMA RemoveStep ==
  ASSUME InOrder, NEW c \in Container, NEW r \in Resource, NEW n \in Amount, RemoveUnits(c, r, n)
  PROVE  /\ Becomes(Plus(QtyOf(slots), c, r, -n), ResOf(slots), reservations)
         /\ n <= AvailableQuantity(slots[c], r)
  <1>1. PICK t : t = RemoveFrom(slots[c], r, n)
    OBVIOUS
  <1>2. slots' = Put(slots, c, t) /\ reservations' = reservations
    BY <1>1 DEF RemoveUnits, Put
  <1>3. n <= AvailableQuantity(slots[c], r)
    <2>1. slots[c] \in Seq(Fitting(c))
      BY StockIsSlots DEF InOrder, AllOrdered, Ordered
    <2>2. AvailableQuantity(slots[c], r) \in Nat
      BY <2>1, FreeAndLocked
    <2> QED
      BY <2>2 DEF RemoveUnits, Amount
  <1>4. Ordered(c, t, reservations[c]) /\ Booked(slots[c], t, r, -n, 0)
    BY <1>1, <1>3, OrderedRemove DEF InOrder, AllOrdered
  <1>5. /\ AllOrdered(Put(slots, c, t), Put(reservations, c, reservations[c]))
        /\ Put(reservations, c, reservations[c]) = reservations
    BY <1>4, PutOrdered DEF InOrder
  <1>6. /\ QtyOf(Put(slots, c, t)) = Plus(QtyOf(slots), c, r, -n)
        /\ ResOf(Put(slots, c, t)) = Plus(ResOf(slots), c, r, 0)
    <2>1. PICK m \in Int : m = -n
      BY DEF Amount
    <2> QED
      BY <1>4, <2>1, BooksFollow DEF InOrder
  <1> QED
    BY <1>2, <1>3, <1>5, <1>6, ViewIsNat DEF Becomes, InOrder

LEMMA TransferStep ==
  ASSUME InOrder, NEW actor, NEW c \in Container, NEW d \in Container, NEW r \in Resource, NEW n \in Amount,
         AtomicTransfer(actor, c, d, r, n)
  PROVE  /\ Becomes(Plus(Plus(QtyOf(slots), c, r, -n), d, r, n), ResOf(slots), reservations)
         /\ n <= AvailableQuantity(slots[c], r) /\ c # d
  <1>1. PICK k, t : k = RemoveFrom(slots[c], r, n) /\ t = AddTo(slots[d], r, n)
    OBVIOUS
  <1>2. PICK mid : mid = Put(slots, c, k)
    OBVIOUS
  <1>3. slots' = Put(mid, d, t) /\ reservations' = reservations /\ c # d
    BY <1>1, <1>2 DEF AtomicTransfer, Put
  <1>4. n <= AvailableQuantity(slots[c], r) /\ CanAccept(d, slots[d], r, n)
    <2>1. slots[c] \in Seq(Fitting(c))
      BY StockIsSlots DEF InOrder, AllOrdered, Ordered
    <2>2. AvailableQuantity(slots[c], r) \in Nat
      BY <2>1, FreeAndLocked
    <2> QED
      BY <2>2 DEF AtomicTransfer, Amount
  <1>5. PICK m \in Int : m = -n
    BY DEF Amount
  <1>6. Ordered(c, k, reservations[c]) /\ Booked(slots[c], k, r, m, 0)
    BY <1>1, <1>4, <1>5, OrderedRemove DEF InOrder, AllOrdered
  <1>7. AllOrdered(mid, reservations) /\ mid[d] = slots[d]
    BY <1>2, <1>3, <1>6, PutOrdered DEF InOrder
  <1>8. QtyOf(mid) = Plus(QtyOf(slots), c, r, m) /\ ResOf(mid) = ResOf(slots)
    BY <1>2, <1>6, BooksFollow, ViewIsNat DEF InOrder
  <1>9. Ordered(d, t, reservations[d]) /\ Booked(mid[d], t, r, n, 0)
    BY <1>1, <1>4, <1>7, OrderedAdd DEF AllOrdered
  <1>10. AllOrdered(Put(mid, d, t), reservations)
    <2>1. /\ AllOrdered(Put(mid, d, t), Put(reservations, d, reservations[d]))
          /\ Put(reservations, d, reservations[d]) = reservations
      BY <1>7, <1>9, PutOrdered
    <2> QED
      BY <2>1
  <1>11. QtyOf(Put(mid, d, t)) = Plus(QtyOf(mid), d, r, n) /\ ResOf(Put(mid, d, t)) = ResOf(mid)
    BY <1>7, <1>9, BooksFollow, ViewIsNat DEF Amount
  <1> QED
    BY <1>3, <1>4, <1>5, <1>8, <1>10, <1>11 DEF Becomes

LEMMA ReserveStep ==
  ASSUME InOrder, NEW c \in Container, NEW id \in Id, NEW r \in Resource, NEW n \in Amount, Reserve(c, id, r, n)
  PROVE  /\ Becomes(QtyOf(slots), Plus(ResOf(slots), c, r, n),
                    Put(reservations, c, With(reservations[c], id, [resource |-> r, amount |-> n])))
         /\ n <= AvailableQuantity(slots[c], r) /\ id \notin DOMAIN reservations[c]
  <1>1. PICK t, g : /\ t = Lock(slots[c], r, n)
                    /\ g = With(reservations[c], id, [resource |-> r, amount |-> n])
    OBVIOUS
  <1>2. slots' = Put(slots, c, t) /\ reservations' = Put(reservations, c, g) /\ id \notin DOMAIN reservations[c]
    BY <1>1 DEF Reserve, Put
  <1>3. n <= AvailableQuantity(slots[c], r)
    <2>1. slots[c] \in Seq(Fitting(c))
      BY StockIsSlots DEF InOrder, AllOrdered, Ordered
    <2>2. AvailableQuantity(slots[c], r) \in Nat
      BY <2>1, FreeAndLocked
    <2> QED
      BY <2>2 DEF Reserve, Amount
  <1>4. Ordered(c, t, g) /\ Booked(slots[c], t, r, 0, n)
    BY <1>1, <1>2, <1>3, OrderedLock DEF InOrder, AllOrdered
  <1>5. AllOrdered(Put(slots, c, t), Put(reservations, c, g))
    BY <1>4, PutOrdered DEF InOrder
  <1>6. QtyOf(Put(slots, c, t)) = QtyOf(slots) /\ ResOf(Put(slots, c, t)) = Plus(ResOf(slots), c, r, n)
    BY <1>4, BooksFollow, ViewIsNat DEF InOrder, Amount
  <1> QED
    BY <1>1, <1>2, <1>3, <1>5, <1>6 DEF Becomes

LEMMA CommitStep ==
  ASSUME InOrder, NEW c \in Container, NEW id \in DOMAIN reservations[c], CommitReservation(c, id)
  PROVE  LET h == reservations[c][id] IN
           Becomes(Plus(QtyOf(slots), c, h.resource, -h.amount), Plus(ResOf(slots), c, h.resource, -h.amount),
                   Put(reservations, c, Without(reservations[c], id)))
  <1>1. Ordered(c, slots[c], reservations[c])
    BY DEF InOrder, AllOrdered
  <1>2. PICK r \in Resource, n \in Nat : r = reservations[c][id].resource /\ n = reservations[c][id].amount
    BY <1>1, Covered
  <1>3. PICK t, g : t = Deduct(slots[c], r, n) /\ g = Without(reservations[c], id)
    OBVIOUS
  <1>4. slots' = Put(slots, c, t) /\ reservations' = Put(reservations, c, g)
    BY <1>2, <1>3 DEF CommitReservation, Put
  <1>5. PICK m \in Int : m = -n
    OBVIOUS
  <1>6. Ordered(c, t, g) /\ Booked(slots[c], t, r, m, m)
    BY <1>1, <1>2, <1>3, <1>5, OrderedDeduct
  <1>7. AllOrdered(Put(slots, c, t), Put(reservations, c, g))
    BY <1>6, PutOrdered DEF InOrder
  <1>8. QtyOf(Put(slots, c, t)) = Plus(QtyOf(slots), c, r, m) /\ ResOf(Put(slots, c, t)) = Plus(ResOf(slots), c, r, m)
    BY <1>6, BooksFollow DEF InOrder
  <1> QED
    BY <1>2, <1>3, <1>4, <1>5, <1>7, <1>8 DEF Becomes

LEMMA ReleaseStep ==
  ASSUME InOrder, NEW c \in Container, NEW id \in DOMAIN reservations[c], ReleaseReservation(c, id)
  PROVE  LET h == reservations[c][id] IN
           Becomes(QtyOf(slots), Plus(ResOf(slots), c, h.resource, -h.amount),
                   Put(reservations, c, Without(reservations[c], id)))
  <1>1. Ordered(c, slots[c], reservations[c])
    BY DEF InOrder, AllOrdered
  <1>2. PICK r \in Resource, n \in Nat : r = reservations[c][id].resource /\ n = reservations[c][id].amount
    BY <1>1, Covered
  <1>3. PICK t, g : t = Unlock(slots[c], r, n) /\ g = Without(reservations[c], id)
    OBVIOUS
  <1>4. slots' = Put(slots, c, t) /\ reservations' = Put(reservations, c, g)
    BY <1>2, <1>3 DEF ReleaseReservation, Put
  <1>5. PICK m \in Int : m = -n
    OBVIOUS
  <1>6. Ordered(c, t, g) /\ Booked(slots[c], t, r, 0, m)
    BY <1>1, <1>2, <1>3, <1>5, OrderedRelease
  <1>7. AllOrdered(Put(slots, c, t), Put(reservations, c, g))
    BY <1>6, PutOrdered DEF InOrder
  <1>8. QtyOf(Put(slots, c, t)) = QtyOf(slots) /\ ResOf(Put(slots, c, t)) = Plus(ResOf(slots), c, r, m)
    BY <1>6, BooksFollow, ViewIsNat DEF InOrder
  <1> QED
    BY <1>2, <1>3, <1>4, <1>5, <1>7, <1>8 DEF Becomes

LEMMA DeliverStep ==
  ASSUME InOrder, NEW actor, NEW c \in Container, NEW d \in Container, NEW id \in DOMAIN reservations[c],
         TwoPhaseCommit(actor, id, c, d)
  PROVE  LET h == reservations[c][id] IN
           Becomes(Plus(Plus(QtyOf(slots), c, h.resource, -h.amount), d, h.resource, h.amount),
                   Plus(ResOf(slots), c, h.resource, -h.amount),
                   Put(reservations, c, Without(reservations[c], id)))
  <1>1. Ordered(c, slots[c], reservations[c])
    BY DEF InOrder, AllOrdered
  <1>2. PICK r \in Resource, n \in Amount : r = reservations[c][id].resource /\ n = reservations[c][id].amount
    BY <1>1, Covered
  <1>3. PICK k, g, mid : k = Deduct(slots[c], r, n) /\ g = Without(reservations[c], id) /\ mid = Put(slots, c, k)
    OBVIOUS
  <1>4. PICK t : t = AddTo(mid[d], r, n)
    OBVIOUS
  <1>5. slots' = Put(mid, d, t) /\ reservations' = Put(reservations, c, g) /\ CanAccept(d, slots[d], r, n)
    BY <1>2, <1>3, <1>4 DEF TwoPhaseCommit, Put
  <1>6. PICK m \in Int : m = -n
    BY DEF Amount
  <1>7. Ordered(c, k, g) /\ Booked(slots[c], k, r, m, m) /\ CanAccept(c, k, r, n)
    BY <1>1, <1>2, <1>3, <1>6, OrderedDeduct
  <1>8. PICK held : held = Put(reservations, c, g)
    OBVIOUS
  <1>9. AllOrdered(mid, held) /\ mid[c] = k /\ (d # c => mid[d] = slots[d])
    BY <1>3, <1>7, <1>8, PutOrdered DEF InOrder
  <1>10. QtyOf(mid) = Plus(QtyOf(slots), c, r, m) /\ ResOf(mid) = Plus(ResOf(slots), c, r, m)
    BY <1>3, <1>7, BooksFollow DEF InOrder
  <1>11. CanAccept(d, mid[d], r, n)
    BY <1>5, <1>7, <1>9
  <1>12. Ordered(d, t, held[d]) /\ Booked(mid[d], t, r, n, 0)
    BY <1>4, <1>9, <1>11, OrderedAdd DEF AllOrdered
  <1>13. AllOrdered(Put(mid, d, t), held)
    <2>1. AllOrdered(Put(mid, d, t), Put(held, d, held[d])) /\ Put(held, d, held[d]) = held
      BY <1>9, <1>12, PutOrdered
    <2> QED
      BY <2>1
  <1>14. QtyOf(Put(mid, d, t)) = Plus(QtyOf(mid), d, r, n) /\ ResOf(Put(mid, d, t)) = ResOf(mid)
    BY <1>9, <1>12, BooksFollow, ViewIsNat DEF Amount
  <1> QED
    BY <1>2, <1>3, <1>5, <1>6, <1>8, <1>10, <1>13, <1>14 DEF Becomes

-----------------------------------------------------------------------------
(* Each of these is a step of the ledger.                                  *)
LEMMA MovedBy ==
  ASSUME InOrder, NEW c \in Container, NEW r \in Resource, NEW n \in Int,
         \/ QtyOf(slots') = Plus(QtyOf(slots), c, r, n)
         \/ \E d \in Container, m \in Int :
              d # c /\ QtyOf(slots') = Plus(Plus(QtyOf(slots), c, r, n), d, r, m)
  PROVE  TotalQuantity(slots'[c], r) - TotalQuantity(slots[c], r) = n
  <1>1. PICK q \in [Container -> [Resource -> Nat]] : q = QtyOf(slots)
    BY ViewIsNat DEF InOrder
  <1>2. q[c][r] = TotalQuantity(slots[c], r) /\ QtyOf(slots')[c][r] = TotalQuantity(slots'[c], r)
    BY <1>1 DEF QtyOf
  <1>3. Plus(q, c, r, n)[c][r] = q[c][r] + n
    BY DEF Plus
  <1>4. ASSUME NEW d \in Container, NEW m \in Int, d # c
        PROVE  Plus(Plus(q, c, r, n), d, r, m)[c][r] = q[c][r] + n
    BY <1>4 DEF Plus
  <1>5. PICK a \in Nat : a = q[c][r]
    OBVIOUS
  <1> QED
    BY <1>1, <1>2, <1>3, <1>4, <1>5

LEMMA FreeToGive ==
  ASSUME InOrder, NEW c \in Container, NEW r \in Resource, NEW n \in Amount, n <= AvailableQuantity(slots[c], r)
  PROVE  n <= TotalQuantity(slots[c], r) - ReservedQuantity(slots[c], r)
  <1>1. slots[c] \in Seq(Fitting(c)) /\ ReservedQuantity(slots[c], r) \in Nat
    BY StockIsSlots DEF InOrder, AllOrdered, Ordered
  <1>2. /\ AvailableQuantity(slots[c], r) \in Nat
        /\ TotalQuantity(slots[c], r) = AvailableQuantity(slots[c], r) + ReservedQuantity(slots[c], r)
    BY <1>1, FreeAndLocked
  <1> QED
    BY <1>1, <1>2 DEF Amount

LEMMA DepositFollows ==
  ASSUME InOrder, NEW c \in Container, NEW r \in Resource, NEW n \in Amount,
         Becomes(Plus(QtyOf(slots), c, r, n), ResOf(slots), reservations)
  PROVE  LedgerView!LedgerNext
  <1>1. QtyOf(slots') = Plus(QtyOf(slots), c, r, n) /\ ResOf(slots') = ResOf(slots) /\ reservations' = reservations
    BY DEF Becomes
  <1>2. LedgerView!Deposit(c, r, n)
    BY <1>1 DEF LedgerView!Deposit, QtyOf, ResOf, Plus
  <1>3. TotalQuantity(slots'[c], r) - TotalQuantity(slots[c], r) = n /\ n > 0
    BY <1>1, MovedBy DEF Amount
  <1> QED
    BY <1>2, <1>3 DEF LedgerView!LedgerNext

LEMMA WithdrawFollows ==
  ASSUME InOrder, NEW c \in Container, NEW r \in Resource, NEW n \in Amount,
         n <= AvailableQuantity(slots[c], r),
         Becomes(Plus(QtyOf(slots), c, r, -n), ResOf(slots), reservations)
  PROVE  LedgerView!LedgerNext
  <1>1. QtyOf(slots') = Plus(QtyOf(slots), c, r, -n) /\ ResOf(slots') = ResOf(slots) /\ reservations' = reservations
    BY DEF Becomes
  <1>2. n <= TotalQuantity(slots[c], r) - ReservedQuantity(slots[c], r)
    BY FreeToGive
  <1>3. LedgerView!Withdraw(c, r, n)
    BY <1>1, <1>2, Zenon DEF LedgerView!Withdraw, LedgerView!Available, QtyOf, ResOf, Plus
  <1>4. PICK m \in Int : m = -n /\ m < 0 /\ n = -m
    BY DEF Amount
  <1>5. TotalQuantity(slots'[c], r) - TotalQuantity(slots[c], r) = m
    BY <1>1, <1>4, MovedBy
  <1> QED
    BY <1>3, <1>4, <1>5 DEF LedgerView!LedgerNext

LEMMA TransferFollows ==
  ASSUME InOrder, NEW c \in Container, NEW d \in Container, NEW r \in Resource, NEW n \in Amount,
         c # d, n <= AvailableQuantity(slots[c], r),
         Becomes(Plus(Plus(QtyOf(slots), c, r, -n), d, r, n), ResOf(slots), reservations)
  PROVE  LedgerView!LedgerNext
  <1>1. /\ QtyOf(slots') = Plus(Plus(QtyOf(slots), c, r, -n), d, r, n)
        /\ ResOf(slots') = ResOf(slots) /\ reservations' = reservations
    BY DEF Becomes
  <1>2. n <= TotalQuantity(slots[c], r) - ReservedQuantity(slots[c], r)
    BY FreeToGive
  <1>3. LedgerView!Transfer(c, d, r, n)
    BY <1>1, <1>2, Zenon DEF LedgerView!Transfer, LedgerView!Available, QtyOf, ResOf, Plus
  <1>4. PICK m \in Int : m = -n /\ m < 0 /\ n = -m /\ n \in Int
    BY DEF Amount
  <1>5. TotalQuantity(slots'[c], r) - TotalQuantity(slots[c], r) = m
    BY <1>1, <1>4, MovedBy
  <1> QED
    BY <1>3, <1>4, <1>5 DEF LedgerView!LedgerNext

LEMMA ReserveFollows ==
  ASSUME InOrder, NEW c \in Container, NEW id, id \notin DOMAIN reservations[c],
         NEW r \in Resource, NEW n \in Amount, n <= AvailableQuantity(slots[c], r),
         Becomes(QtyOf(slots), Plus(ResOf(slots), c, r, n),
                 Put(reservations, c, With(reservations[c], id, [resource |-> r, amount |-> n])))
  PROVE  LedgerView!LedgerNext
  <1>1. PICK new, g : new = [resource |-> r, amount |-> n] /\ g = With(reservations[c], id, new)
    OBVIOUS
  <1>2. QtyOf(slots') = QtyOf(slots) /\ ResOf(slots') = Plus(ResOf(slots), c, r, n) /\ reservations' = Put(reservations, c, g)
    BY <1>1 DEF Becomes
  <1>3. n <= TotalQuantity(slots[c], r) - ReservedQuantity(slots[c], r)
    BY FreeToGive
  <1>4. LedgerView!Hold(c, id, r, n)
    <2>1. g = LedgerView!With(reservations[c], id, new)
      BY <1>1 DEF With, LedgerView!With
    <2>2. reservations' = [reservations EXCEPT ![c] = g]
      BY <1>2 DEF Put
    <2>3. reservations' = [reservations EXCEPT ![c] = LedgerView!With(@, id, new)]
      BY <2>1, <2>2
    <2> QED
      BY <1>1, <1>2, <1>3, <2>3, Zenon DEF LedgerView!Hold, LedgerView!Available, QtyOf, ResOf, Plus
  <1>5. reservations'[c] = g /\ id \in DOMAIN g /\ g[id] = new
    <2>1. DOMAIN reservations = Container
      BY DEF InOrder, AllOrdered
    <2> QED
      BY <1>1, <1>2, <2>1 DEF Put, With
  <1>6. id \in DOMAIN reservations'[c] \ DOMAIN reservations[c] /\ reservations'[c][id].resource = r
        /\ reservations'[c][id].amount = n
    BY <1>1, <1>5
  <1> QED
    BY <1>4, <1>6 DEF LedgerView!LedgerNext

(* Three ways in which a reservation ends.                                 *)
LEMMA EndFollows ==
  ASSUME InOrder, NEW c \in Container, NEW id \in DOMAIN reservations[c],
         NEW r \in Resource, NEW n \in Nat, r = reservations[c][id].resource, n = reservations[c][id].amount,
         NEW q, Becomes(q, Plus(ResOf(slots), c, r, -n), Put(reservations, c, Without(reservations[c], id))),
         \/ q = QtyOf(slots)
         \/ q = Plus(QtyOf(slots), c, r, -n)
         \/ \E d \in Container : q = Plus(Plus(QtyOf(slots), c, r, -n), d, r, n)
  PROVE  LedgerView!LedgerNext
  <1>1. PICK g : g = Without(reservations[c], id)
    OBVIOUS
  <1>2. QtyOf(slots') = q /\ ResOf(slots') = Plus(ResOf(slots), c, r, -n) /\ reservations' = Put(reservations, c, g)
    BY <1>1 DEF Becomes
  <1>3. n <= ReservedQuantity(slots[c], r)
    BY Covered DEF InOrder, AllOrdered
  <1>4. id \in DOMAIN reservations[c] \ DOMAIN reservations'[c]
    <2>1. DOMAIN reservations = Container
      BY DEF InOrder, AllOrdered
    <2> QED
      BY <1>1, <1>2, <2>1 DEF Put, Without
  <1>5. reservations' = [reservations EXCEPT ![c] = LedgerView!Without(@, id)]
    <2>1. g = LedgerView!Without(reservations[c], id)
      BY <1>1 DEF Without, LedgerView!Without
    <2> QED
      BY <1>2, <2>1 DEF Put
  <1>6. CASE q = QtyOf(slots)
    <2>1. LedgerView!Release(c, id)
      BY <1>2, <1>3, <1>5, <1>6, Zenon DEF LedgerView!Release, QtyOf, ResOf, Plus
    <2> QED
      BY <1>4, <2>1 DEF LedgerView!LedgerNext
  <1>7. CASE q = Plus(QtyOf(slots), c, r, -n)
    <2>1. LedgerView!Consume(c, id)
      BY <1>2, <1>3, <1>5, <1>7, Zenon DEF LedgerView!Consume, QtyOf, ResOf, Plus
    <2> QED
      BY <1>4, <2>1 DEF LedgerView!LedgerNext
  <1>8. ASSUME NEW d \in Container, q = Plus(Plus(QtyOf(slots), c, r, -n), d, r, n)
        PROVE  LedgerView!LedgerNext
    <2>1. LedgerView!Deliver(c, id, d)
      BY <1>2, <1>3, <1>5, <1>8, Zenon DEF LedgerView!Deliver, QtyOf, ResOf, Plus
    <2> QED
      BY <1>4, <2>1 DEF LedgerView!LedgerNext
  <1> QED
    BY <1>6, <1>7, <1>8

LEMMA NothingFollows ==
  ASSUME InOrder, slots' = slots, reservations' = reservations
  PROVE  AllOrdered(slots', reservations') /\ UNCHANGED LedgerView!ledgerVars
  BY DEF InOrder, LedgerView!ledgerVars

LEMMA DiscardFollows ==
  ASSUME InOrder, NEW c \in Container, Emptied(c)
  PROVE  AllOrdered(slots', reservations') /\ LedgerView!Discard(c)
  <1>1. slots' = Put(slots, c, <<>>) /\ reservations' = Put(reservations, c, NoReservations)
    BY DEF Emptied, Put
  <1>2. Ordered(c, <<>>, NoReservations)
    BY EmptyOrdered
  <1>3. PICK s, f : s = Put(slots, c, <<>>) /\ f = Put(reservations, c, NoReservations)
    OBVIOUS
  <1>4. /\ AllOrdered(s, f) /\ s[c] = <<>>
        /\ \A d \in Container : d # c => s[d] = slots[d]
    <2>1. AllOrdered(slots, reservations)
      BY DEF InOrder
    <2> QED
      BY <1>2, <1>3, <2>1, PutOrdered
  <1>5. \A r \in Resource : TotalQuantity(<<>>, r) = 0 /\ ReservedQuantity(<<>>, r) = 0
    BY NothingStored
  <1>6. /\ QtyOf(s) = [QtyOf(slots) EXCEPT ![c] = [r \in Resource |-> 0]]
        /\ ResOf(s) = [ResOf(slots) EXCEPT ![c] = [r \in Resource |-> 0]]
    <2>1. /\ \A r \in Resource : TotalQuantity(s[c], r) = 0 /\ ReservedQuantity(s[c], r) = 0
          /\ \A d \in Container : d # c =>
                \A r \in Resource : /\ TotalQuantity(s[d], r) = TotalQuantity(slots[d], r)
                                    /\ ReservedQuantity(s[d], r) = ReservedQuantity(slots[d], r)
      BY <1>4, <1>5, Zenon
    <2> QED
      BY <2>1 DEF QtyOf, ResOf
  <1>7. slots' = s /\ reservations' = f
    BY <1>1, <1>3, Zenon
  <1> QED
    BY <1>3, <1>4, <1>6, <1>7 DEF LedgerView!Discard, QtyOf, ResOf, Put, NoReservations

LEMMA StepFollows ==
  ASSUME InOrder, Next
  PROVE  AllOrdered(slots', reservations') /\ [LedgerView!LedgerChange]_LedgerView!ledgerVars
  <1>1. ASSUME NEW c \in Container, Register(c) \/ RemoveContainer(c)
        PROVE  AllOrdered(slots', reservations') /\ LedgerView!Discard(c)
    BY <1>1, DiscardFollows DEF Register, RemoveContainer
  <1>2. ASSUME NEW c \in Container, NEW r \in Resource, NEW n \in Amount, Add(c, r, n)
        PROVE  AllOrdered(slots', reservations') /\ LedgerView!LedgerNext
    BY <1>2, AddStep, DepositFollows DEF Becomes
  <1>3. ASSUME NEW c \in Container, NEW r \in Resource, NEW n \in Amount, RemoveUnits(c, r, n)
        PROVE  AllOrdered(slots', reservations') /\ LedgerView!LedgerNext
    BY <1>3, RemoveStep, WithdrawFollows DEF Becomes
  <1>4. ASSUME NEW c \in Container, NEW id \in Id, NEW r \in Resource, NEW n \in Amount, Reserve(c, id, r, n)
        PROVE  AllOrdered(slots', reservations') /\ LedgerView!LedgerNext
    <2>1. PICK p, f : /\ p = Plus(ResOf(slots), c, r, n)
                      /\ f = Put(reservations, c, With(reservations[c], id, [resource |-> r, amount |-> n]))
      OBVIOUS
    <2>2. Becomes(QtyOf(slots), p, f) /\ n <= AvailableQuantity(slots[c], r) /\ id \notin DOMAIN reservations[c]
      BY <1>4, <2>1, ReserveStep, Zenon
    <2>3. LedgerView!LedgerNext
      BY <2>1, <2>2, ReserveFollows, Zenon
    <2> QED
      BY <2>2, <2>3 DEF Becomes
  <1>5. ASSUME NEW c \in Container, NEW r \in Resource, NEW n \in Amount, ReserveWithNextId(c, r, n)
        PROVE  AllOrdered(slots', reservations') /\ [LedgerView!LedgerNext]_LedgerView!ledgerVars
    <2>1. CASE Reserve(c, nextReservationId, r, n)
      BY <1>4, <1>5, <2>1 DEF ReserveWithNextId
    <2>2. CASE UNCHANGED <<slots, reservations>>
      BY <2>2, NothingFollows
    <2> QED
      BY <1>5, <2>1, <2>2 DEF ReserveWithNextId
  <1>6. ASSUME NEW actor \in Actor, NEW c \in Container, NEW d \in Container, NEW r \in Resource, NEW n \in Amount,
               AtomicTransfer(actor, c, d, r, n)
        PROVE  AllOrdered(slots', reservations') /\ LedgerView!LedgerNext
    BY <1>6, TransferStep, TransferFollows DEF Becomes
  <1>7. ASSUME NEW c \in Container, NEW id \in DOMAIN reservations[c]
        PROVE  /\ reservations[c][id].resource \in Resource /\ reservations[c][id].amount \in Nat
    BY Covered DEF InOrder, AllOrdered
  <1>8. ASSUME NEW c \in Container, NEW id \in DOMAIN reservations[c], CommitReservation(c, id)
        PROVE  AllOrdered(slots', reservations') /\ LedgerView!LedgerNext
    BY <1>7, <1>8, CommitStep, EndFollows DEF Becomes
  <1>9. ASSUME NEW c \in Container, NEW id \in DOMAIN reservations[c], ReleaseReservation(c, id)
        PROVE  AllOrdered(slots', reservations') /\ LedgerView!LedgerNext
    BY <1>7, <1>9, ReleaseStep, EndFollows DEF Becomes
  <1>10. ASSUME NEW actor \in Actor, NEW c \in Container, NEW d \in Container, NEW id \in DOMAIN reservations[c],
                TwoPhaseCommit(actor, id, c, d)
         PROVE  AllOrdered(slots', reservations') /\ LedgerView!LedgerNext
    BY <1>7, <1>10, DeliverStep, EndFollows DEF Becomes
  <1> DEFINE Follows == AllOrdered(slots', reservations') /\ [LedgerView!LedgerChange]_LedgerView!ledgerVars
  <1>11. AllOrdered(slots', reservations') /\ [LedgerView!LedgerNext]_LedgerView!ledgerVars => Follows
    BY DEF LedgerView!LedgerChange
  <1>12. ASSUME NEW c \in Container, AllOrdered(slots', reservations') /\ LedgerView!Discard(c)
         PROVE  Follows
    BY <1>12 DEF LedgerView!LedgerChange
  <1> HIDE DEF Follows
  <1>13. Follows
    BY <1>1, <1>2, <1>3, <1>4, <1>5, <1>6, <1>8, <1>9, <1>10, <1>11, <1>12
       DEF Next, TwoPhaseReserve, TwoPhaseCancel
  <1> QED BY <1>13 DEF Follows

(* The inductive invariant holds throughout.                               *)
LEMMA AlwaysInOrder == Spec => []InOrder
  <1>1. InOrder /\ [Next]_vars => InOrder'
    <2> SUFFICES ASSUME InOrder, [Next]_vars PROVE AllOrdered(slots', reservations')
      BY DEF InOrder
    <2>1. CASE Next
      BY <2>1, StepFollows
    <2>2. CASE UNCHANGED vars
      BY <2>2, NothingFollows DEF vars
    <2> QED
      BY <2>1, <2>2
  <1> QED
    BY <1>1, InitInOrder, PTL DEF Spec

LEMMA AuditPasses == InOrder => ValidateInvariants
  <1> SUFFICES ASSUME InOrder, NEW c \in Container
      PROVE  /\ Len(slots[c]) <= MaxSlots[c]
             /\ Volume(slots[c]) <= MaxVolume[c]
             /\ \A i \in DOMAIN slots[c] : slots[c][i].reserved <= slots[c][i].quantity
             /\ \A r \in Resource : ReservedQuantity(slots[c], r) = ReservedBy(c, r)
    BY DEF ValidateInvariants
  <1>1. Ordered(c, slots[c], reservations[c])
    BY DEF InOrder, AllOrdered
  <1>2. \A r \in Resource : ReservedQuantity(slots[c], r) = ReservedBy(c, r)
    BY <1>1 DEF Ordered, ReservedBy, Promised
  <1>3. Len(slots[c]) <= MaxSlots[c] /\ Volume(slots[c]) <= MaxVolume[c] /\ slots[c] \in Seq(Fitting(c))
    BY <1>1 DEF Ordered, Stock
  <1>4. \A i \in DOMAIN slots[c] : slots[c][i].reserved <= slots[c][i].quantity
    BY <1>3, FittingIsSlot DEF Fitting
  <1> QED
    BY <1>2, <1>3, <1>4

LEMMA PromisesCanBeKept == InOrder => AlwaysUndoable
  <1> SUFFICES ASSUME InOrder PROVE RollbackFits /\ ReservationsHonourable
    BY DEF AlwaysUndoable
  <1>1. ASSUME NEW c \in Container PROVE /\ Ordered(c, slots[c], reservations[c])
                                         /\ slots[c] \in Stock(c) /\ slots[c] \in Seq(Fitting(c))
    BY StockIsSlots DEF InOrder, AllOrdered, Ordered
  <1>2. RollbackFits
    <2> SUFFICES ASSUME NEW c \in Container, NEW r \in Resource, NEW n \in Amount
        PROVE  /\ n <= AvailableQuantity(slots[c], r) => CanAccept(c, RemoveFrom(slots[c], r, n), r, n)
               /\ n <= ReservedQuantity(slots[c], r) => CanAccept(c, Deduct(slots[c], r, n), r, n)
      BY DEF RollbackFits
    <2>1. n \in Nat
      BY DEF Amount
    <2>2. ASSUME n <= AvailableQuantity(slots[c], r) PROVE CanAccept(c, RemoveFrom(slots[c], r, n), r, n)
      <3>1. Leaves(c, slots[c], RemoveFrom(slots[c], r, n), r, n, 0)
        BY <1>1, <2>1, <2>2, RemoveWorks
      <3> QED
        BY <1>1, <3>1, RoomToReturn
    <2>3. ASSUME n <= ReservedQuantity(slots[c], r) PROVE CanAccept(c, Deduct(slots[c], r, n), r, n)
      <3>1. Leaves(c, slots[c], Deduct(slots[c], r, n), r, n, n)
        BY <1>1, <2>1, <2>3, DeductWorks
      <3> QED
        BY <1>1, <2>1, <3>1, RoomToReturn
    <2> QED
      BY <2>2, <2>3
  <1>3. ReservationsHonourable
    <2> SUFFICES ASSUME NEW c \in Container, NEW id \in DOMAIN reservations[c] PROVE LocksSuffice(c, id)
      BY DEF ReservationsHonourable
    <2>1. PICK s \in Seq(Fitting(c)), r \in Resource, n \in Nat :
            /\ s = slots[c] /\ r = reservations[c][id].resource /\ n = reservations[c][id].amount
            /\ n <= ReservedQuantity(s, r)
      BY <1>1, Covered
    <2>2. ASSUME NEW i \in DOMAIN s PROVE Least(Locked(s, r)[i], Quantities(s, r)[i]) = Locked(s, r)[i]
      <3>1. PICK q \in Nat, p \in Nat : q = s[i].quantity /\ p = s[i].reserved /\ p <= q
        BY FittingIsSlot DEF Fitting, Slot
      <3>2. Least(p, q) = p /\ Least(0, 0) = 0
        BY <3>1 DEF Least
      <3> QED
        BY <3>1, <3>2 DEF Locked, Quantities
    <2>3. [i \in DOMAIN s |-> Least(Locked(s, r)[i], Quantities(s, r)[i])] = Locked(s, r)
      BY <2>2 DEF Locked
    <2> QED
      BY <2>1, <2>3 DEF LocksSuffice, ReservedQuantity
  <1> QED
    BY <1>2, <1>3

(* validate_invariants, the audit the repository ships for itself, never   *)
(* finds a container over its slots or its volume, a slot that promises    *)
(* more than it has, or locks that differ from the reservations.           *)
THEOREM AuditAlwaysPasses == Spec => []ValidateInvariants
  BY AlwaysInOrder, AuditPasses, PTL

(* Whatever a container handed out it has room to take back, and every     *)
(* reservation can be committed or released whenever it is asked for: the  *)
(* two results container.rs does not look at are never a refusal.          *)
THEOREM WhatIsDoneCanBeUndone == Spec => []AlwaysUndoable
  BY AlwaysInOrder, PromisesCanBeKept, PTL

LEMMA InitFollows == Init => LedgerView!LedgerInit
  <1> SUFFICES ASSUME Init PROVE LedgerView!LedgerInit
    OBVIOUS
  <1>1. ASSUME NEW c \in Container, NEW r \in Resource
        PROVE  TotalQuantity(slots[c], r) = 0 /\ ReservedQuantity(slots[c], r) = 0
    <2>1. slots[c] = <<>>
      BY DEF Init
    <2> QED
      BY <2>1, NothingStored, Zenon
  <1>2. reservations = [c \in Container |-> [id \in {} |-> id]]
    BY DEF Init, NoReservations
  <1> QED
    BY <1>1, <1>2 DEF LedgerView!LedgerInit

(* However the walks spread an amount over the slots, each call does to    *)
(* the totals what it says: the slot-level containers implement the        *)
(* ledger the rest of the simulation counts on.                            *)
THEOREM ContainersImplementLedger == Spec => ImplementsLedger
  <1>1. InOrder /\ [Next]_vars => [LedgerView!LedgerChange]_LedgerView!ledgerVars
    <2> SUFFICES ASSUME InOrder, [Next]_vars PROVE [LedgerView!LedgerChange]_LedgerView!ledgerVars
      OBVIOUS
    <2>1. CASE Next
      BY <2>1, StepFollows
    <2>2. CASE UNCHANGED vars
      BY <2>2, NothingFollows DEF vars
    <2> QED
      BY <2>1, <2>2
  <1> QED
    BY <1>1, AlwaysInOrder, InitFollows, PTL DEF Spec, ImplementsLedger, LedgerView!LedgerSpec
=============================================================================
